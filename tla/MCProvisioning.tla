---------------------------- MODULE MCProvisioning ----------------------------
(* A small instance of Provisioning: the four scripts, checkpoints with and  *)
(* without the treasury, with a missing signer, with a wrong seed, and        *)
(* settings files that differ in one field from a good one.                *)
EXTENDS Provisioning

MCSigners == {"exec_signer", "auditor_signer"}

MCScripts == {"multisig", "agent_wallet", "mpt_rwa", "credential"}

Old(aliases) == {<<a, 0>> : a \in aliases}

Plain(aliases, wrong) == [seeds |-> Old(aliases), wrong |-> Old(wrong)]

MCCheckpoints ==
  { Plain({}, {}), Plain(Trio, {}), Plain({"exec_signer"}, {}),
    Plain({"treasury"}, {}), Plain(Trio, {"auditor_signer"}),
    Plain(Trio, {"treasury"}) }

Value(type, kind, value) == [type |-> type, kind |-> kind, value |-> value]

GoodFields ==
  [whitelist               |-> Value("list", "finite", 0),
   amount_threshold_rlusd  |-> Value("string", "finite", 7),
   frequency_window_s      |-> Value("int", "finite", 60),
   frequency_limit         |-> Value("int", "finite", 3),
   channel_ceiling_rlusd   |-> Value("decimal", "finite", 2),
   fast_path_ceiling_rlusd |-> Value("decimal", "finite", 4)]

\* One value of every type and kind, at the boundary where there is one.
OddValues ==
  { Value("int", "finite", 0), Value("int", "finite", 4), Value("int", "huge", 9),
    Value("int", "finite", -1), Value("decimal", "huge", 9), Value("decimal", "tiny", 1),
    Value("constant", "nan", 0), Value("constant", "infinite", 9),
    Value("string", "garbage", 0), Value("string", "nan", 0), Value("bool", "finite", 1),
    Value("list", "finite", 0), Value("list", "garbage", 0), Value("null", "garbage", 0) }

Object(fields) == [content |-> "object", fields |-> fields]

MCConfigFiles ==
  {Object([GoodFields EXCEPT ![key] = odd]) : key \in AllowedKeys, odd \in OddValues}
  \cup {Object([k \in AllowedKeys \ {key} |-> GoodFields[k]]) : key \in AllowedKeys}
  \cup {Object([k \in AllowedKeys \cup {"whitelsit"} |-> GoodFields["frequency_limit"]])}
  \cup {[content |-> c, fields |-> GoodFields] :
          c \in {"missing", "unreadable", "not_utf8", "malformed", "not_object"}}
=============================================================================
