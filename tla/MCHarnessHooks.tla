---------------------------- MODULE MCHarnessHooks ----------------------------
EXTENDS HarnessHooks

(* The facts each arm looks at, all their combinations, and the SDK.       *)
Facts(a) ==
  CASE a \in Thin -> {"env", "url", "listening"}
    [] a = "dasein" -> {"env", "url", "argv", "runner", "installed"}
    [] a = "rtk" -> {"binary", "rewrite"}
    [] a = "woz" -> {"env", "plugin", "node", "session", "token", "bypass"}
    [] a = "caveman" -> {"env", "plugin", "node"}
    [] a = "bear" -> {"env", "enabled"}
    [] a = "hosted" -> {"env", "server", "replace"}
    [] OTHER -> {"env"}
MCArms == Registered \cup {"fermat"}
MCBoxes == [a \in MCArms |-> SUBSET (Facts(a) \cup {"sdk"})]
MCDeliveries == {"system", "usermsg", "tool", "other"}
===============================================================================
