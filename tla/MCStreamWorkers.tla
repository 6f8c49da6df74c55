---------------------------- MODULE MCStreamWorkers ----------------------------
(***************************************************************************)
(* Instances of StreamWorkers for TLC: a LATEST_WINS slot, a NEVER_DROP    *)
(* slot, and a slot the schema does not know; a tick that sets the first   *)
(* two, an envelope for each of the last two, a malformed event and a      *)
(* topology delta.                                                         *)
(***************************************************************************)
EXTENDS StreamWorkers

MCSlot     == {"price", "state", "unknown"}
MCAccepted == {"price", "state"}

To(s) == [slot |-> s, policy |-> IF s = "price" THEN "latest_wins" ELSE "never_drop"]

MCEvent  == {"tick", "price", "state", "unknown", "malformed", "delta"}
MCYields ==
  [e \in MCEvent |-> CASE e = "tick" -> <<To("state"), To("price")>>
                       [] e \in MCSlot -> <<To(e)>>
                       [] OTHER -> <<>>]
MCDelta     == {"delta"}
MCMalformed == {"malformed"}

(* Either the source repeats a slot, or it brings what carries no update;  *)
(* another producer adds what the schema refuses.                          *)
MCSourceFeeds == {<<"state", "state", "tick">>, <<"delta", "malformed", "delta">>}
MCBridgeFeeds == {<<"unknown">>}
===============================================================================
