----------------------------- MODULE MCTraffic -----------------------------
(***************************************************************************)
(* Instances of Traffic for TLC: sessions read from their transcript, from *)
(* the hooks, or both ways, of about four calls, each about one of the     *)
(* hazards.                                                                *)
(***************************************************************************)
EXTENDS Traffic

Reply(failed, says, cues, varies) == [failed |-> failed, says |-> says, cues |-> cues, varies |-> varies]
One == Reply(FALSE, "one", {}, FALSE)
Two == Reply(FALSE, "two", {}, FALSE)
Timed == Reply(FALSE, "one", {}, TRUE)
Empty == Reply(FALSE, "", {"nothing"}, FALSE)
Boom == Reply(TRUE, "boom", {"error", "trace"}, FALSE)
Refused == Reply(TRUE, "refused", {"harness"}, FALSE)

Setting(ways, reads, rereads, keys, answers, hashes, remarks, length) ==
  [ways |-> ways, reads |-> reads, rereads |-> rereads, keys |-> keys, answers |-> answers,
   hashes |-> hashes, remarks |-> remarks, length |-> length]

Sessions == {
  Setting({"tail"}, 2, FALSE, {"look", "f"}, {One, Two, Boom}, {"h"}, {}, 8),
  Setting({"tail"}, 2, FALSE, {"look", "run"}, {One, Empty, Refused}, {}, {}, 8),
  Setting({"tail"}, 3, TRUE, {"run", "f"}, {One}, {"h"}, {}, 8),
  Setting({"hook"}, 0, FALSE, {"run", "f"}, {Timed, Boom}, {"h"}, {"again"}, 8),
  Setting({"hook"}, 0, FALSE, {"run", "make"}, {Timed, Boom}, {}, {}, 8),
  Setting({"hook", "tail"}, 1, FALSE, {"run", "f"}, {Timed, Boom}, {"h"}, {}, 8),
  Setting({"hook", "tail"}, 1, FALSE, {"probe", "make"}, {One, Boom}, {}, {}, 8)}

=============================================================================
