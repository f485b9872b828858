---------------------------- MODULE MCHttpServer ----------------------------
(* Instances of HttpServer for TLC. *)
EXTENDS HttpServer, TLC

Symmetry == Permutations(Conns)

Timed == [internal |-> FALSE, threads |-> 1, timeoutRequest |-> TRUE,
          timeoutContent |-> TRUE, upgrade |-> FALSE, starts |-> 1]

(* Two threads of the user's, with upgrades and a content that is not timed; *)
(* and a server with a thread of its own.                                    *)
MCSetups == {[Timed EXCEPT !.threads = 2, !.upgrade = TRUE, !.timeoutContent = FALSE],
             [Timed EXCEPT !.internal = TRUE]}

(* One thread, of the user's or of a server that is started again. *)
MCOneThread == {Timed, [Timed EXCEPT !.internal = TRUE, !.starts = 2]}

MCExternal == {Timed}
=============================================================================
