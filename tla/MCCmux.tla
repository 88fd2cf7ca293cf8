------------------------------- MODULE MCCmux -------------------------------
(* Instances of CmuxSession for TLC: a client on each side and the calls   *)
(* it makes.                                                               *)
EXTENDS CmuxSession, TLC

CONSTANTS i1, r1, d1, d2

HomeOfClients == (i1 :> "initiator") @@ (r1 :> "responder")

Thrice(ops) == <<ops, ops, ops>>

\* both sides dial and close; either side closes its session
BothCalls == (i1 :> <<{"dial", "destroy"}, {"dial", "close", "read", "deinit"},
                      {"dial", "close", "deinit", "destroy"}>>)
          @@ (r1 :> <<{"accept", "dial", "shutdown"}, {"accept", "write", "close"},
                      {"dial", "write", "close", "shutdown"}>>)

\* Both sides dial, close and dial again; the responder writes more than the
\* initiator reads; either side ends its session.
CrossingCalls == (i1 :> <<{"dial", "destroy"}, {"read", "deinit"}, {"dial"}>>)
              @@ (r1 :> <<{"accept"}, {"close", "write"},
                          {"dial", "write", "shutdown"}, {"write"}, {"write"}>>)

\* the dialing side reads, the accepting side writes
StreamCalls == (i1 :> Thrice({"dial", "read"})) @@ (r1 :> Thrice({"accept", "write"}))

\* a write of the initiator may fail, or a read of the responder
EitherFails == {<<"initiator", "write">>, <<"responder", "read">>}
InitiatorWrites == {<<"initiator", "write">>}

DlciSymmetry == Permutations(Dlcis)
=============================================================================
