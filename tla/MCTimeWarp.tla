----------------------------- MODULE MCTimeWarp -----------------------------
EXTENDS TimeWarpSerial, TimeWarpLife

MCRid == [lp \in LPs |-> IF lp = "b" THEN 2 ELSE 1]

Ev(d, t, ty) == [dest |-> d, t |-> t, ty |-> ty]

MCHandler(lp, st, ev) ==
  LET n == Len(st) IN
  CASE lp = "a" /\ ev.t = 0 -> <<Ev("a", 2, 1)>>
    [] lp = "b" /\ ev.t = 0 -> <<Ev("b", 1, 1)>>
    [] lp = "c" /\ ev.t = 0 -> <<>>
    [] lp = "b" /\ ev.t = 1 -> <<Ev("a", 1, 2), Ev("c", 1, 3), Ev("b", 3, 1)>>
    [] lp = "c" /\ ev.t = 1 -> <<Ev("b", 2, 2)>>
    [] lp = "a" /\ ev.t = 2 -> IF n = 1 THEN <<Ev("b", 2, 1)>> ELSE <<Ev("b", 3, n % InitTy)>>
    [] OTHER -> <<>>

\* It keeps to HandlerIsCausal, here for states of up to one event.
ASSUME MCHandlerIsCausal ==
  \A lp \in LPs, n \in 0 .. 1, ev \in Event : \A st \in [1 .. n -> Event] :
    \A i \in DOMAIN MCHandler(lp, st, ev) :
      LET o == MCHandler(lp, st, ev)[i]
      IN  o \in MsgRec /\ o.t >= ev.t /\ o.ty < InitTy /\ (ev # InitEvent => o.t > 0)

\* the LPs in a row, each with its slots
MCInitAddr ==
  LET size(lp) == Len(MCHandler(lp, <<>>, [t |-> 0, ty |-> InitTy])) + 1
      before(lp) == CASE lp = "a" -> 0
                      [] lp = "b" -> size("a")
                      [] lp = "c" -> size("a") + size("b")
  IN  [x \in UNION {{lp} \X (0 .. size(lp) - 1) : lp \in LPs} |->
         before(x[1]) + x[2] + 1]
=============================================================================
