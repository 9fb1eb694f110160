------------------------ MODULE SendPipelineProofs ------------------------
(***************************************************************************)
(* Until a flush makes a context for a session that nobody holds, every    *)
(* CRASH_ASSERT of the send path holds, a connection has one WSASend at a  *)
(* time, its replies leave in order and once, and a reply that was not     *)
(* sent is on some list; for any number of sessions, threads and packets.  *)
(*                                                                         *)
(* Base, which always holds, says what a thread may still have to do and   *)
(* that it holds the lock it posts under.  Good adds the references, the   *)
(* stage of an issue, the pool, and what is stored, in flight and listed.  *)
(* Good is preserved session by session: an action moves one thread and    *)
(* changes one session, and each part of GoodAt has lemmas that say when   *)
(* it stays.                                                               *)
(***************************************************************************)
EXTENDS SendPipeline, FiniteSetTheorems, FunctionTheorems, SequenceTheorems, TLAPS

-----------------------------------------------------------------------------
(* Sequences joined.                                                       *)
LEMMA Concat11 ==
  ASSUME NEW a, NEW b
  PROVE  <<a>> \o <<b>> = <<a, b>>
<1> DEFINE S == {a, b}
<1>1. /\ Len(<<a>> \o <<b>>) = 2 /\ <<a>> \o <<b>> \in Seq(S)
      /\ Len(<<a, b>>) = 2 /\ <<a, b>> \in Seq(S)
  OBVIOUS
<1>2. \A i \in 1 .. 2 : (<<a>> \o <<b>>)[i] = <<a, b>>[i]
  OBVIOUS
<1> HIDE DEF S
<1> QED
  BY <1>1, <1>2, SeqEqual

LEMMA Concat12 ==
  ASSUME NEW a, NEW b, NEW c
  PROVE  <<a>> \o <<b, c>> = <<a, b, c>>
<1> DEFINE S == {a, b, c}
<1>1. /\ Len(<<a>> \o <<b, c>>) = 3 /\ <<a>> \o <<b, c>> \in Seq(S)
      /\ Len(<<a, b, c>>) = 3 /\ <<a, b, c>> \in Seq(S)
  OBVIOUS
<1>2. \A i \in 1 .. 3 : (<<a>> \o <<b, c>>)[i] = <<a, b, c>>[i]
  OBVIOUS
<1> HIDE DEF S
<1> QED
  BY <1>1, <1>2, SeqEqual

LEMMA Concat13 ==
  ASSUME NEW a, NEW b, NEW c, NEW d
  PROVE  <<a>> \o <<b, c, d>> = <<a, b, c, d>>
<1> DEFINE S == {a, b, c, d}
<1>1. /\ Len(<<a>> \o <<b, c, d>>) = 4 /\ <<a>> \o <<b, c, d>> \in Seq(S)
      /\ Len(<<a, b, c, d>>) = 4 /\ <<a, b, c, d>> \in Seq(S)
  OBVIOUS
<1>2. \A i \in 1 .. 4 : (<<a>> \o <<b, c, d>>)[i] = <<a, b, c, d>>[i]
  OBVIOUS
<1> HIDE DEF S
<1> QED
  BY <1>1, <1>2, SeqEqual

LEMMA Concat15 ==
  ASSUME NEW a, NEW b, NEW c, NEW d, NEW e, NEW f
  PROVE  <<a>> \o <<b, c, d, e, f>> = <<a, b, c, d, e, f>>
<1> DEFINE S == {a, b, c, d, e, f}
<1>1. /\ Len(<<a>> \o <<b, c, d, e, f>>) = 6 /\ <<a>> \o <<b, c, d, e, f>> \in Seq(S)
      /\ Len(<<a, b, c, d, e, f>>) = 6 /\ <<a, b, c, d, e, f>> \in Seq(S)
  OBVIOUS
<1>2. \A i \in 1 .. 6 : (<<a>> \o <<b, c, d, e, f>>)[i] = <<a, b, c, d, e, f>>[i]
  OBVIOUS
<1> HIDE DEF S
<1> QED
  BY <1>1, <1>2, SeqEqual

LEMMA Concat22 ==
  ASSUME NEW a, NEW b, NEW c, NEW d
  PROVE  <<a, b>> \o <<c, d>> = <<a, b, c, d>>
<1> DEFINE S == {a, b, c, d}
<1>1. /\ Len(<<a, b>> \o <<c, d>>) = 4 /\ <<a, b>> \o <<c, d>> \in Seq(S)
      /\ Len(<<a, b, c, d>>) = 4 /\ <<a, b, c, d>> \in Seq(S)
  OBVIOUS
<1>2. \A i \in 1 .. 4 : (<<a, b>> \o <<c, d>>)[i] = <<a, b, c, d>>[i]
  OBVIOUS
<1> HIDE DEF S
<1> QED
  BY <1>1, <1>2, SeqEqual

LEMMA Concat31 ==
  ASSUME NEW a, NEW b, NEW c, NEW d
  PROVE  <<a, b, c>> \o <<d>> = <<a, b, c, d>>
<1> DEFINE S == {a, b, c, d}
<1>1. /\ Len(<<a, b, c>> \o <<d>>) = 4 /\ <<a, b, c>> \o <<d>> \in Seq(S)
      /\ Len(<<a, b, c, d>>) = 4 /\ <<a, b, c, d>> \in Seq(S)
  OBVIOUS
<1>2. \A i \in 1 .. 4 : (<<a, b, c>> \o <<d>>)[i] = <<a, b, c, d>>[i]
  OBVIOUS
<1> HIDE DEF S
<1> QED
  BY <1>1, <1>2, SeqEqual

LEMMA Concat33 ==
  ASSUME NEW a, NEW b, NEW c, NEW d, NEW e, NEW f
  PROVE  <<a, b, c>> \o <<d, e, f>> = <<a, b, c, d, e, f>>
<1> DEFINE S == {a, b, c, d, e, f}
<1>1. /\ Len(<<a, b, c>> \o <<d, e, f>>) = 6 /\ <<a, b, c>> \o <<d, e, f>> \in Seq(S)
      /\ Len(<<a, b, c, d, e, f>>) = 6 /\ <<a, b, c, d, e, f>> \in Seq(S)
  OBVIOUS
<1>2. \A i \in 1 .. 6 : (<<a, b, c>> \o <<d, e, f>>)[i] = <<a, b, c, d, e, f>>[i]
  OBVIOUS
<1> HIDE DEF S
<1> QED
  BY <1>1, <1>2, SeqEqual

-----------------------------------------------------------------------------
(* The stages of a thread: what todo can be.                               *)
Stages ==
  {"idle", "job", "accept", "last", "receive", "end", "sent", "sentEnd", "delete", "preRecv",
   "commit", "key", "keyFail", "keyDisc", "keyUnlock", "return", "reset", "bufReset", "flush",
   "flushDisc", "flushLocked", "post", "postFail", "postDisc", "postUnlock", "postReturn",
   "postReset", "postBufReset", "lastReturn", "lastReset", "lastBufReset", "keyReturn",
   "keyReset", "keyBufReset"}

Plan(g) ==
  CASE g = "idle" -> << >>
    [] g = "job" -> <<"sendJob">>
    [] g = "accept" -> <<"accept", "release", "sendJob">>
    [] g = "last" -> <<"release", "release", "sendJob">>
    [] g = "receive" -> <<"receive", "release", "sendJob">>
    [] g = "end" -> <<"disconnect", "release", "sendJob">>
    [] g = "sent" -> <<"sent", "release", "sendJob">>
    [] g = "sentEnd" -> <<"sent", "disconnect", "release", "sendJob">>
    [] g = "delete" -> <<"release", "sendJob">>
    [] g = "preRecv" -> <<"preRecv", "release", "sendJob">>
    [] g = "commit" -> <<"commit", "preRecv", "release", "sendJob">>
    [] g = "key" -> <<"wsaSend", "preRecv", "release", "sendJob">>
    [] g = "keyFail" -> <<"release", "disconnect", "unlock", "preRecv", "release", "sendJob">>
    [] g = "keyDisc" -> <<"disconnect", "unlock", "preRecv", "release", "sendJob">>
    [] g = "keyUnlock" -> <<"unlock", "preRecv", "release", "sendJob">>
    [] g = "return" -> <<"return", "sendJob">>
    [] g = "reset" -> <<"reset", "sendJob">>
    [] g = "bufReset" -> <<"bufferReset", "sendJob">>
    [] g = "flush" -> <<"flush", "sendJob">>
    [] g = "flushDisc" -> <<"disconnect", "sendJob">>
    [] g = "flushLocked" -> <<"flushLocked", "sendJob">>
    [] g = "post" -> <<"wsaSend", "sendJob">>
    [] g = "postFail" -> <<"release", "disconnect", "unlock", "sendJob">>
    [] g = "postDisc" -> <<"disconnect", "unlock", "sendJob">>
    [] g = "postUnlock" -> <<"unlock", "sendJob">>
    [] g = "postReturn" -> <<"return", "disconnect", "unlock", "sendJob">>
    [] g = "postReset" -> <<"reset", "disconnect", "unlock", "sendJob">>
    [] g = "postBufReset" -> <<"bufferReset", "disconnect", "unlock", "sendJob">>
    [] g = "lastReturn" -> <<"return", "release", "sendJob">>
    [] g = "lastReset" -> <<"reset", "release", "sendJob">>
    [] g = "lastBufReset" -> <<"bufferReset", "release", "sendJob">>
    [] g = "keyReturn" -> <<"return", "disconnect", "unlock", "preRecv", "release", "sendJob">>
    [] g = "keyReset" -> <<"reset", "disconnect", "unlock", "preRecv", "release", "sendJob">>
    [] g = "keyBufReset" ->
         <<"bufferReset", "disconnect", "unlock", "preRecv", "release", "sendJob">>

StageOf(calls) == CHOOSE g \in Stages : calls = Plan(g)
stage(t) == StageOf(todo[t])

Controlled == todo \in [IoThread -> {Plan(g) : g \in Stages}]

\* No two stages have the same calls to make.
LEMMA PlansDiffer ==
  ASSUME NEW g \in Stages, NEW h \in Stages, Plan(g) = Plan(h)
  PROVE  g = h
<1>1. CASE g = "idle"
  BY <1>1 DEF Stages, Plan
<1>2. CASE g = "job"
  BY <1>2, ZenonT(30) DEF Stages, Plan
<1>3. CASE g = "accept"
  BY <1>3, ZenonT(30) DEF Stages, Plan
<1>4. CASE g = "last"
  BY <1>4, ZenonT(30) DEF Stages, Plan
<1>5. CASE g = "receive"
  BY <1>5, ZenonT(30) DEF Stages, Plan
<1>6. CASE g = "end"
  BY <1>6, ZenonT(30) DEF Stages, Plan
<1>7. CASE g = "sent"
  BY <1>7, ZenonT(30) DEF Stages, Plan
<1>8. CASE g = "sentEnd"
  BY <1>8, ZenonT(30) DEF Stages, Plan
<1>9. CASE g = "delete"
  BY <1>9, ZenonT(30) DEF Stages, Plan
<1>10. CASE g = "preRecv"
  BY <1>10, ZenonT(30) DEF Stages, Plan
<1>11. CASE g = "commit"
  BY <1>11, ZenonT(30) DEF Stages, Plan
<1>12. CASE g = "key"
  BY <1>12, ZenonT(30) DEF Stages, Plan
<1>13. CASE g = "keyFail"
  BY <1>13, ZenonT(30) DEF Stages, Plan
<1>14. CASE g = "keyDisc"
  BY <1>14, ZenonT(30) DEF Stages, Plan
<1>15. CASE g = "keyUnlock"
  BY <1>15, ZenonT(30) DEF Stages, Plan
<1>16. CASE g = "return"
  BY <1>16, ZenonT(30) DEF Stages, Plan
<1>17. CASE g = "reset"
  BY <1>17, ZenonT(30) DEF Stages, Plan
<1>18. CASE g = "bufReset"
  BY <1>18, ZenonT(30) DEF Stages, Plan
<1>19. CASE g = "flush"
  BY <1>19, ZenonT(30) DEF Stages, Plan
<1>20. CASE g = "flushDisc"
  BY <1>20, ZenonT(30) DEF Stages, Plan
<1>21. CASE g = "flushLocked"
  BY <1>21, ZenonT(30) DEF Stages, Plan
<1>22. CASE g = "post"
  BY <1>22, ZenonT(30) DEF Stages, Plan
<1>23. CASE g = "postFail"
  BY <1>23, ZenonT(30) DEF Stages, Plan
<1>24. CASE g = "postDisc"
  BY <1>24, ZenonT(30) DEF Stages, Plan
<1>25. CASE g = "postUnlock"
  BY <1>25, ZenonT(30) DEF Stages, Plan
<1>26. CASE g = "postReturn"
  BY <1>26, ZenonT(30) DEF Stages, Plan
<1>27. CASE g = "postReset"
  BY <1>27, ZenonT(30) DEF Stages, Plan
<1>28. CASE g = "postBufReset"
  BY <1>28, ZenonT(30) DEF Stages, Plan
<1>29. CASE g = "lastReturn"
  BY <1>29, ZenonT(30) DEF Stages, Plan
<1>30. CASE g = "lastReset"
  BY <1>30, ZenonT(30) DEF Stages, Plan
<1>31. CASE g = "lastBufReset"
  BY <1>31, ZenonT(30) DEF Stages, Plan
<1>32. CASE g = "keyReturn"
  BY <1>32, ZenonT(30) DEF Stages, Plan
<1>33. CASE g = "keyReset"
  BY <1>33, ZenonT(30) DEF Stages, Plan
<1>34. CASE g = "keyBufReset"
  BY <1>34, ZenonT(30) DEF Stages, Plan
<1> QED
  BY <1>1, <1>2, <1>3, <1>4, <1>5, <1>6, <1>7, <1>8, <1>9, <1>10, <1>11, <1>12, <1>13, <1>14,
     <1>15, <1>16, <1>17, <1>18, <1>19, <1>20, <1>21, <1>22, <1>23, <1>24, <1>25, <1>26, <1>27,
     <1>28, <1>29, <1>30, <1>31, <1>32, <1>33, <1>34
  DEF Stages

\* The stage of a thread is read off the calls it has to make.
LEMMA StageOfPlan ==
  ASSUME NEW g \in Stages
  PROVE  StageOf(Plan(g)) = g
BY PlansDiffer DEF StageOf
\* A plan is a sequence of calls.
LEMMA PlanCalls ==
  ASSUME NEW g \in Stages
  PROVE  Plan(g) \in Seq(Call)
<1>1. CASE g = "idle"
  BY <1>1 DEF Plan, Call
<1>2. CASE g = "job"
  BY <1>2 DEF Plan, Call
<1>3. CASE g = "accept"
  BY <1>3 DEF Plan, Call
<1>4. CASE g = "last"
  BY <1>4 DEF Plan, Call
<1>5. CASE g = "receive"
  BY <1>5 DEF Plan, Call
<1>6. CASE g = "end"
  BY <1>6 DEF Plan, Call
<1>7. CASE g = "sent"
  BY <1>7 DEF Plan, Call
<1>8. CASE g = "sentEnd"
  BY <1>8 DEF Plan, Call
<1>9. CASE g = "delete"
  BY <1>9 DEF Plan, Call
<1>10. CASE g = "preRecv"
  BY <1>10 DEF Plan, Call
<1>11. CASE g = "commit"
  BY <1>11 DEF Plan, Call
<1>12. CASE g = "key"
  BY <1>12 DEF Plan, Call
<1>13. CASE g = "keyFail"
  BY <1>13 DEF Plan, Call
<1>14. CASE g = "keyDisc"
  BY <1>14 DEF Plan, Call
<1>15. CASE g = "keyUnlock"
  BY <1>15 DEF Plan, Call
<1>16. CASE g = "return"
  BY <1>16 DEF Plan, Call
<1>17. CASE g = "reset"
  BY <1>17 DEF Plan, Call
<1>18. CASE g = "bufReset"
  BY <1>18 DEF Plan, Call
<1>19. CASE g = "flush"
  BY <1>19 DEF Plan, Call
<1>20. CASE g = "flushDisc"
  BY <1>20 DEF Plan, Call
<1>21. CASE g = "flushLocked"
  BY <1>21 DEF Plan, Call
<1>22. CASE g = "post"
  BY <1>22 DEF Plan, Call
<1>23. CASE g = "postFail"
  BY <1>23 DEF Plan, Call
<1>24. CASE g = "postDisc"
  BY <1>24 DEF Plan, Call
<1>25. CASE g = "postUnlock"
  BY <1>25 DEF Plan, Call
<1>26. CASE g = "postReturn"
  BY <1>26 DEF Plan, Call
<1>27. CASE g = "postReset"
  BY <1>27 DEF Plan, Call
<1>28. CASE g = "postBufReset"
  BY <1>28 DEF Plan, Call
<1>29. CASE g = "lastReturn"
  BY <1>29 DEF Plan, Call
<1>30. CASE g = "lastReset"
  BY <1>30 DEF Plan, Call
<1>31. CASE g = "lastBufReset"
  BY <1>31 DEF Plan, Call
<1>32. CASE g = "keyReturn"
  BY <1>32 DEF Plan, Call
<1>33. CASE g = "keyReset"
  BY <1>33 DEF Plan, Call
<1>34. CASE g = "keyBufReset"
  BY <1>34 DEF Plan, Call
<1> QED
  BY <1>1, <1>2, <1>3, <1>4, <1>5, <1>6, <1>7, <1>8, <1>9, <1>10, <1>11, <1>12, <1>13, <1>14,
     <1>15, <1>16, <1>17, <1>18, <1>19, <1>20, <1>21, <1>22, <1>23, <1>24, <1>25, <1>26, <1>27,
     <1>28, <1>29, <1>30, <1>31, <1>32, <1>33, <1>34
  DEF Stages

\* The stages that begin with a call.
LEMMA Heads ==
  ASSUME NEW g \in Stages, Plan(g) # << >>
  PROVE 
    /\ Head(Plan(g)) = "sendJob" <=> g \in {"job"}
    /\ Head(Plan(g)) = "accept" <=> g \in {"accept"}
    /\ Head(Plan(g)) = "release" <=> g \in {"last", "delete", "keyFail", "postFail"}
    /\ Head(Plan(g)) = "receive" <=> g \in {"receive"}
    /\ Head(Plan(g)) = "disconnect" <=> g \in {"end", "keyDisc", "flushDisc", "postDisc"}
    /\ Head(Plan(g)) = "sent" <=> g \in {"sent", "sentEnd"}
    /\ Head(Plan(g)) = "preRecv" <=> g \in {"preRecv"}
    /\ Head(Plan(g)) = "commit" <=> g \in {"commit"}
    /\ Head(Plan(g)) = "wsaSend" <=> g \in {"key", "post"}
    /\ Head(Plan(g)) = "unlock" <=> g \in {"keyUnlock", "postUnlock"}
    /\ Head(Plan(g)) = "return" <=> g \in {"return", "postReturn", "lastReturn", "keyReturn"}
    /\ Head(Plan(g)) = "reset" <=> g \in {"reset", "postReset", "lastReset", "keyReset"}
    /\ Head(Plan(g)) = "bufferReset"
         <=> g \in {"bufReset", "postBufReset", "lastBufReset", "keyBufReset"}
    /\ Head(Plan(g)) = "flush" <=> g \in {"flush"}
    /\ Head(Plan(g)) = "flushLocked" <=> g \in {"flushLocked"}
<1>1. Head(Plan(g)) = "sendJob" <=> g \in {"job"}
  BY DEF Stages, Plan
<1>2. Head(Plan(g)) = "accept" <=> g \in {"accept"}
  BY DEF Stages, Plan
<1>3. Head(Plan(g)) = "release" <=> g \in {"last", "delete", "keyFail", "postFail"}
  BY DEF Stages, Plan
<1>4. Head(Plan(g)) = "receive" <=> g \in {"receive"}
  BY DEF Stages, Plan
<1>5. Head(Plan(g)) = "disconnect" <=> g \in {"end", "keyDisc", "flushDisc", "postDisc"}
  BY DEF Stages, Plan
<1>6. Head(Plan(g)) = "sent" <=> g \in {"sent", "sentEnd"}
  BY DEF Stages, Plan
<1>7. Head(Plan(g)) = "preRecv" <=> g \in {"preRecv"}
  BY DEF Stages, Plan
<1>8. Head(Plan(g)) = "commit" <=> g \in {"commit"}
  BY DEF Stages, Plan
<1>9. Head(Plan(g)) = "wsaSend" <=> g \in {"key", "post"}
  BY DEF Stages, Plan
<1>10. Head(Plan(g)) = "unlock" <=> g \in {"keyUnlock", "postUnlock"}
  BY DEF Stages, Plan
<1>11. Head(Plan(g)) = "return" <=> g \in {"return", "postReturn", "lastReturn", "keyReturn"}
  BY DEF Stages, Plan
<1>12. Head(Plan(g)) = "reset" <=> g \in {"reset", "postReset", "lastReset", "keyReset"}
  BY DEF Stages, Plan
<1>13. Head(Plan(g)) = "bufferReset"
         <=> g \in {"bufReset", "postBufReset", "lastBufReset", "keyBufReset"}
  BY DEF Stages, Plan
<1>14. Head(Plan(g)) = "flush" <=> g \in {"flush"}
  BY DEF Stages, Plan
<1>15. Head(Plan(g)) = "flushLocked" <=> g \in {"flushLocked"}
  BY DEF Stages, Plan
<1> QED
  BY <1>1, <1>2, <1>3, <1>4, <1>5, <1>6, <1>7, <1>8, <1>9, <1>10, <1>11, <1>12, <1>13, <1>14, <1>15

\* Only an idle thread has nothing to do.
LEMMA IdlePlan ==
  ASSUME NEW g \in Stages
  PROVE  Plan(g) = << >> <=> g = "idle"
BY DEF Stages, Plan

\* Thread t goes from stage g to stage h and no other moves.
Moves(t, g, h) ==
  /\ todo[t] = Plan(g) /\ todo' = [todo EXCEPT ![t] = Plan(h)]
  /\ stage(t) = g /\ stage(t)' = h
  /\ \A u \in IoThread \ {t} : stage(u)' = stage(u)

LEMMA StageType ==
  ASSUME NEW t \in IoThread, Controlled
  PROVE  stage(t) \in Stages /\ todo[t] = Plan(stage(t))
BY StageOfPlan DEF Controlled, stage

LEMMA MoveTo ==
  ASSUME NEW t \in IoThread, NEW g \in Stages, NEW h \in Stages, Controlled,
         todo[t] = Plan(g), todo' = [todo EXCEPT ![t] = Plan(h)]
  PROVE  Moves(t, g, h) /\ Controlled'
<1>1. stage(t) = g
  BY StageOfPlan DEF stage
<1>2. todo'[t] = Plan(h) /\ \A u \in IoThread \ {t} : todo'[u] = todo[u]
  BY DEF Controlled
<1>3. stage(t)' = h
  BY <1>2, StageOfPlan DEF stage
<1>4. \A u \in IoThread \ {t} : stage(u)' = stage(u)
  BY <1>2 DEF stage
<1>5. Controlled'
  BY <1>2 DEF Controlled
<1> QED
  BY <1>1, <1>3, <1>4, <1>5 DEF Moves

\* Where each call leads, given what it leads to (the steps of the handlers are below).
LEMMA MoveReturn ==
  ASSUME NEW t \in IoThread, Controlled, Do(t, "return", <<"reset">>)
  PROVE  /\ Controlled'
         /\ \/ Moves(t, "return", "reset")
            \/ Moves(t, "postReturn", "postReset")
            \/ Moves(t, "lastReturn", "lastReset")
            \/ Moves(t, "keyReturn", "keyReset")
<1>1. PICK g \in Stages : /\ todo[t] = Plan(g) /\ Plan(g) # << >> /\ Head(Plan(g)) = "return"
                           /\ todo' = [todo EXCEPT ![t] = <<"reset">> \o Tail(Plan(g))]
  BY StageType DEF Do
<1>2. g \in {"return", "postReturn", "lastReturn", "keyReturn"}
  BY <1>1, Heads
<1>3. CASE g = "return"
  <2>1. <<"reset">> \o Tail(Plan("return")) = Plan("reset")
    BY Concat11 DEF Plan
  <2> QED
    BY <1>1, <1>3, <2>1, MoveTo, ZenonT(30) DEF Stages
<1>4. CASE g = "postReturn"
  <2>1. <<"reset">> \o Tail(Plan("postReturn")) = Plan("postReset")
    BY Concat13 DEF Plan
  <2> QED
    BY <1>1, <1>4, <2>1, MoveTo, ZenonT(30) DEF Stages
<1>5. CASE g = "lastReturn"
  <2>1. <<"reset">> \o Tail(Plan("lastReturn")) = Plan("lastReset")
    BY Concat12 DEF Plan
  <2> QED
    BY <1>1, <1>5, <2>1, MoveTo, ZenonT(30) DEF Stages
<1>6. CASE g = "keyReturn"
  <2>1. <<"reset">> \o Tail(Plan("keyReturn")) = Plan("keyReset")
    BY Concat15 DEF Plan
  <2> QED
    BY <1>1, <1>6, <2>1, MoveTo, ZenonT(30) DEF Stages
<1> QED
  BY <1>2, <1>3, <1>4, <1>5, <1>6

LEMMA MoveReset ==
  ASSUME NEW t \in IoThread, Controlled, Do(t, "reset", <<"bufferReset">>)
  PROVE  /\ Controlled'
         /\ \/ Moves(t, "reset", "bufReset")
            \/ Moves(t, "postReset", "postBufReset")
            \/ Moves(t, "lastReset", "lastBufReset")
            \/ Moves(t, "keyReset", "keyBufReset")
<1>1. PICK g \in Stages : /\ todo[t] = Plan(g) /\ Plan(g) # << >> /\ Head(Plan(g)) = "reset"
                           /\ todo' = [todo EXCEPT ![t] = <<"bufferReset">> \o Tail(Plan(g))]
  BY StageType DEF Do
<1>2. g \in {"reset", "postReset", "lastReset", "keyReset"}
  BY <1>1, Heads
<1>3. CASE g = "reset"
  <2>1. <<"bufferReset">> \o Tail(Plan("reset")) = Plan("bufReset")
    BY Concat11 DEF Plan
  <2> QED
    BY <1>1, <1>3, <2>1, MoveTo, ZenonT(30) DEF Stages
<1>4. CASE g = "postReset"
  <2>1. <<"bufferReset">> \o Tail(Plan("postReset")) = Plan("postBufReset")
    BY Concat13 DEF Plan
  <2> QED
    BY <1>1, <1>4, <2>1, MoveTo, ZenonT(30) DEF Stages
<1>5. CASE g = "lastReset"
  <2>1. <<"bufferReset">> \o Tail(Plan("lastReset")) = Plan("lastBufReset")
    BY Concat12 DEF Plan
  <2> QED
    BY <1>1, <1>5, <2>1, MoveTo, ZenonT(30) DEF Stages
<1>6. CASE g = "keyReset"
  <2>1. <<"bufferReset">> \o Tail(Plan("keyReset")) = Plan("keyBufReset")
    BY Concat15 DEF Plan
  <2> QED
    BY <1>1, <1>6, <2>1, MoveTo, ZenonT(30) DEF Stages
<1> QED
  BY <1>2, <1>3, <1>4, <1>5, <1>6

LEMMA MoveBufferReset ==
  ASSUME NEW t \in IoThread, Controlled, Do(t, "bufferReset", << >>)
  PROVE  /\ Controlled'
         /\ \/ Moves(t, "bufReset", "job")
            \/ Moves(t, "postBufReset", "postDisc")
            \/ Moves(t, "lastBufReset", "delete")
            \/ Moves(t, "keyBufReset", "keyDisc")
<1>1. PICK g \in Stages : /\ todo[t] = Plan(g) /\ Plan(g) # << >> /\ Head(Plan(g)) = "bufferReset"
                           /\ todo' = [todo EXCEPT ![t] = << >> \o Tail(Plan(g))]
  BY StageType DEF Do
<1>2. g \in {"bufReset", "postBufReset", "lastBufReset", "keyBufReset"}
  BY <1>1, Heads
<1>3. CASE g = "bufReset"
  <2>1. << >> \o Tail(Plan("bufReset")) = Plan("job")
    BY DEF Plan
  <2> QED
    BY <1>1, <1>3, <2>1, MoveTo, ZenonT(30) DEF Stages
<1>4. CASE g = "postBufReset"
  <2>1. << >> \o Tail(Plan("postBufReset")) = Plan("postDisc")
    BY DEF Plan
  <2> QED
    BY <1>1, <1>4, <2>1, MoveTo, ZenonT(30) DEF Stages
<1>5. CASE g = "lastBufReset"
  <2>1. << >> \o Tail(Plan("lastBufReset")) = Plan("delete")
    BY DEF Plan
  <2> QED
    BY <1>1, <1>5, <2>1, MoveTo, ZenonT(30) DEF Stages
<1>6. CASE g = "keyBufReset"
  <2>1. << >> \o Tail(Plan("keyBufReset")) = Plan("keyDisc")
    BY DEF Plan
  <2> QED
    BY <1>1, <1>6, <2>1, MoveTo, ZenonT(30) DEF Stages
<1> QED
  BY <1>2, <1>3, <1>4, <1>5, <1>6

LEMMA MoveReleaseReturn ==
  ASSUME NEW t \in IoThread, Controlled, Do(t, "release", <<"return">>)
  PROVE  /\ Controlled'
         /\ \/ Moves(t, "last", "lastReturn")
            \/ Moves(t, "delete", "return")
            \/ Moves(t, "keyFail", "keyReturn")
            \/ Moves(t, "postFail", "postReturn")
<1>1. PICK g \in Stages : /\ todo[t] = Plan(g) /\ Plan(g) # << >> /\ Head(Plan(g)) = "release"
                           /\ todo' = [todo EXCEPT ![t] = <<"return">> \o Tail(Plan(g))]
  BY StageType DEF Do
<1>2. g \in {"last", "delete", "keyFail", "postFail"}
  BY <1>1, Heads
<1>3. CASE g = "last"
  <2>1. <<"return">> \o Tail(Plan("last")) = Plan("lastReturn")
    BY Concat12 DEF Plan
  <2> QED
    BY <1>1, <1>3, <2>1, MoveTo, ZenonT(30) DEF Stages
<1>4. CASE g = "delete"
  <2>1. <<"return">> \o Tail(Plan("delete")) = Plan("return")
    BY Concat11 DEF Plan
  <2> QED
    BY <1>1, <1>4, <2>1, MoveTo, ZenonT(30) DEF Stages
<1>5. CASE g = "keyFail"
  <2>1. <<"return">> \o Tail(Plan("keyFail")) = Plan("keyReturn")
    BY Concat15 DEF Plan
  <2> QED
    BY <1>1, <1>5, <2>1, MoveTo, ZenonT(30) DEF Stages
<1>6. CASE g = "postFail"
  <2>1. <<"return">> \o Tail(Plan("postFail")) = Plan("postReturn")
    BY Concat13 DEF Plan
  <2> QED
    BY <1>1, <1>6, <2>1, MoveTo, ZenonT(30) DEF Stages
<1> QED
  BY <1>2, <1>3, <1>4, <1>5, <1>6

LEMMA MoveRelease ==
  ASSUME NEW t \in IoThread, Controlled, Do(t, "release", << >>)
  PROVE  /\ Controlled'
         /\ \/ Moves(t, "last", "delete")
            \/ Moves(t, "delete", "job")
            \/ Moves(t, "keyFail", "keyDisc")
            \/ Moves(t, "postFail", "postDisc")
<1>1. PICK g \in Stages : /\ todo[t] = Plan(g) /\ Plan(g) # << >> /\ Head(Plan(g)) = "release"
                           /\ todo' = [todo EXCEPT ![t] = << >> \o Tail(Plan(g))]
  BY StageType DEF Do
<1>2. g \in {"last", "delete", "keyFail", "postFail"}
  BY <1>1, Heads
<1>3. CASE g = "last"
  <2>1. << >> \o Tail(Plan("last")) = Plan("delete")
    BY DEF Plan
  <2> QED
    BY <1>1, <1>3, <2>1, MoveTo, ZenonT(30) DEF Stages
<1>4. CASE g = "delete"
  <2>1. << >> \o Tail(Plan("delete")) = Plan("job")
    BY DEF Plan
  <2> QED
    BY <1>1, <1>4, <2>1, MoveTo, ZenonT(30) DEF Stages
<1>5. CASE g = "keyFail"
  <2>1. << >> \o Tail(Plan("keyFail")) = Plan("keyDisc")
    BY DEF Plan
  <2> QED
    BY <1>1, <1>5, <2>1, MoveTo, ZenonT(30) DEF Stages
<1>6. CASE g = "postFail"
  <2>1. << >> \o Tail(Plan("postFail")) = Plan("postDisc")
    BY DEF Plan
  <2> QED
    BY <1>1, <1>6, <2>1, MoveTo, ZenonT(30) DEF Stages
<1> QED
  BY <1>2, <1>3, <1>4, <1>5, <1>6

LEMMA MoveDisconnect ==
  ASSUME NEW t \in IoThread, Controlled, Do(t, "disconnect", << >>)
  PROVE  /\ Controlled'
         /\ \/ Moves(t, "end", "delete")
            \/ Moves(t, "keyDisc", "keyUnlock")
            \/ Moves(t, "flushDisc", "job")
            \/ Moves(t, "postDisc", "postUnlock")
<1>1. PICK g \in Stages : /\ todo[t] = Plan(g) /\ Plan(g) # << >> /\ Head(Plan(g)) = "disconnect"
                           /\ todo' = [todo EXCEPT ![t] = << >> \o Tail(Plan(g))]
  BY StageType DEF Do
<1>2. g \in {"end", "keyDisc", "flushDisc", "postDisc"}
  BY <1>1, Heads
<1>3. CASE g = "end"
  <2>1. << >> \o Tail(Plan("end")) = Plan("delete")
    BY DEF Plan
  <2> QED
    BY <1>1, <1>3, <2>1, MoveTo, ZenonT(30) DEF Stages
<1>4. CASE g = "keyDisc"
  <2>1. << >> \o Tail(Plan("keyDisc")) = Plan("keyUnlock")
    BY DEF Plan
  <2> QED
    BY <1>1, <1>4, <2>1, MoveTo, ZenonT(30) DEF Stages
<1>5. CASE g = "flushDisc"
  <2>1. << >> \o Tail(Plan("flushDisc")) = Plan("job")
    BY DEF Plan
  <2> QED
    BY <1>1, <1>5, <2>1, MoveTo, ZenonT(30) DEF Stages
<1>6. CASE g = "postDisc"
  <2>1. << >> \o Tail(Plan("postDisc")) = Plan("postUnlock")
    BY DEF Plan
  <2> QED
    BY <1>1, <1>6, <2>1, MoveTo, ZenonT(30) DEF Stages
<1> QED
  BY <1>2, <1>3, <1>4, <1>5, <1>6

LEMMA MoveAcceptDisconnect ==
  ASSUME NEW t \in IoThread, Controlled, Do(t, "accept", <<"disconnect">>)
  PROVE  /\ Controlled'
         /\ \/ Moves(t, "accept", "end")
<1>1. PICK g \in Stages : /\ todo[t] = Plan(g) /\ Plan(g) # << >> /\ Head(Plan(g)) = "accept"
                           /\ todo' = [todo EXCEPT ![t] = <<"disconnect">> \o Tail(Plan(g))]
  BY StageType DEF Do
<1>2. g \in {"accept"}
  BY <1>1, Heads
<1>3. CASE g = "accept"
  <2>1. <<"disconnect">> \o Tail(Plan("accept")) = Plan("end")
    BY Concat12 DEF Plan
  <2> QED
    BY <1>1, <1>3, <2>1, MoveTo, ZenonT(30) DEF Stages
<1> QED
  BY <1>2, <1>3

LEMMA MoveAccept ==
  ASSUME NEW t \in IoThread, Controlled, Do(t, "accept", << >>)
  PROVE  /\ Controlled'
         /\ \/ Moves(t, "accept", "delete")
<1>1. PICK g \in Stages : /\ todo[t] = Plan(g) /\ Plan(g) # << >> /\ Head(Plan(g)) = "accept"
                           /\ todo' = [todo EXCEPT ![t] = << >> \o Tail(Plan(g))]
  BY StageType DEF Do
<1>2. g \in {"accept"}
  BY <1>1, Heads
<1>3. CASE g = "accept"
  <2>1. << >> \o Tail(Plan("accept")) = Plan("delete")
    BY DEF Plan
  <2> QED
    BY <1>1, <1>3, <2>1, MoveTo, ZenonT(30) DEF Stages
<1> QED
  BY <1>2, <1>3

LEMMA MoveReceivePreRecv ==
  ASSUME NEW t \in IoThread, Controlled, Do(t, "receive", <<"preRecv">>)
  PROVE  /\ Controlled'
         /\ \/ Moves(t, "receive", "preRecv")
<1>1. PICK g \in Stages : /\ todo[t] = Plan(g) /\ Plan(g) # << >> /\ Head(Plan(g)) = "receive"
                           /\ todo' = [todo EXCEPT ![t] = <<"preRecv">> \o Tail(Plan(g))]
  BY StageType DEF Do
<1>2. g \in {"receive"}
  BY <1>1, Heads
<1>3. CASE g = "receive"
  <2>1. <<"preRecv">> \o Tail(Plan("receive")) = Plan("preRecv")
    BY Concat12 DEF Plan
  <2> QED
    BY <1>1, <1>3, <2>1, MoveTo, ZenonT(30) DEF Stages
<1> QED
  BY <1>2, <1>3

LEMMA MoveReceiveCommitPreRecv ==
  ASSUME NEW t \in IoThread, Controlled, Do(t, "receive", <<"commit", "preRecv">>)
  PROVE  /\ Controlled'
         /\ \/ Moves(t, "receive", "commit")
<1>1. PICK g \in Stages : /\ todo[t] = Plan(g) /\ Plan(g) # << >> /\ Head(Plan(g)) = "receive"
                           /\ todo' = [todo EXCEPT ![t] = <<"commit", "preRecv">> \o Tail(Plan(g))]
  BY StageType DEF Do
<1>2. g \in {"receive"}
  BY <1>1, Heads
<1>3. CASE g = "receive"
  <2>1. <<"commit", "preRecv">> \o Tail(Plan("receive")) = Plan("commit")
    BY Concat22 DEF Plan
  <2> QED
    BY <1>1, <1>3, <2>1, MoveTo, ZenonT(30) DEF Stages
<1> QED
  BY <1>2, <1>3

LEMMA MovePreRecv ==
  ASSUME NEW t \in IoThread, Controlled, Do(t, "preRecv", << >>)
  PROVE  /\ Controlled'
         /\ \/ Moves(t, "preRecv", "delete")
<1>1. PICK g \in Stages : /\ todo[t] = Plan(g) /\ Plan(g) # << >> /\ Head(Plan(g)) = "preRecv"
                           /\ todo' = [todo EXCEPT ![t] = << >> \o Tail(Plan(g))]
  BY StageType DEF Do
<1>2. g \in {"preRecv"}
  BY <1>1, Heads
<1>3. CASE g = "preRecv"
  <2>1. << >> \o Tail(Plan("preRecv")) = Plan("delete")
    BY DEF Plan
  <2> QED
    BY <1>1, <1>3, <2>1, MoveTo, ZenonT(30) DEF Stages
<1> QED
  BY <1>2, <1>3

LEMMA MovePreRecvDisconnect ==
  ASSUME NEW t \in IoThread, Controlled, Do(t, "preRecv", <<"disconnect">>)
  PROVE  /\ Controlled'
         /\ \/ Moves(t, "preRecv", "end")
<1>1. PICK g \in Stages : /\ todo[t] = Plan(g) /\ Plan(g) # << >> /\ Head(Plan(g)) = "preRecv"
                           /\ todo' = [todo EXCEPT ![t] = <<"disconnect">> \o Tail(Plan(g))]
  BY StageType DEF Do
<1>2. g \in {"preRecv"}
  BY <1>1, Heads
<1>3. CASE g = "preRecv"
  <2>1. <<"disconnect">> \o Tail(Plan("preRecv")) = Plan("end")
    BY Concat12 DEF Plan
  <2> QED
    BY <1>1, <1>3, <2>1, MoveTo, ZenonT(30) DEF Stages
<1> QED
  BY <1>2, <1>3

LEMMA MoveCommit ==
  ASSUME NEW t \in IoThread, Controlled, Do(t, "commit", << >>)
  PROVE  /\ Controlled'
         /\ \/ Moves(t, "commit", "preRecv")
<1>1. PICK g \in Stages : /\ todo[t] = Plan(g) /\ Plan(g) # << >> /\ Head(Plan(g)) = "commit"
                           /\ todo' = [todo EXCEPT ![t] = << >> \o Tail(Plan(g))]
  BY StageType DEF Do
<1>2. g \in {"commit"}
  BY <1>1, Heads
<1>3. CASE g = "commit"
  <2>1. << >> \o Tail(Plan("commit")) = Plan("preRecv")
    BY DEF Plan
  <2> QED
    BY <1>1, <1>3, <2>1, MoveTo, ZenonT(30) DEF Stages
<1> QED
  BY <1>2, <1>3

LEMMA MoveCommitWsaSend ==
  ASSUME NEW t \in IoThread, Controlled, Do(t, "commit", <<"wsaSend">>)
  PROVE  /\ Controlled'
         /\ \/ Moves(t, "commit", "key")
<1>1. PICK g \in Stages : /\ todo[t] = Plan(g) /\ Plan(g) # << >> /\ Head(Plan(g)) = "commit"
                           /\ todo' = [todo EXCEPT ![t] = <<"wsaSend">> \o Tail(Plan(g))]
  BY StageType DEF Do
<1>2. g \in {"commit"}
  BY <1>1, Heads
<1>3. CASE g = "commit"
  <2>1. <<"wsaSend">> \o Tail(Plan("commit")) = Plan("key")
    BY Concat13 DEF Plan
  <2> QED
    BY <1>1, <1>3, <2>1, MoveTo, ZenonT(30) DEF Stages
<1> QED
  BY <1>2, <1>3

LEMMA MoveSendJobFlushSendJob ==
  ASSUME NEW t \in IoThread, Controlled, Do(t, "sendJob", <<"flush", "sendJob">>)
  PROVE  /\ Controlled'
         /\ \/ Moves(t, "job", "flush")
<1>1. PICK g \in Stages : /\ todo[t] = Plan(g) /\ Plan(g) # << >> /\ Head(Plan(g)) = "sendJob"
                           /\ todo' = [todo EXCEPT ![t] = <<"flush", "sendJob">> \o Tail(Plan(g))]
  BY StageType DEF Do
<1>2. g \in {"job"}
  BY <1>1, Heads
<1>3. CASE g = "job"
  <2>1. <<"flush", "sendJob">> \o Tail(Plan("job")) = Plan("flush")
    BY DEF Plan
  <2> QED
    BY <1>1, <1>3, <2>1, MoveTo, ZenonT(30) DEF Stages
<1> QED
  BY <1>2, <1>3

LEMMA MoveSendJob ==
  ASSUME NEW t \in IoThread, Controlled, Do(t, "sendJob", << >>)
  PROVE  /\ Controlled'
         /\ \/ Moves(t, "job", "idle")
<1>1. PICK g \in Stages : /\ todo[t] = Plan(g) /\ Plan(g) # << >> /\ Head(Plan(g)) = "sendJob"
                           /\ todo' = [todo EXCEPT ![t] = << >> \o Tail(Plan(g))]
  BY StageType DEF Do
<1>2. g \in {"job"}
  BY <1>1, Heads
<1>3. CASE g = "job"
  <2>1. << >> \o Tail(Plan("job")) = Plan("idle")
    BY DEF Plan
  <2> QED
    BY <1>1, <1>3, <2>1, MoveTo, ZenonT(30) DEF Stages
<1> QED
  BY <1>2, <1>3

LEMMA MoveFlushDisconnect ==
  ASSUME NEW t \in IoThread, Controlled, Do(t, "flush", <<"disconnect">>)
  PROVE  /\ Controlled'
         /\ \/ Moves(t, "flush", "flushDisc")
<1>1. PICK g \in Stages : /\ todo[t] = Plan(g) /\ Plan(g) # << >> /\ Head(Plan(g)) = "flush"
                           /\ todo' = [todo EXCEPT ![t] = <<"disconnect">> \o Tail(Plan(g))]
  BY StageType DEF Do
<1>2. g \in {"flush"}
  BY <1>1, Heads
<1>3. CASE g = "flush"
  <2>1. <<"disconnect">> \o Tail(Plan("flush")) = Plan("flushDisc")
    BY Concat11 DEF Plan
  <2> QED
    BY <1>1, <1>3, <2>1, MoveTo, ZenonT(30) DEF Stages
<1> QED
  BY <1>2, <1>3

LEMMA MoveFlushFlushLocked ==
  ASSUME NEW t \in IoThread, Controlled, Do(t, "flush", <<"flushLocked">>)
  PROVE  /\ Controlled'
         /\ \/ Moves(t, "flush", "flushLocked")
<1>1. PICK g \in Stages : /\ todo[t] = Plan(g) /\ Plan(g) # << >> /\ Head(Plan(g)) = "flush"
                           /\ todo' = [todo EXCEPT ![t] = <<"flushLocked">> \o Tail(Plan(g))]
  BY StageType DEF Do
<1>2. g \in {"flush"}
  BY <1>1, Heads
<1>3. CASE g = "flush"
  <2>1. <<"flushLocked">> \o Tail(Plan("flush")) = Plan("flushLocked")
    BY Concat11 DEF Plan
  <2> QED
    BY <1>1, <1>3, <2>1, MoveTo, ZenonT(30) DEF Stages
<1> QED
  BY <1>2, <1>3

LEMMA MoveFlushLocked ==
  ASSUME NEW t \in IoThread, Controlled, Do(t, "flushLocked", << >>)
  PROVE  /\ Controlled'
         /\ \/ Moves(t, "flushLocked", "job")
<1>1. PICK g \in Stages : /\ todo[t] = Plan(g) /\ Plan(g) # << >> /\ Head(Plan(g)) = "flushLocked"
                           /\ todo' = [todo EXCEPT ![t] = << >> \o Tail(Plan(g))]
  BY StageType DEF Do
<1>2. g \in {"flushLocked"}
  BY <1>1, Heads
<1>3. CASE g = "flushLocked"
  <2>1. << >> \o Tail(Plan("flushLocked")) = Plan("job")
    BY DEF Plan
  <2> QED
    BY <1>1, <1>3, <2>1, MoveTo, ZenonT(30) DEF Stages
<1> QED
  BY <1>2, <1>3

LEMMA MoveFlushLockedWsaSend ==
  ASSUME NEW t \in IoThread, Controlled, Do(t, "flushLocked", <<"wsaSend">>)
  PROVE  /\ Controlled'
         /\ \/ Moves(t, "flushLocked", "post")
<1>1. PICK g \in Stages : /\ todo[t] = Plan(g) /\ Plan(g) # << >> /\ Head(Plan(g)) = "flushLocked"
                           /\ todo' = [todo EXCEPT ![t] = <<"wsaSend">> \o Tail(Plan(g))]
  BY StageType DEF Do
<1>2. g \in {"flushLocked"}
  BY <1>1, Heads
<1>3. CASE g = "flushLocked"
  <2>1. <<"wsaSend">> \o Tail(Plan("flushLocked")) = Plan("post")
    BY Concat11 DEF Plan
  <2> QED
    BY <1>1, <1>3, <2>1, MoveTo, ZenonT(30) DEF Stages
<1> QED
  BY <1>2, <1>3

LEMMA MoveWsaSend ==
  ASSUME NEW t \in IoThread, Controlled, Do(t, "wsaSend", << >>)
  PROVE  /\ Controlled'
         /\ \/ Moves(t, "key", "preRecv")
            \/ Moves(t, "post", "job")
<1>1. PICK g \in Stages : /\ todo[t] = Plan(g) /\ Plan(g) # << >> /\ Head(Plan(g)) = "wsaSend"
                           /\ todo' = [todo EXCEPT ![t] = << >> \o Tail(Plan(g))]
  BY StageType DEF Do
<1>2. g \in {"key", "post"}
  BY <1>1, Heads
<1>3. CASE g = "key"
  <2>1. << >> \o Tail(Plan("key")) = Plan("preRecv")
    BY DEF Plan
  <2> QED
    BY <1>1, <1>3, <2>1, MoveTo, ZenonT(30) DEF Stages
<1>4. CASE g = "post"
  <2>1. << >> \o Tail(Plan("post")) = Plan("job")
    BY DEF Plan
  <2> QED
    BY <1>1, <1>4, <2>1, MoveTo, ZenonT(30) DEF Stages
<1> QED
  BY <1>2, <1>3, <1>4

LEMMA MoveWsaSendReleaseDisconnectUnlock ==
  ASSUME NEW t \in IoThread, Controlled, Do(t, "wsaSend", <<"release", "disconnect", "unlock">>)
  PROVE  /\ Controlled'
         /\ \/ Moves(t, "key", "keyFail")
            \/ Moves(t, "post", "postFail")
<1>1. PICK g \in Stages : /\ todo[t] = Plan(g) /\ Plan(g) # << >> /\ Head(Plan(g)) = "wsaSend"
                           /\ todo' = [todo EXCEPT
                                ![t] = <<"release", "disconnect", "unlock">> \o Tail(Plan(g))]
  BY StageType DEF Do
<1>2. g \in {"key", "post"}
  BY <1>1, Heads
<1>3. CASE g = "key"
  <2>1. <<"release", "disconnect", "unlock">> \o Tail(Plan("key")) = Plan("keyFail")
    BY Concat33 DEF Plan
  <2> QED
    BY <1>1, <1>3, <2>1, MoveTo, ZenonT(30) DEF Stages
<1>4. CASE g = "post"
  <2>1. <<"release", "disconnect", "unlock">> \o Tail(Plan("post")) = Plan("postFail")
    BY Concat31 DEF Plan
  <2> QED
    BY <1>1, <1>4, <2>1, MoveTo, ZenonT(30) DEF Stages
<1> QED
  BY <1>2, <1>3, <1>4

LEMMA MoveUnlock ==
  ASSUME NEW t \in IoThread, Controlled, Do(t, "unlock", << >>)
  PROVE  /\ Controlled'
         /\ \/ Moves(t, "keyUnlock", "preRecv")
            \/ Moves(t, "postUnlock", "job")
<1>1. PICK g \in Stages : /\ todo[t] = Plan(g) /\ Plan(g) # << >> /\ Head(Plan(g)) = "unlock"
                           /\ todo' = [todo EXCEPT ![t] = << >> \o Tail(Plan(g))]
  BY StageType DEF Do
<1>2. g \in {"keyUnlock", "postUnlock"}
  BY <1>1, Heads
<1>3. CASE g = "keyUnlock"
  <2>1. << >> \o Tail(Plan("keyUnlock")) = Plan("preRecv")
    BY DEF Plan
  <2> QED
    BY <1>1, <1>3, <2>1, MoveTo, ZenonT(30) DEF Stages
<1>4. CASE g = "postUnlock"
  <2>1. << >> \o Tail(Plan("postUnlock")) = Plan("job")
    BY DEF Plan
  <2> QED
    BY <1>1, <1>4, <2>1, MoveTo, ZenonT(30) DEF Stages
<1> QED
  BY <1>2, <1>3, <1>4

LEMMA MoveSent ==
  ASSUME NEW t \in IoThread, Controlled, Do(t, "sent", << >>)
  PROVE  /\ Controlled'
         /\ \/ Moves(t, "sent", "delete")
            \/ Moves(t, "sentEnd", "end")
<1>1. PICK g \in Stages : /\ todo[t] = Plan(g) /\ Plan(g) # << >> /\ Head(Plan(g)) = "sent"
                           /\ todo' = [todo EXCEPT ![t] = << >> \o Tail(Plan(g))]
  BY StageType DEF Do
<1>2. g \in {"sent", "sentEnd"}
  BY <1>1, Heads
<1>3. CASE g = "sent"
  <2>1. << >> \o Tail(Plan("sent")) = Plan("delete")
    BY DEF Plan
  <2> QED
    BY <1>1, <1>3, <2>1, MoveTo, ZenonT(30) DEF Stages
<1>4. CASE g = "sentEnd"
  <2>1. << >> \o Tail(Plan("sentEnd")) = Plan("end")
    BY DEF Plan
  <2> QED
    BY <1>1, <1>4, <2>1, MoveTo, ZenonT(30) DEF Stages
<1> QED
  BY <1>2, <1>3, <1>4

\* What a thread takes from the port, and the timeout.
LEMMA HandleAccept ==
  ASSUME NEW t \in IoThread, NEW s, Controlled, Handle(t, s, <<"accept">>)
  PROVE  Controlled' /\ Moves(t, "idle", "accept")
<1>1. <<"accept">> \o <<"release", "sendJob">> = Plan("accept") /\ << >> = Plan("idle")
  BY Concat12 DEF Plan
<1> QED
  BY <1>1, MoveTo, ZenonT(30) DEF Handle, Stages

LEMMA HandleLast ==
  ASSUME NEW t \in IoThread, NEW s, Controlled, Handle(t, s, <<"release">>)
  PROVE  Controlled' /\ Moves(t, "idle", "last")
<1>1. <<"release">> \o <<"release", "sendJob">> = Plan("last") /\ << >> = Plan("idle")
  BY Concat12 DEF Plan
<1> QED
  BY <1>1, MoveTo, ZenonT(30) DEF Handle, Stages

LEMMA HandleReceive ==
  ASSUME NEW t \in IoThread, NEW s, Controlled, Handle(t, s, <<"receive">>)
  PROVE  Controlled' /\ Moves(t, "idle", "receive")
<1>1. <<"receive">> \o <<"release", "sendJob">> = Plan("receive") /\ << >> = Plan("idle")
  BY Concat12 DEF Plan
<1> QED
  BY <1>1, MoveTo, ZenonT(30) DEF Handle, Stages

LEMMA HandleEnd ==
  ASSUME NEW t \in IoThread, NEW s, Controlled, Handle(t, s, <<"disconnect">>)
  PROVE  Controlled' /\ Moves(t, "idle", "end")
<1>1. <<"disconnect">> \o <<"release", "sendJob">> = Plan("end") /\ << >> = Plan("idle")
  BY Concat12 DEF Plan
<1> QED
  BY <1>1, MoveTo, ZenonT(30) DEF Handle, Stages

LEMMA HandleSent ==
  ASSUME NEW t \in IoThread, NEW s, Controlled, Handle(t, s, <<"sent">>)
  PROVE  Controlled' /\ Moves(t, "idle", "sent")
<1>1. <<"sent">> \o <<"release", "sendJob">> = Plan("sent") /\ << >> = Plan("idle")
  BY Concat12 DEF Plan
<1> QED
  BY <1>1, MoveTo, ZenonT(30) DEF Handle, Stages

LEMMA HandleSentEnd ==
  ASSUME NEW t \in IoThread, NEW s, Controlled, Handle(t, s, <<"sent", "disconnect">>)
  PROVE  Controlled' /\ Moves(t, "idle", "sentEnd")
<1>1. <<"sent", "disconnect">> \o <<"release", "sendJob">> = Plan("sentEnd") /\ << >> = Plan("idle")
  BY Concat22 DEF Plan
<1> QED
  BY <1>1, MoveTo, ZenonT(30) DEF Handle, Stages

LEMMA MoveTimeOut ==
  ASSUME NEW t \in IoThread, Controlled, TimeOut(t)
  PROVE  Controlled' /\ Moves(t, "idle", "job")
<1>1. <<"sendJob">> = Plan("job") /\ << >> = Plan("idle")
  BY DEF Plan
<1> QED
  BY <1>1, MoveTo, ZenonT(30) DEF TimeOut, Stages
-----------------------------------------------------------------------------
(* What holds in every state.                                              *)
Locking == {"key", "keyFail", "keyDisc", "keyUnlock", "post", "postFail", "postDisc", "postUnlock",
            "postReturn", "postReset", "postBufReset", "keyReturn", "keyReset", "keyBufReset"}
Sending == {"key", "post"}
Sent == {"sent", "sentEnd"}
Resting == {"idle", "job"}

\* The threads at session s in a stage of G.
Threads(s, G) == {t \in IoThread : at[t] = s /\ stage(t) \in G}

LockInv ==
  \A t \in IoThread : stage(t) \in Locking => mSendBufferLock[at[t]] = t

LengthInv ==
  \A t \in IoThread :
    /\ stage(t) \in Sending => transferred[t] \in 1 .. Len(mSendBuffer[at[t]])
    /\ stage(t) \in Sent => transferred[t] >= 1

PendingInv ==
  \A s \in Session : Len(sends[s]) + Cardinality(Threads(s, Sent)) <= mSendPendingCount[s]

Base == TypeOK /\ Controlled /\ LockInv /\ LengthInv /\ PendingInv

\* Thread t goes from stage g to stage h and works on s from now on.
Steps(t, s, g, h) ==
  /\ Moves(t, g, h)
  /\ at' = [at EXCEPT ![t] = s]
  /\ at[t] = s \/ g \in Resting

\* A thread that stays at its session, or rests, steps at one session.
LEMMA StayingSteps ==
  ASSUME NEW t \in IoThread, NEW g, NEW h, at \in [IoThread -> Session], Moves(t, g, h), at' = at
  PROVE  Steps(t, at[t], g, h)
BY DEF Steps

\* Which threads are in G after a step of t.
LEMMA ThreadsStep ==
  ASSUME NEW t \in IoThread, NEW s, NEW g, NEW h, NEW G, at \in [IoThread -> Session],
         Steps(t, s, g, h), G \cap Resting = {}
  PROVE  /\ \A u \in IoThread : u \in Threads(s, G)' <=>
                                    (u # t /\ u \in Threads(s, G)) \/ (u = t /\ h \in G)
         /\ t \in Threads(s, G) <=> g \in G
         /\ \A r : r # s => Threads(r, G)' = Threads(r, G)
<1>1. \A u \in IoThread \ {t} : at'[u] = at[u] /\ stage(u)' = stage(u)
  BY DEF Steps, Moves
<1>2. at'[t] = s /\ stage(t)' = h /\ stage(t) = g
  BY DEF Steps, Moves
<1>3. g \in G => at[t] = s
  BY DEF Steps
<1>4. \A u \in IoThread : u \in Threads(s, G)' <=> at'[u] = s /\ stage(u)' \in G
  BY DEF Threads
<1>5. \A r : r # s => Threads(r, G)' = Threads(r, G)
  <2> SUFFICES ASSUME NEW r, r # s PROVE Threads(r, G)' = Threads(r, G)
    OBVIOUS
  <2>1. \A u \in IoThread : at'[u] = r /\ stage(u)' \in G <=> at[u] = r /\ stage(u) \in G
    BY <1>1, <1>2, <1>3
  <2> QED
    BY <2>1 DEF Threads
<1>6. t \in Threads(s, G) <=> g \in G
  BY <1>2, <1>3 DEF Threads
<1>7. \A u \in IoThread \ {t} : u \in Threads(s, G)' <=> u \in Threads(s, G)
  BY <1>1, <1>4 DEF Threads
<1>8. t \in Threads(s, G)' <=> h \in G
  BY <1>2, <1>4
<1> QED
  BY <1>5, <1>6, <1>7, <1>8

\* A step at s is not seen at another session.
LEMMA OtherThreads ==
  ASSUME NEW t \in IoThread, NEW s, NEW g, NEW h, NEW G, at \in [IoThread -> Session],
         Steps(t, s, g, h), G \cap Resting = {}, NEW r, r # s
  PROVE  Threads(r, G)' = Threads(r, G)
BY ThreadsStep, SMTT(30)

\* The threads in G can be counted.
LEMMA ThreadsFinite ==
  ASSUME NEW s, NEW G
  PROVE  IsFiniteSet(Threads(s, G)) /\ Cardinality(Threads(s, G)) \in Nat
<1>1. Threads(s, G) \subseteq IoThread
  BY DEF Threads
<1> QED
  BY <1>1, ThreadAssumption, FS_Subset, FS_CardinalityType

\* How the number of threads in G changes.
LEMMA ThreadsCount ==
  ASSUME NEW t \in IoThread, NEW s, NEW g, NEW h, NEW G, at \in [IoThread -> Session],
         Steps(t, s, g, h), G \cap Resting = {}
  PROVE  /\ (g \in G <=> h \in G) => Threads(s, G)' = Threads(s, G)
         /\ g \in G /\ h \notin G =>
              /\ Cardinality(Threads(s, G)') = Cardinality(Threads(s, G)) - 1
              /\ Cardinality(Threads(s, G)) > 0
         /\ g \notin G /\ h \in G =>
              Cardinality(Threads(s, G)') = Cardinality(Threads(s, G)) + 1
         /\ Cardinality(Threads(s, G)') \in Nat
<1> DEFINE A == Threads(s, G)
           B == Threads(s, G)'
<1>1. /\ \A u \in IoThread : u \in B <=> (u # t /\ u \in A) \/ (u = t /\ h \in G)
      /\ t \in A <=> g \in G
  <2>1. /\ \A u \in IoThread : u \in Threads(s, G)' <=>
                                    (u # t /\ u \in Threads(s, G)) \/ (u = t /\ h \in G)
        /\ t \in Threads(s, G) <=> g \in G
    BY ThreadsStep
  <2> QED
    BY <2>1
<1>2. A \subseteq IoThread /\ B \subseteq IoThread
  BY DEF Threads
<1>3. IsFiniteSet(A) /\ Cardinality(A) \in Nat
  BY ThreadsFinite
<1>4. IsFiniteSet(B) /\ Cardinality(B) \in Nat
  BY <1>2, ThreadAssumption, FS_Subset, FS_CardinalityType
<1> HIDE DEF A, B
<1>5. (g \in G <=> h \in G) => B = A
  BY <1>1, <1>2
<1>6. ASSUME g \in G, h \notin G PROVE Cardinality(B) = Cardinality(A) - 1 /\ Cardinality(A) > 0
  <2>1. B = A \ {t} /\ t \in A
    BY <1>1, <1>2, <1>6
  <2>2. Cardinality(B) = Cardinality(A) - 1
    BY <1>3, <2>1, FS_RemoveElement
  <2> QED
    BY <2>2, <1>3, <1>4
<1>7. ASSUME g \notin G, h \in G PROVE Cardinality(B) = Cardinality(A) + 1
  <2>1. B = A \cup {t} /\ t \notin A
    BY <1>1, <1>2, <1>7
  <2> QED
    BY <1>3, <2>1, FS_AddElement
<1> QED
  BY <1>4, <1>5, <1>6, <1>7 DEF A, B

\* A step within G, or outside it, changes nothing.
LEMMA SameThreads ==
  ASSUME NEW t \in IoThread, NEW s, NEW g, NEW h, NEW G, at \in [IoThread -> Session],
         Steps(t, s, g, h), G \cap Resting = {}, g \in G <=> h \in G, NEW r
  PROVE  Threads(r, G)' = Threads(r, G)
<1>1. CASE r = s
  BY <1>1, ThreadsCount
<1>2. CASE r # s
  BY <1>2, OtherThreads
<1> QED
  BY <1>1, <1>2

\* Cardinalities when one element goes or comes.
LEMMA OneLess ==
  ASSUME NEW t \in IoThread, NEW s, NEW g, NEW h, NEW G, at \in [IoThread -> Session],
         Steps(t, s, g, h), G \cap Resting = {}, g \in G, h \notin G
  PROVE  /\ Cardinality(Threads(s, G)') = Cardinality(Threads(s, G)) - 1
         /\ Cardinality(Threads(s, G)) > 0
BY ThreadsCount

LEMMA OneMore ==
  ASSUME NEW t \in IoThread, NEW s, NEW g, NEW h, NEW G, at \in [IoThread -> Session],
         Steps(t, s, g, h), G \cap Resting = {}, g \notin G, h \in G
  PROVE  Cardinality(Threads(s, G)') = Cardinality(Threads(s, G)) + 1
BY ThreadsCount

\* A piece of a sequence.
LEMMA Pieces ==
  ASSUME NEW S, NEW q \in Seq(S), NEW m \in Nat \ {0}, NEW n \in Nat, n <= Len(q)
  PROVE  /\ SubSeq(q, m, n) \in Seq(S)
         /\ Len(SubSeq(q, m, n)) = IF m <= n THEN n - m + 1 ELSE 0
         /\ \A i \in 1 .. n - m + 1 : SubSeq(q, m, n)[i] = q[m + i - 1]
<1>1. m \in Int /\ n \in Int /\ \A i \in m .. n : q[i] \in S
  OBVIOUS
<1> QED
  BY <1>1, SubSeqProperties, SMTT(20)

LEMMA ControlledType == Controlled => todo \in [IoThread -> Seq(Call)]
BY PlanCalls DEF Controlled

LEMMA ControlledTypeStep == Controlled' => todo' \in [IoThread -> Seq(Call)]
BY PlanCalls DEF Controlled

\* When the three parts of Base besides the types are kept.
LEMMA LockKept ==
  ASSUME NEW t \in IoThread, NEW s, NEW g, NEW h, at \in [IoThread -> Session],
         Steps(t, s, g, h), LockInv, mSendBufferLock' = mSendBufferLock,
         h \in Locking => g \in Locking
  PROVE  LockInv'
<1>1. /\ at'[t] = s /\ stage(t)' = h /\ stage(t) = g
      /\ \A u \in IoThread \ {t} : at'[u] = at[u] /\ stage(u)' = stage(u)
  BY DEF Steps, Moves
<1>2. g \in Locking => at[t] = s
  BY DEF Steps, Resting, Locking
<1> QED
  BY <1>1, <1>2 DEF LockInv

LEMMA LengthKept ==
  ASSUME NEW t \in IoThread, NEW s, NEW g, NEW h, at \in [IoThread -> Session],
         Steps(t, s, g, h), LengthInv, mSendBuffer' = mSendBuffer, transferred' = transferred,
         h \notin Sending, h \notin Sent
  PROVE  LengthInv'
<1>1. /\ stage(t)' = h
      /\ \A u \in IoThread \ {t} : at'[u] = at[u] /\ stage(u)' = stage(u)
  BY DEF Steps, Moves
<1> QED
  BY <1>1 DEF LengthInv

LEMMA PendingKept ==
  ASSUME NEW t \in IoThread, NEW s, NEW g, NEW h, at \in [IoThread -> Session],
         Steps(t, s, g, h), PendingInv, sends' = sends, mSendPendingCount' = mSendPendingCount,
         h \notin Sent, g \notin Sent
  PROVE  PendingInv'
<1>1. Sent \cap Resting = {}
  BY DEF Sent, Resting
<1>2. \A r \in Session : Threads(r, Sent)' = Threads(r, Sent)
  BY <1>1, ThreadsCount, ThreadsStep
<1> QED
  BY <1>2 DEF PendingInv

\* A step that neither takes the lock, nor touches the buffer, nor sends.
Plain(t, g, h) ==
  /\ \E s \in Session : Steps(t, s, g, h)
  /\ UNCHANGED <<mSendBufferLock, mSendBuffer, transferred, sends, mSendPendingCount>>
  /\ h \in Locking => g \in Locking
  /\ g \notin Sent /\ h \notin Sending \cup Sent

\* A plain step keeps Base.
LEMMA PlainKeeps ==
  ASSUME Base, NEW t \in IoThread, NEW g, NEW h, Plain(t, g, h), TypeOK', Controlled'
  PROVE  Base'
<1>1. at \in [IoThread -> Session]
  BY DEF Base, TypeOK
<1>2. PICK s \in Session : Steps(t, s, g, h)
  BY DEF Plain
<1>3. LockInv'
  BY <1>1, <1>2, LockKept DEF Plain, Base
<1>4. LengthInv'
  BY <1>1, <1>2, LengthKept DEF Plain, Base
<1>5. PendingInv'
  BY <1>1, <1>2, PendingKept DEF Plain, Base
<1> QED
  BY <1>3, <1>4, <1>5 DEF Base

\* From which stage to which each action takes its thread.
LEMMA ReturnSteps ==
  ASSUME TypeOK, Controlled, NEW t \in IoThread, ReturnClientSession(t)
  PROVE  /\ Controlled' /\ at[t] \in Session
         /\ \E g, h : /\ <<g, h>> \in {<<"return", "reset">>,
                                         <<"postReturn", "postReset">>,
                                         <<"lastReturn", "lastReset">>,
                                         <<"keyReturn", "keyReset">>}
                      /\ Steps(t, at[t], g, h)
<1>1. at[t] \in Session /\ at \in [IoThread -> Session]
  BY DEF TypeOK
<1> QED
  BY <1>1, StayingSteps, MoveReturn DEF ReturnClientSession

LEMMA ResetSteps ==
  ASSUME TypeOK, Controlled, NEW t \in IoThread, SessionReset(t)
  PROVE  /\ Controlled' /\ at[t] \in Session
         /\ \E g, h : /\ <<g, h>> \in {<<"reset", "bufReset">>,
                                         <<"postReset", "postBufReset">>,
                                         <<"lastReset", "lastBufReset">>,
                                         <<"keyReset", "keyBufReset">>}
                      /\ Steps(t, at[t], g, h)
<1>1. at[t] \in Session /\ at \in [IoThread -> Session]
  BY DEF TypeOK
<1> QED
  BY <1>1, StayingSteps, MoveReset DEF SessionReset

LEMMA BufferResetSteps ==
  ASSUME TypeOK, Controlled, NEW t \in IoThread, SendBufferReset(t)
  PROVE  /\ Controlled' /\ at[t] \in Session
         /\ \E g, h : /\ <<g, h>> \in {<<"bufReset", "job">>,
                                         <<"postBufReset", "postDisc">>,
                                         <<"lastBufReset", "delete">>,
                                         <<"keyBufReset", "keyDisc">>}
                      /\ Steps(t, at[t], g, h)
<1>1. at[t] \in Session /\ at \in [IoThread -> Session]
  BY DEF TypeOK
<1> QED
  BY <1>1, StayingSteps, MoveBufferReset DEF SendBufferReset

LEMMA DisconnectSteps ==
  ASSUME TypeOK, Controlled, NEW t \in IoThread, DisconnectRequest(t)
  PROVE  /\ Controlled' /\ at[t] \in Session
         /\ \E g, h : /\ <<g, h>> \in {<<"end", "delete">>, <<"keyDisc", "keyUnlock">>,
                                         <<"flushDisc", "job">>,
                                         <<"postDisc", "postUnlock">>}
                      /\ Steps(t, at[t], g, h)
<1>1. at[t] \in Session /\ at \in [IoThread -> Session]
  BY DEF TypeOK
<1> QED
  BY <1>1, StayingSteps, MoveDisconnect DEF DisconnectRequest

LEMMA UnlockSteps ==
  ASSUME TypeOK, Controlled, NEW t \in IoThread, Unlock(t)
  PROVE  /\ Controlled' /\ at[t] \in Session
         /\ \E g, h : /\ <<g, h>> \in {<<"keyUnlock", "preRecv">>, <<"postUnlock", "job">>}
                      /\ Steps(t, at[t], g, h)
<1>1. at[t] \in Session /\ at \in [IoThread -> Session]
  BY DEF TypeOK
<1> QED
  BY <1>1, StayingSteps, MoveUnlock DEF Unlock

LEMMA CompletionSteps ==
  ASSUME TypeOK, Controlled, NEW t \in IoThread, SendCompletion(t)
  PROVE  /\ Controlled' /\ at[t] \in Session
         /\ \E g, h : /\ <<g, h>> \in {<<"sent", "delete">>, <<"sentEnd", "end">>}
                      /\ Steps(t, at[t], g, h)
<1>1. at[t] \in Session /\ at \in [IoThread -> Session]
  BY DEF TypeOK
<1> QED
  BY <1>1, StayingSteps, MoveSent DEF SendCompletion

LEMMA ReleaseSteps ==
  ASSUME TypeOK, Controlled, NEW t \in IoThread, ReleaseRef(t)
  PROVE  /\ Controlled' /\ at[t] \in Session
         /\ \/ (\E g, h : <<g, h>> \in {<<"last", "lastReturn">>, <<"delete", "return">>,
                                         <<"keyFail", "keyReturn">>,
                                         <<"postFail", "postReturn">>} /\ Steps(t, at[t], g, h))
               /\ mRefCount[at[t]] = 1
            \/ (\E g, h : <<g, h>> \in {<<"last", "delete">>, <<"delete", "job">>,
                                         <<"keyFail", "keyDisc">>,
                                         <<"postFail", "postDisc">>} /\ Steps(t, at[t], g, h))
               /\ mRefCount[at[t]] # 1
<1>1. at[t] \in Session /\ at \in [IoThread -> Session]
  BY DEF TypeOK
<1> QED
  BY <1>1, StayingSteps, MoveRelease, MoveReleaseReturn DEF ReleaseRef

LEMMA AcceptSteps ==
  ASSUME TypeOK, Controlled, NEW t \in IoThread, AcceptCompletion(t)
  PROVE  /\ Controlled' /\ at[t] \in Session
         /\ \/ Steps(t, at[t], "accept", "end")
               /\ UNCHANGED <<mRefCount, posted>>
            \/ Steps(t, at[t], "accept", "delete")
               /\ UNCHANGED <<mRefCount, posted>>
            \/ Steps(t, at[t], "accept", "delete")
               /\ AddRef(at[t])
               /\ posted' = [posted EXCEPT ![at[t]] = @ \cup {"receive"}]
<1>1. at[t] \in Session /\ at \in [IoThread -> Session]
  BY DEF TypeOK
<1> QED
  BY <1>1, StayingSteps, MoveAccept, MoveAcceptDisconnect DEF AcceptCompletion

LEMMA ReceiveSteps ==
  ASSUME TypeOK, Controlled, NEW t \in IoThread, RecvCompletion(t)
  PROVE  /\ Controlled' /\ at[t] \in Session
         /\ \/ Steps(t, at[t], "receive", "preRecv")
            \/ Steps(t, at[t], "receive", "commit")
               /\ mConnected[at[t]] = 1
               /\ received[at[t]] < MaxRequest
               /\ received' = [received EXCEPT ![at[t]] = @ + 1]
<1>1. at[t] \in Session /\ at \in [IoThread -> Session]
  BY DEF TypeOK
<1> QED
  BY <1>1, StayingSteps, MoveReceivePreRecv, MoveReceiveCommitPreRecv DEF RecvCompletion

LEMMA PreRecvSteps ==
  ASSUME TypeOK, Controlled, NEW t \in IoThread, PreRecv(t)
  PROVE  /\ Controlled' /\ at[t] \in Session
         /\ \/ Steps(t, at[t], "preRecv", "delete")
               /\ mConnected[at[t]] = 1
               /\ AddRef(at[t])
               /\ posted' = [posted EXCEPT ![at[t]] = @ \cup {"receive"}]
            \/ Steps(t, at[t], "preRecv", "end")
               /\ UNCHANGED <<mRefCount, posted>>
<1>1. at[t] \in Session /\ at \in [IoThread -> Session]
  BY DEF TypeOK
<1> QED
  BY <1>1, StayingSteps, MovePreRecv, MovePreRecvDisconnect DEF PreRecv
LEMMA FlushSteps ==
  ASSUME TypeOK, Controlled, NEW t \in IoThread, FlushSend(t)
  PROVE  /\ Controlled' /\ at[t] \in Session
         /\ \/ Steps(t, at[t], "flush", "flushDisc") /\ mConnected[at[t]] = 0
            \/ Steps(t, at[t], "flush", "flushLocked") /\ mConnected[at[t]] = 1
<1>1. at[t] \in Session /\ at \in [IoThread -> Session] /\ mConnected[at[t]] \in 0 .. 1 /\ at' = at
  BY DEF TypeOK, FlushSend
<1>2. CASE mConnected[at[t]] = 0
  <2>1. Do(t, "flush", <<"disconnect">>)
    BY <1>2 DEF FlushSend
  <2> QED
    BY <1>1, <1>2, <2>1, StayingSteps, MoveFlushDisconnect
<1>3. CASE mConnected[at[t]] = 1
  <2>1. Do(t, "flush", <<"flushLocked">>)
    BY <1>3 DEF FlushSend
  <2> QED
    BY <1>1, <1>3, <2>1, StayingSteps, MoveFlushFlushLocked
<1> QED
  BY <1>1, <1>2, <1>3

LEMMA TimeOutSteps ==
  ASSUME TypeOK, Controlled, NEW t \in IoThread, TimeOut(t)
  PROVE  Controlled' /\ at[t] \in Session /\ Steps(t, at[t], "idle", "job")
<1>1. at[t] \in Session /\ at \in [IoThread -> Session]
  BY DEF TypeOK
<1> QED
  BY <1>1, StayingSteps, MoveTimeOut DEF TimeOut

LEMMA SendJobSteps ==
  ASSUME TypeOK, Controlled, NEW t \in IoThread, DoSendJob(t)
  PROVE  /\ Controlled'
         /\ \/ /\ LSendRequestSessionList[t] # << >>
               /\ Head(LSendRequestSessionList[t]) \in Session
               /\ Steps(t, Head(LSendRequestSessionList[t]), "job", "flush")
               /\ LSendRequestSessionList' = [LSendRequestSessionList EXCEPT ![t] = Tail(@)]
               /\ UNCHANGED LSendRequestFailedSessionList
            \/ /\ LSendRequestSessionList[t] = << >>
               /\ at[t] \in Session /\ Steps(t, at[t], "job", "idle")
               /\ LSendRequestSessionList' =
                    [LSendRequestSessionList EXCEPT ![t] = LSendRequestFailedSessionList[t]]
               /\ LSendRequestFailedSessionList' =
                    [LSendRequestFailedSessionList EXCEPT ![t] = << >>]
<1>1. /\ at[t] \in Session /\ at \in [IoThread -> Session]
      /\ LSendRequestSessionList[t] \in Seq(Session)
  BY DEF TypeOK
<1>2. CASE LSendRequestSessionList[t] # << >>
  <2>1. Head(LSendRequestSessionList[t]) \in Session
    BY <1>1, <1>2
  <2>2. Controlled' /\ Moves(t, "job", "flush")
    BY <1>2, MoveSendJobFlushSendJob DEF DoSendJob
  <2>3. Steps(t, Head(LSendRequestSessionList[t]), "job", "flush")
    BY <1>2, <2>2 DEF Steps, Resting, DoSendJob
  <2> QED
    BY <1>2, <2>1, <2>2, <2>3 DEF DoSendJob
<1>3. CASE LSendRequestSessionList[t] = << >>
  <2>1. Controlled' /\ Moves(t, "job", "idle")
    BY <1>3, MoveSendJob DEF DoSendJob
  <2> QED
    BY <1>1, <1>3, <2>1, StayingSteps DEF DoSendJob
<1> QED
  BY <1>2, <1>3

LEMMA RequestSteps ==
  ASSUME TypeOK, Controlled, NEW t \in IoThread, SendRequest(t)
  PROVE  /\ Controlled' /\ at[t] \in Session /\ mSendBufferLock[at[t]] = NoThread
         /\ \/ /\ Steps(t, at[t], "commit", "preRecv")
               /\ UNCHANGED <<mSendBuffer, mSendBufferLock, mRefCount, transferred,
                              LSendRequestSessionList>>
            \/ /\ received[at[t]] = 1
               /\ Steps(t, at[t], "commit", "key")
               /\ mSendBuffer' = [mSendBuffer EXCEPT ![at[t]] = Append(@, received[at[t]])]
               /\ NewSendContext(t, mSendBuffer'[at[t]])
               /\ UNCHANGED LSendRequestSessionList
            \/ /\ received[at[t]] > 1
               /\ Steps(t, at[t], "commit", "preRecv")
               /\ mSendBuffer' = [mSendBuffer EXCEPT ![at[t]] = Append(@, received[at[t]])]
               /\ LSendRequestSessionList' =
                    [LSendRequestSessionList EXCEPT ![t] = Append(@, at[t])]
               /\ UNCHANGED <<mSendBufferLock, mRefCount, transferred>>
<1>1. at[t] \in Session /\ at \in [IoThread -> Session] /\ at' = at
  BY DEF TypeOK, SendRequest
<1>2. mSendBuffer' = [mSendBuffer EXCEPT ![at[t]] = Append(@, received[at[t]])] =>
        mSendBuffer'[at[t]] = Append(mSendBuffer[at[t]], received[at[t]])
  BY <1>1 DEF TypeOK
<1> QED
  BY <1>1, <1>2, StayingSteps, MoveCommit, MoveCommitWsaSend DEF SendRequest

LEMMA StoredSteps ==
  ASSUME TypeOK, Controlled, NEW t \in IoThread, FlushStored(t)
  PROVE  /\ Controlled' /\ at[t] \in Session /\ mSendBufferLock[at[t]] = NoThread
         /\ \/ /\ mSendPendingCount[at[t]] > 0
               /\ Steps(t, at[t], "flushLocked", "job")
               /\ LSendRequestFailedSessionList' =
                    [LSendRequestFailedSessionList EXCEPT ![t] = Append(@, at[t])]
               /\ UNCHANGED <<mRefCount, mSendBufferLock, transferred, strayed>>
            \/ /\ mSendPendingCount[at[t]] = 0 /\ mSendBuffer[at[t]] = << >>
               /\ Steps(t, at[t], "flushLocked", "job")
               /\ UNCHANGED <<mRefCount, mSendBufferLock, transferred, strayed,
                              LSendRequestFailedSessionList>>
            \/ /\ mSendPendingCount[at[t]] = 0 /\ mSendBuffer[at[t]] # << >>
               /\ Steps(t, at[t], "flushLocked", "post")
               /\ NewSendContext(t, mSendBuffer[at[t]])
               /\ strayed' = (strayed \/ mRefCount[at[t]] = 0)
               /\ UNCHANGED LSendRequestFailedSessionList
<1>1. at[t] \in Session /\ at \in [IoThread -> Session] /\ at' = at
  BY DEF TypeOK, FlushStored
<1> QED
  BY <1>1, StayingSteps, MoveFlushLocked, MoveFlushLockedWsaSend DEF FlushStored

LEMMA WSASendSteps ==
  ASSUME TypeOK, Controlled, NEW t \in IoThread, WSASend(t)
  PROVE  /\ Controlled' /\ at[t] \in Session
         /\ \/ /\ Steps(t, at[t], "key", "preRecv") \/ Steps(t, at[t], "post", "job")
               /\ sends' = [sends EXCEPT ![at[t]] = Append(@, transferred[t])]
               /\ handed' = [handed EXCEPT ![at[t]] =
                               @ \o SubSeq(mSendBuffer[at[t]], 1, transferred[t])]
               /\ mSendPendingCount' = [mSendPendingCount EXCEPT ![at[t]] = @ + 1]
               /\ mSendBufferLock' = [mSendBufferLock EXCEPT ![at[t]] = NoThread]
            \/ /\ Steps(t, at[t], "key", "keyFail") \/ Steps(t, at[t], "post", "postFail")
               /\ UNCHANGED <<sends, handed, mSendPendingCount, mSendBufferLock>>
<1>1. at[t] \in Session /\ at \in [IoThread -> Session] /\ at' = at
  BY DEF TypeOK, WSASend
<1> QED
  BY <1>1, StayingSteps, MoveWsaSend, MoveWsaSendReleaseDisconnectUnlock DEF WSASend

LEMMA GetSteps ==
  ASSUME TypeOK, Controlled, NEW t \in IoThread, NEW s \in Session, GetCompletion(t, s)
  PROVE  /\ Controlled'
         /\ \/ /\ "accept" \in posted[s] /\ Steps(t, s, "idle", "accept")
               /\ posted' = [posted EXCEPT ![s] = @ \ {"accept"}]
            \/ /\ "disconnect" \in posted[s] /\ Steps(t, s, "idle", "last")
               /\ posted' = [posted EXCEPT ![s] = @ \ {"disconnect"}]
            \/ /\ "receive" \in posted[s]
               /\ Steps(t, s, "idle", "receive") \/ Steps(t, s, "idle", "end")
               /\ posted' = [posted EXCEPT ![s] = @ \ {"receive"}]
<1>1. ASSUME NEW h, Moves(t, "idle", h), at' = [at EXCEPT ![t] = s]
      PROVE  Steps(t, s, "idle", h)
  BY <1>1 DEF Steps, Resting
<1>2. \A calls : Handle(t, s, calls) => at' = [at EXCEPT ![t] = s]
  BY DEF Handle
<1> QED
  BY <1>1, <1>2, HandleAccept, HandleLast, HandleReceive, HandleEnd DEF GetCompletion

LEMMA GetSendSteps ==
  ASSUME TypeOK, Controlled, NEW t \in IoThread, NEW s \in Session, GetSendCompletion(t, s)
  PROVE  /\ Controlled' /\ sends[s] # << >> /\ sends' = [sends EXCEPT ![s] = Tail(@)]
         /\ \/ /\ Steps(t, s, "idle", "sent")
               /\ transferred' = [transferred EXCEPT ![t] = Head(sends[s])]
               /\ UNCHANGED handed
            \/ \E unsent \in 1 .. Head(sends[s]) - 1 :
                 /\ Steps(t, s, "idle", "sentEnd")
                 /\ transferred' = [transferred EXCEPT ![t] = Head(sends[s]) - unsent]
                 /\ handed' = [handed EXCEPT ![s] = SubSeq(@, 1, Len(@) - unsent)]
            \/ Steps(t, s, "idle", "end") /\ UNCHANGED <<transferred, handed>>
<1>1. ASSUME NEW h, Moves(t, "idle", h), at' = [at EXCEPT ![t] = s]
      PROVE  Steps(t, s, "idle", h)
  BY <1>1 DEF Steps, Resting
<1>2. \A calls : Handle(t, s, calls) => at' = [at EXCEPT ![t] = s]
  BY DEF Handle
<1> QED
  BY <1>1, <1>2, HandleSent, HandleSentEnd, HandleEnd DEF GetSendCompletion

\* Base is kept by each action.
LEMMA ReturnBase ==
  ASSUME Base, NEW t \in IoThread, ReturnClientSession(t)
  PROVE  Base'
<1>1. TypeOK /\ Controlled
  BY DEF Base
<1>2. Controlled'
  BY <1>1, ReturnSteps
<1>3. TypeOK'
  BY <1>1, <1>2, ControlledTypeStep DEF TypeOK, ReturnClientSession, session, kernel, pool, lists
<1>4. \E g, h : Plain(t, g, h)
  BY <1>1, ReturnSteps
  DEF Plain, ReturnClientSession, session, kernel, Locking, Sending, Sent
<1> QED
  BY <1>2, <1>3, <1>4, PlainKeeps

LEMMA ResetBase ==
  ASSUME Base, NEW t \in IoThread, SessionReset(t)
  PROVE  Base'
<1>1. TypeOK /\ Controlled
  BY DEF Base
<1>2. Controlled'
  BY <1>1, ResetSteps
<1>3. TypeOK'
  <2>1. mConnected' \in [Session -> 0 .. 1]
    <3>1. mConnected \in [Session -> 0 .. 1] /\ at[t] \in Session
      BY <1>1, BoundAssumption DEF TypeOK
    <3> QED
      BY <3>1 DEF SessionReset, AddRef
  <2>2. mRefCount' \in [Session -> Int]
    <3>1. mRefCount \in [Session -> Int] /\ at[t] \in Session
      BY <1>1, BoundAssumption DEF TypeOK
    <3> QED
      BY <3>1 DEF SessionReset, AddRef
  <2> QED
    BY <1>1, <1>2, <2>1, <2>2, ControlledTypeStep
    DEF TypeOK, SessionReset, session, kernel, pool, lists
<1>4. \E g, h : Plain(t, g, h)
  BY <1>1, ResetSteps
  DEF Plain, SessionReset, session, kernel, Locking, Sending, Sent
<1> QED
  BY <1>2, <1>3, <1>4, PlainKeeps

LEMMA ReleaseBase ==
  ASSUME Base, NEW t \in IoThread, ReleaseRef(t)
  PROVE  Base'
<1>1. TypeOK /\ Controlled
  BY DEF Base
<1>2. Controlled'
  BY <1>1, ReleaseSteps
<1>3. TypeOK'
  <2>1. mRefCount' \in [Session -> Int]
    <3>1. mRefCount \in [Session -> Int] /\ at[t] \in Session
      BY <1>1, BoundAssumption DEF TypeOK
    <3> QED
      BY <3>1 DEF ReleaseRef, AddRef
  <2>2. crashed' \in BOOLEAN
    <3>1. crashed \in BOOLEAN /\ at[t] \in Session
      BY <1>1, BoundAssumption DEF TypeOK
    <3> QED
      BY <3>1 DEF ReleaseRef, AddRef
  <2> QED
    BY <1>1, <1>2, <2>1, <2>2, ControlledTypeStep
    DEF TypeOK, ReleaseRef, session, kernel, pool, lists
<1>4. \E g, h : Plain(t, g, h)
  BY <1>1, ReleaseSteps
  DEF Plain, ReleaseRef, session, kernel, Locking, Sending, Sent
<1> QED
  BY <1>2, <1>3, <1>4, PlainKeeps

LEMMA DisconnectBase ==
  ASSUME Base, NEW t \in IoThread, DisconnectRequest(t)
  PROVE  Base'
<1>1. TypeOK /\ Controlled
  BY DEF Base
<1>2. Controlled'
  BY <1>1, DisconnectSteps
<1>3. TypeOK'
  <2>1. mConnected' \in [Session -> 0 .. 1]
    <3>1. mConnected \in [Session -> 0 .. 1] /\ at[t] \in Session
      BY <1>1, BoundAssumption DEF TypeOK
    <3> QED
      BY <3>1 DEF DisconnectRequest, AddRef
  <2>2. mRefCount' \in [Session -> Int]
    <3>1. mRefCount \in [Session -> Int] /\ at[t] \in Session
      BY <1>1, BoundAssumption DEF TypeOK
    <3> QED
      BY <3>1 DEF DisconnectRequest, AddRef
  <2>3. posted' \in [Session -> SUBSET {"accept", "receive", "disconnect"}]
    <3>1. posted \in [Session -> SUBSET {"accept", "receive", "disconnect"}] /\ at[t] \in Session
      BY <1>1, BoundAssumption DEF TypeOK
    <3> QED
      BY <3>1 DEF DisconnectRequest, AddRef
  <2> QED
    BY <1>1, <1>2, <2>1, <2>2, <2>3, ControlledTypeStep
    DEF TypeOK, DisconnectRequest, session, kernel, pool, lists
<1>4. \E g, h : Plain(t, g, h)
  BY <1>1, DisconnectSteps
  DEF Plain, DisconnectRequest, session, kernel, Locking, Sending, Sent
<1> QED
  BY <1>2, <1>3, <1>4, PlainKeeps

LEMMA TimeOutBase ==
  ASSUME Base, NEW t \in IoThread, TimeOut(t)
  PROVE  Base'
<1>1. TypeOK /\ Controlled
  BY DEF Base
<1>2. Controlled'
  BY <1>1, TimeOutSteps
<1>3. TypeOK'
  BY <1>1, <1>2, ControlledTypeStep DEF TypeOK, TimeOut, session, kernel, pool, lists
<1>4. Plain(t, "idle", "job")
  BY <1>1, TimeOutSteps
  DEF Plain, TimeOut, session, kernel, Locking, Sending, Sent
<1> QED
  BY <1>2, <1>3, <1>4, PlainKeeps

LEMMA AcceptBase ==
  ASSUME Base, NEW t \in IoThread, AcceptCompletion(t)
  PROVE  Base'
<1>1. TypeOK /\ Controlled
  BY DEF Base
<1>2. Controlled'
  BY <1>1, AcceptSteps
<1>3. TypeOK'
  <2>1. mConnected' \in [Session -> 0 .. 1]
    <3>1. mConnected \in [Session -> 0 .. 1] /\ at[t] \in Session
      BY <1>1, BoundAssumption DEF TypeOK
    <3> QED
      BY <3>1 DEF AcceptCompletion, AddRef
  <2>2. mRefCount' \in [Session -> Int]
    <3>1. mRefCount \in [Session -> Int] /\ at[t] \in Session
      BY <1>1, BoundAssumption DEF TypeOK
    <3> QED
      BY <3>1 DEF AcceptCompletion, AddRef
  <2>3. posted' \in [Session -> SUBSET {"accept", "receive", "disconnect"}]
    <3>1. posted \in [Session -> SUBSET {"accept", "receive", "disconnect"}] /\ at[t] \in Session
      BY <1>1, BoundAssumption DEF TypeOK
    <3> QED
      BY <3>1 DEF AcceptCompletion, AddRef
  <2>4. crashed' \in BOOLEAN
    <3>1. crashed \in BOOLEAN /\ at[t] \in Session
      BY <1>1, BoundAssumption DEF TypeOK
    <3> QED
      BY <3>1 DEF AcceptCompletion, AddRef
  <2> QED
    BY <1>1, <1>2, <2>1, <2>2, <2>3, <2>4, ControlledTypeStep
    DEF TypeOK, AcceptCompletion, session, kernel, pool, lists
<1>4. Plain(t, "accept", "end") \/ Plain(t, "accept", "delete")
  BY <1>1, AcceptSteps
  DEF Plain, AcceptCompletion, session, kernel, Locking, Sending, Sent
<1> QED
  BY <1>2, <1>3, <1>4, PlainKeeps

LEMMA ReceiveBase ==
  ASSUME Base, NEW t \in IoThread, RecvCompletion(t)
  PROVE  Base'
<1>1. TypeOK /\ Controlled
  BY DEF Base
<1>2. Controlled'
  BY <1>1, ReceiveSteps
<1>3. TypeOK'
  <2>1. received' \in [Session -> 0 .. MaxRequest]
    <3>1. received \in [Session -> 0 .. MaxRequest] /\ at[t] \in Session /\ MaxRequest \in Nat
      BY <1>1, BoundAssumption DEF TypeOK
    <3> QED
      BY <3>1 DEF RecvCompletion, AddRef
  <2> QED
    BY <1>1, <1>2, <2>1, ControlledTypeStep
    DEF TypeOK, RecvCompletion, session, kernel, pool, lists
<1>4. \E g, h : Plain(t, g, h)
  BY <1>1, ReceiveSteps
  DEF Plain, RecvCompletion, session, kernel, Locking, Sending, Sent
<1> QED
  BY <1>2, <1>3, <1>4, PlainKeeps

LEMMA PreRecvBase ==
  ASSUME Base, NEW t \in IoThread, PreRecv(t)
  PROVE  Base'
<1>1. TypeOK /\ Controlled
  BY DEF Base
<1>2. Controlled'
  BY <1>1, PreRecvSteps
<1>3. TypeOK'
  <2>1. mRefCount' \in [Session -> Int]
    <3>1. mRefCount \in [Session -> Int] /\ at[t] \in Session
      BY <1>1, BoundAssumption DEF TypeOK
    <3> QED
      BY <3>1 DEF PreRecv, AddRef
  <2>2. posted' \in [Session -> SUBSET {"accept", "receive", "disconnect"}]
    <3>1. posted \in [Session -> SUBSET {"accept", "receive", "disconnect"}] /\ at[t] \in Session
      BY <1>1, BoundAssumption DEF TypeOK
    <3> QED
      BY <3>1 DEF PreRecv, AddRef
  <2> QED
    BY <1>1, <1>2, <2>1, <2>2, ControlledTypeStep
    DEF TypeOK, PreRecv, session, kernel, pool, lists
<1>4. \E g, h : Plain(t, g, h)
  BY <1>1, PreRecvSteps
  DEF Plain, PreRecv, session, kernel, Locking, Sending, Sent
<1> QED
  BY <1>2, <1>3, <1>4, PlainKeeps

LEMMA FlushBase ==
  ASSUME Base, NEW t \in IoThread, FlushSend(t)
  PROVE  Base'
<1>1. TypeOK /\ Controlled
  BY DEF Base
<1>2. Controlled'
  BY <1>1, FlushSteps
<1>3. TypeOK'
  BY <1>1, <1>2, ControlledTypeStep DEF TypeOK, FlushSend, session, kernel, pool, lists
<1>4. \E g, h : Plain(t, g, h)
  BY <1>1, FlushSteps
  DEF Plain, FlushSend, session, kernel, Locking, Sending, Sent
<1> QED
  BY <1>2, <1>3, <1>4, PlainKeeps
LEMMA SendJobBase ==
  ASSUME Base, NEW t \in IoThread, DoSendJob(t)
  PROVE  Base'
<1>1. TypeOK /\ Controlled
  BY DEF Base
<1>2. Controlled'
  BY <1>1, SendJobSteps
<1>3. TypeOK'
  <2>1. /\ LSendRequestSessionList \in [IoThread -> Seq(Session)] /\ at \in [IoThread -> Session]
        /\ LSendRequestFailedSessionList \in [IoThread -> Seq(Session)]
    BY <1>1 DEF TypeOK
  <2>2. /\ LSendRequestSessionList[t] \in Seq(Session)
        /\ LSendRequestSessionList[t] # << >> =>
             /\ Head(LSendRequestSessionList[t]) \in Session
             /\ Tail(LSendRequestSessionList[t]) \in Seq(Session)
        /\ << >> \in Seq(Session) /\ LSendRequestFailedSessionList[t] \in Seq(Session)
    BY <2>1
  <2>3. LSendRequestSessionList' \in [IoThread -> Seq(Session)]
    BY <2>1, <2>2 DEF DoSendJob
  <2>4. LSendRequestFailedSessionList' \in [IoThread -> Seq(Session)]
    BY <2>1, <2>2 DEF DoSendJob
  <2>5. at' \in [IoThread -> Session]
    BY <2>1, <2>2 DEF DoSendJob
  <2> QED
    BY <1>1, <1>2, <2>3, <2>4, <2>5, ControlledTypeStep DEF TypeOK, DoSendJob, session, kernel, pool
<1>4. \E g, h : Plain(t, g, h)
  <2>1. \/ \E s \in Session : Steps(t, s, "job", "flush")
        \/ \E s \in Session : Steps(t, s, "job", "idle")
    BY <1>1, SendJobSteps
  <2> QED
    BY <2>1 DEF Plain, DoSendJob, session, kernel, Locking, Sending, Sent
<1> QED
  BY <1>2, <1>3, <1>4, PlainKeeps

LEMMA GetBase ==
  ASSUME Base, NEW t \in IoThread, NEW s \in Session, GetCompletion(t, s)
  PROVE  Base'
<1>1. TypeOK /\ Controlled
  BY DEF Base
<1>2. /\ Controlled'
      /\ \E h \in {"accept", "last", "receive", "end"} : Steps(t, s, "idle", h)
      /\ \E c \in {"accept", "disconnect", "receive"} : posted' = [posted EXCEPT ![s] = @ \ {c}]
  BY <1>1, GetSteps
<1>3. TypeOK'
  <2>1. at' \in [IoThread -> Session]
    <3>1. at \in [IoThread -> Session]
      BY <1>1 DEF TypeOK
    <3> QED
      BY <1>2, <3>1 DEF Steps
  <2>2. posted' \in [Session -> SUBSET {"accept", "receive", "disconnect"}]
    <3>1. posted \in [Session -> SUBSET {"accept", "receive", "disconnect"}]
      BY <1>1 DEF TypeOK
    <3> QED
      BY <1>2, <3>1
  <2> QED
    BY <1>1, <1>2, <2>1, <2>2, ControlledTypeStep
    DEF TypeOK, GetCompletion, session, kernel, pool, lists
<1>4. PICK h \in {"accept", "last", "receive", "end"} : Steps(t, s, "idle", h)
  BY <1>2
<1>5. Plain(t, "idle", h)
  BY <1>4 DEF Plain, GetCompletion, session, kernel, Locking, Sending, Sent
<1> QED
  BY <1>2, <1>3, <1>5, PlainKeeps

\* A session whose lock is free has no thread in a stage that holds it.
LEMMA LockFree ==
  ASSUME LockInv, NEW s, mSendBufferLock[s] = NoThread
  PROVE  Threads(s, Locking) = {} /\ Threads(s, Sending) = {}
BY ThreadAssumption DEF LockInv, Threads, Sending, Locking

\* The buffer of a session whose lock is free changes.
LEMMA LengthFree ==
  ASSUME NEW t \in IoThread, NEW s, NEW g, NEW h, at \in [IoThread -> Session],
         Steps(t, s, g, h), LengthInv, LockInv, mSendBufferLock[s] = NoThread,
         \A r \in Session \ {s} : mSendBuffer'[r] = mSendBuffer[r], transferred' = transferred,
         h \notin Sending, h \notin Sent
  PROVE  LengthInv'
<1>1. /\ stage(t)' = h
      /\ \A u \in IoThread \ {t} : at'[u] = at[u] /\ stage(u)' = stage(u)
  BY DEF Steps, Moves
<1>2. \A u \in IoThread : at[u] = s => stage(u) \notin Sending
  BY LockFree DEF Threads
<1> QED
  BY <1>1, <1>2 DEF LengthInv

LEMMA BufferResetBase ==
  ASSUME Base, NEW t \in IoThread, SendBufferReset(t)
  PROVE  Base'
<1>1. TypeOK /\ Controlled /\ LockInv /\ LengthInv /\ PendingInv
  BY DEF Base
<1>2. PICK g, h : /\ <<g, h>> \in {<<"bufReset", "job">>, <<"postBufReset", "postDisc">>,
                               <<"lastBufReset", "delete">>, <<"keyBufReset", "keyDisc">>}
                  /\ Steps(t, at[t], g, h)
  BY <1>1, BufferResetSteps
<1>3. Controlled' /\ at[t] \in Session
  BY <1>1, BufferResetSteps
<1>4. TypeOK'
  <2>1. mSendBuffer' \in [Session -> Seq(1 .. MaxRequest)]
    <3>1. mSendBuffer \in [Session -> Seq(1 .. MaxRequest)] /\ << >> \in Seq(1 .. MaxRequest)
      BY <1>1 DEF TypeOK
    <3> QED
      BY <3>1 DEF SendBufferReset
  <2>2. received' \in [Session -> 0 .. MaxRequest]
    <3>1. received \in [Session -> 0 .. MaxRequest] /\ 0 \in 0 .. MaxRequest
      BY <1>1, BoundAssumption DEF TypeOK
    <3> QED
      BY <3>1 DEF SendBufferReset
  <2>3. handed' \in [Session -> Seq(1 .. MaxRequest)]
    <3>1. handed \in [Session -> Seq(1 .. MaxRequest)] /\ << >> \in Seq(1 .. MaxRequest)
      BY <1>1 DEF TypeOK
    <3> QED
      BY <3>1 DEF SendBufferReset
  <2>4. mFreeSessionList' \in Seq(Session)
    BY <1>1, <1>3 DEF TypeOK, SendBufferReset
  <2> QED
    BY <1>1, <1>3, <2>1, <2>2, <2>3, <2>4, ControlledTypeStep
    DEF TypeOK, SendBufferReset, lists
<1>5. h \in Locking => g \in Locking
  BY <1>2 DEF Locking
<1>6. h \notin Sending /\ h \notin Sent /\ g \notin Sent
  BY <1>2 DEF Sending, Sent
<1>7. at \in [IoThread -> Session] /\ mSendBuffer \in [Session -> Seq(1 .. MaxRequest)]
  BY <1>1 DEF TypeOK
<1>8. LockInv'
  BY <1>1, <1>2, <1>5, <1>7, LockKept DEF SendBufferReset
<1>9. LengthInv'
  <2>1. \A r \in Session \ {at[t]} : mSendBuffer'[r] = mSendBuffer[r]
    BY <1>7 DEF SendBufferReset
  <2> QED
    BY <1>1, <1>2, <1>6, <1>7, <2>1, LengthFree DEF SendBufferReset
<1>10. PendingInv'
  BY <1>1, <1>2, <1>6, <1>7, PendingKept DEF SendBufferReset
<1> QED
  BY <1>3, <1>4, <1>8, <1>9, <1>10 DEF Base

LEMMA UnlockBase ==
  ASSUME Base, NEW t \in IoThread, Unlock(t)
  PROVE  Base'
<1>1. TypeOK /\ Controlled /\ LockInv /\ LengthInv /\ PendingInv
  BY DEF Base
<1>2. PICK g, h : /\ <<g, h>> \in {<<"keyUnlock", "preRecv">>, <<"postUnlock", "job">>}
                  /\ Steps(t, at[t], g, h)
  BY <1>1, UnlockSteps
<1>3. Controlled' /\ at[t] \in Session
  BY <1>1, UnlockSteps
<1>4. at \in [IoThread -> Session] /\ mSendBufferLock \in [Session -> IoThread \cup {NoThread}]
  BY <1>1 DEF TypeOK
<1>5. TypeOK'
  <2>1. mSendBufferLock' \in [Session -> IoThread \cup {NoThread}]
    BY <1>4 DEF Unlock
  <2> QED
    BY <1>1, <1>3, <2>1, ControlledTypeStep DEF TypeOK, Unlock, kernel, pool, lists
<1>6. h \notin Sending /\ h \notin Sent /\ g \notin Sent /\ g \in Locking /\ h \notin Locking
  BY <1>2 DEF Sending, Sent, Locking
<1>7. LockInv'
  <2>1. stage(t)' = h /\ stage(t) = g
    BY <1>2 DEF Steps, Moves
  <2>2. mSendBufferLock[at[t]] = t
    BY <1>1, <1>6, <2>1 DEF LockInv
  <2>3. ASSUME NEW u \in IoThread, stage(u)' \in Locking PROVE mSendBufferLock'[at'[u]] = u
    <3>1. u # t /\ at'[u] = at[u] /\ stage(u) \in Locking
      BY <1>2, <1>6, <2>1, <2>3 DEF Steps, Moves
    <3>2. mSendBufferLock[at[u]] = u /\ at[u] # at[t]
      BY <1>1, <2>2, <3>1 DEF LockInv
    <3> QED
      BY <1>4, <3>1, <3>2 DEF Unlock
  <2> QED
    BY <2>3 DEF LockInv
<1>8. LengthInv'
  BY <1>1, <1>2, <1>4, <1>6, LengthKept DEF Unlock
<1>9. PendingInv'
  BY <1>1, <1>2, <1>4, <1>6, PendingKept DEF Unlock, kernel
<1> QED
  BY <1>3, <1>5, <1>7, <1>8, <1>9 DEF Base

\* A thread takes the free lock of its session and makes a context for n packets.
LEMMA LockTaken ==
  ASSUME NEW t \in IoThread, NEW s \in Session, NEW g, NEW h, at \in [IoThread -> Session],
         mSendBufferLock \in [Session -> IoThread \cup {NoThread}],
         Steps(t, s, g, h), LockInv, mSendBufferLock[s] = NoThread,
         mSendBufferLock' = [mSendBufferLock EXCEPT ![s] = t]
  PROVE  LockInv'
<1>1. /\ at'[t] = s
      /\ \A u \in IoThread \ {t} : at'[u] = at[u] /\ stage(u)' = stage(u)
  BY DEF Steps, Moves
<1>2. \A u \in IoThread : stage(u) \in Locking => at[u] # s
  BY LockFree DEF Threads
<1>3. \A u \in IoThread \ {t} : stage(u)' \in Locking => mSendBufferLock'[at'[u]] = u
  BY <1>1, <1>2 DEF LockInv
<1> QED
  BY <1>1, <1>3 DEF LockInv

LEMMA LengthTaken ==
  ASSUME NEW t \in IoThread, NEW s \in Session, NEW g, NEW h, at \in [IoThread -> Session],
         transferred \in [IoThread -> Nat], NEW n \in Nat,
         Steps(t, s, g, h), LengthInv, LockInv, mSendBufferLock[s] = NoThread,
         \A r \in Session \ {s} : mSendBuffer'[r] = mSendBuffer[r],
         transferred' = [transferred EXCEPT ![t] = n],
         n \in 1 .. Len(mSendBuffer'[s])
  PROVE  LengthInv'
<1>1. /\ at'[t] = s
      /\ \A u \in IoThread \ {t} : at'[u] = at[u] /\ stage(u)' = stage(u)
  BY DEF Steps, Moves
<1>2. \A u \in IoThread : at[u] = s => stage(u) \notin Sending
  BY LockFree DEF Threads
<1>3. transferred'[t] = n /\ \A u \in IoThread \ {t} : transferred'[u] = transferred[u]
  OBVIOUS
<1>4. ASSUME NEW u \in IoThread \ {t}
      PROVE  /\ stage(u)' \in Sending => transferred'[u] \in 1 .. Len(mSendBuffer'[at'[u]])
             /\ stage(u)' \in Sent => transferred'[u] >= 1
  BY <1>1, <1>2, <1>3 DEF LengthInv
<1>5. transferred'[t] \in 1 .. Len(mSendBuffer'[at'[t]]) /\ transferred'[t] >= 1
  BY <1>1, <1>3
<1> QED
  BY <1>4, <1>5 DEF LengthInv

LEMMA StoredBase ==
  ASSUME Base, NEW t \in IoThread, FlushStored(t)
  PROVE  Base'
<1>1. TypeOK /\ Controlled /\ LockInv /\ LengthInv /\ PendingInv
  BY DEF Base
<1>2. /\ Controlled' /\ at[t] \in Session /\ mSendBufferLock[at[t]] = NoThread
      /\ \/ /\ Steps(t, at[t], "flushLocked", "job")
            /\ UNCHANGED <<mRefCount, mSendBufferLock, transferred, strayed>>
         \/ /\ Steps(t, at[t], "flushLocked", "post")
            /\ NewSendContext(t, mSendBuffer[at[t]])
            /\ strayed' = (strayed \/ mRefCount[at[t]] = 0)
  BY <1>1, StoredSteps
<1>3. /\ UNCHANGED <<mConnected, mSendPendingCount, mSendBuffer, kernel, pool,
                     LSendRequestSessionList, at, crashed>>
      /\ LSendRequestFailedSessionList' \in [IoThread -> Seq(Session)]
  <2>1. LSendRequestFailedSessionList \in [IoThread -> Seq(Session)]
    BY <1>1 DEF TypeOK
  <2>2. \/ LSendRequestFailedSessionList' = LSendRequestFailedSessionList
        \/ LSendRequestFailedSessionList' =
             [LSendRequestFailedSessionList EXCEPT ![t] = Append(@, at[t])]
    BY <1>1, StoredSteps
  <2>3. Append(LSendRequestFailedSessionList[t], at[t]) \in Seq(Session)
    BY <1>2, <2>1
  <2> QED
    BY <2>1, <2>2, <2>3 DEF FlushStored
<1>4. /\ at \in [IoThread -> Session] /\ mRefCount \in [Session -> Int]
      /\ mSendBufferLock \in [Session -> IoThread \cup {NoThread}]
      /\ transferred \in [IoThread -> Nat] /\ strayed \in BOOLEAN
      /\ mSendBuffer \in [Session -> Seq(1 .. MaxRequest)]
  BY <1>1 DEF TypeOK
<1>5. PendingInv'
  <2>1. "flushLocked" \notin Sent /\ "job" \notin Sent /\ "post" \notin Sent
    BY DEF Sent
  <2> QED
    BY <1>1, <1>2, <1>3, <1>4, <2>1, PendingKept DEF kernel
<1>6. CASE /\ Steps(t, at[t], "flushLocked", "job")
           /\ UNCHANGED <<mRefCount, mSendBufferLock, transferred, strayed>>
  <2>1. TypeOK'
    BY <1>1, <1>2, <1>3, <1>6, ControlledTypeStep DEF TypeOK, kernel, pool
  <2>2. LockInv'
    BY <1>1, <1>4, <1>6, LockKept DEF Locking
  <2>3. LengthInv'
    <3>1. "job" \notin Sending /\ "job" \notin Sent
      BY DEF Sending, Sent
    <3> QED
      BY <1>1, <1>3, <1>4, <1>6, <3>1, LengthKept
  <2> QED
    BY <1>2, <1>5, <2>1, <2>2, <2>3 DEF Base
<1>7. CASE /\ Steps(t, at[t], "flushLocked", "post")
           /\ NewSendContext(t, mSendBuffer[at[t]])
           /\ strayed' = (strayed \/ mRefCount[at[t]] = 0)
  <2>1. PICK n \in 1 .. Len(mSendBuffer[at[t]]) : transferred' = [transferred EXCEPT ![t] = n]
    BY <1>7 DEF NewSendContext
  <2>2. n \in Nat
    BY <1>2, <1>4
  <2>3. TypeOK'
    <3>1. mSendBufferLock' \in [Session -> IoThread \cup {NoThread}]
      BY <1>2, <1>4, <1>7 DEF NewSendContext
    <3>2. mRefCount' \in [Session -> Int] /\ strayed' \in BOOLEAN
      BY <1>2, <1>4, <1>7 DEF NewSendContext, AddRef
    <3>3. transferred' \in [IoThread -> Nat]
      BY <1>4, <2>1, <2>2
    <3> QED
      BY <1>1, <1>2, <1>3, <3>1, <3>2, <3>3, ControlledTypeStep DEF TypeOK, kernel, pool
  <2>4. LockInv'
    BY <1>1, <1>2, <1>4, <1>7, LockTaken DEF NewSendContext
  <2>5. LengthInv'
    BY <1>1, <1>2, <1>3, <1>4, <1>7, <2>1, <2>2, LengthTaken
  <2> QED
    BY <1>2, <1>5, <2>3, <2>4, <2>5 DEF Base
<1> QED
  BY <1>2, <1>6, <1>7

LEMMA RequestBase ==
  ASSUME Base, NEW t \in IoThread, SendRequest(t)
  PROVE  Base'
<1> DEFINE s == at[t]
<1>1. TypeOK /\ Controlled /\ LockInv /\ LengthInv /\ PendingInv
  BY DEF Base
<1>2. /\ at \in [IoThread -> Session] /\ mRefCount \in [Session -> Int]
      /\ mSendBufferLock \in [Session -> IoThread \cup {NoThread}]
      /\ transferred \in [IoThread -> Nat] /\ received \in [Session -> 0 .. MaxRequest]
      /\ mSendBuffer \in [Session -> Seq(1 .. MaxRequest)]
      /\ LSendRequestSessionList \in [IoThread -> Seq(Session)]
  BY <1>1 DEF TypeOK
<1>3. /\ Controlled' /\ s \in Session /\ mSendBufferLock[s] = NoThread
      /\ UNCHANGED <<mConnected, mSendPendingCount, kernel, pool, LSendRequestFailedSessionList,
                     at, crashed, strayed>>
  BY <1>1, RequestSteps DEF SendRequest
<1>4. PendingInv'
  <2>1. Steps(t, s, "commit", "preRecv") \/ Steps(t, s, "commit", "key")
    BY <1>1, RequestSteps
  <2>2. "commit" \notin Sent /\ "preRecv" \notin Sent /\ "key" \notin Sent
    BY DEF Sent
  <2> QED
    BY <1>1, <1>2, <1>3, <2>1, <2>2, PendingKept DEF kernel
<1>5. \/ /\ Steps(t, s, "commit", "preRecv")
         /\ UNCHANGED <<mSendBuffer, mSendBufferLock, mRefCount, transferred,
                        LSendRequestSessionList>>
      \/ /\ received[s] >= 1
         /\ Steps(t, s, "commit", "key")
         /\ mSendBuffer' = [mSendBuffer EXCEPT ![s] = Append(@, received[s])]
         /\ NewSendContext(t, mSendBuffer'[s])
         /\ UNCHANGED LSendRequestSessionList
      \/ /\ received[s] >= 1
         /\ Steps(t, s, "commit", "preRecv")
         /\ mSendBuffer' = [mSendBuffer EXCEPT ![s] = Append(@, received[s])]
         /\ LSendRequestSessionList' = [LSendRequestSessionList EXCEPT ![t] = Append(@, s)]
         /\ UNCHANGED <<mSendBufferLock, mRefCount, transferred>>
  <2>1. received[s] \in Nat
    BY <1>2, <1>3, BoundAssumption
  <2> HIDE DEF s
  <2> QED
    BY <1>1, <2>1, RequestSteps DEF s
<1> HIDE DEF s
<1>6. ASSUME received[s] >= 1, mSendBuffer' = [mSendBuffer EXCEPT ![s] = Append(@, received[s])]
      PROVE  /\ mSendBuffer' \in [Session -> Seq(1 .. MaxRequest)]
             /\ \A r \in Session \ {s} : mSendBuffer'[r] = mSendBuffer[r]
             /\ Len(mSendBuffer'[s]) \in Nat
  <2>1. received[s] \in 1 .. MaxRequest
    BY <1>2, <1>3, <1>6, BoundAssumption
  <2>2. Append(mSendBuffer[s], received[s]) \in Seq(1 .. MaxRequest)
    BY <1>2, <1>3, <2>1
  <2>3. mSendBuffer' \in [Session -> Seq(1 .. MaxRequest)]
    BY <1>2, <1>6, <2>2
  <2>4. \A r \in Session \ {s} : mSendBuffer'[r] = mSendBuffer[r]
    BY <1>2, <1>6
  <2> QED
    BY <1>3, <2>3, <2>4
<1>7. CASE /\ Steps(t, s, "commit", "preRecv")
           /\ UNCHANGED <<mSendBuffer, mSendBufferLock, mRefCount, transferred,
                          LSendRequestSessionList>>
  <2>1. TypeOK'
    BY <1>1, <1>3, <1>7, ControlledTypeStep DEF TypeOK, kernel, pool
  <2>2. LockInv'
    BY <1>1, <1>2, <1>7, LockKept DEF Locking
  <2>3. LengthInv'
    <3>1. "preRecv" \notin Sending /\ "preRecv" \notin Sent
      BY DEF Sending, Sent
    <3> QED
      BY <1>1, <1>2, <1>7, <3>1, LengthKept
  <2> QED
    BY <1>3, <1>4, <2>1, <2>2, <2>3 DEF Base
<1>8. CASE /\ received[s] >= 1
           /\ Steps(t, s, "commit", "key")
           /\ mSendBuffer' = [mSendBuffer EXCEPT ![s] = Append(@, received[s])]
           /\ NewSendContext(t, mSendBuffer'[s])
           /\ UNCHANGED LSendRequestSessionList
  <2>1. PICK n \in 1 .. Len(mSendBuffer'[s]) : transferred' = [transferred EXCEPT ![t] = n]
    BY <1>8 DEF NewSendContext
  <2>2. n \in Nat
    BY <1>6, <1>8
  <2>3. TypeOK'
    <3>1. mSendBufferLock' \in [Session -> IoThread \cup {NoThread}]
      BY <1>2, <1>3, <1>8 DEF NewSendContext, s
    <3>2. mRefCount' \in [Session -> Int]
      BY <1>2, <1>3, <1>8 DEF NewSendContext, AddRef, s
    <3>3. transferred' \in [IoThread -> Nat]
      BY <1>2, <2>1, <2>2
    <3> QED
      BY <1>1, <1>3, <1>6, <1>8, <3>1, <3>2, <3>3, ControlledTypeStep DEF TypeOK, kernel, pool
  <2>4. LockInv'
    BY <1>1, <1>2, <1>3, <1>8, LockTaken DEF NewSendContext, s
  <2>5. LengthInv'
    BY <1>1, <1>2, <1>3, <1>6, <1>8, <2>1, <2>2, LengthTaken
  <2> QED
    BY <1>3, <1>4, <2>3, <2>4, <2>5 DEF Base
<1>9. CASE /\ received[s] >= 1
           /\ Steps(t, s, "commit", "preRecv")
           /\ mSendBuffer' = [mSendBuffer EXCEPT ![s] = Append(@, received[s])]
           /\ LSendRequestSessionList' = [LSendRequestSessionList EXCEPT ![t] = Append(@, s)]
           /\ UNCHANGED <<mSendBufferLock, mRefCount, transferred>>
  <2>1. LSendRequestSessionList' \in [IoThread -> Seq(Session)]
    <3>1. Append(LSendRequestSessionList[t], s) \in Seq(Session)
      BY <1>2, <1>3
    <3> QED
      BY <1>2, <1>9, <3>1
  <2>2. TypeOK'
    BY <1>1, <1>3, <1>6, <1>9, <2>1, ControlledTypeStep DEF TypeOK, kernel, pool
  <2>3. LockInv'
    BY <1>1, <1>2, <1>9, LockKept DEF Locking
  <2>4. LengthInv'
    <3>1. "preRecv" \notin Sending /\ "preRecv" \notin Sent
      BY DEF Sending, Sent
    <3> QED
      BY <1>1, <1>2, <1>3, <1>6, <1>9, <3>1, LengthFree
  <2> QED
    BY <1>3, <1>4, <2>2, <2>3, <2>4 DEF Base
<1> QED
  BY <1>5, <1>7, <1>8, <1>9

LEMMA WSASendBase ==
  ASSUME Base, NEW t \in IoThread, WSASend(t)
  PROVE  Base'
<1> DEFINE s == at[t]
<1>1. TypeOK /\ Controlled /\ LockInv /\ LengthInv /\ PendingInv
  BY DEF Base
<1>2. /\ at \in [IoThread -> Session] /\ sends \in [Session -> Seq(Nat \ {0})]
      /\ mSendBufferLock \in [Session -> IoThread \cup {NoThread}]
      /\ transferred \in [IoThread -> Nat] /\ mSendPendingCount \in [Session -> Nat]
      /\ mSendBuffer \in [Session -> Seq(1 .. MaxRequest)]
      /\ handed \in [Session -> Seq(1 .. MaxRequest)]
  BY <1>1 DEF TypeOK
<1>3. /\ Controlled' /\ s \in Session
      /\ UNCHANGED <<mConnected, mRefCount, mSendBuffer, received, posted, pool, lists,
                     at, transferred, crashed, strayed>>
  BY <1>1, WSASendSteps, ZenonT(30) DEF WSASend
<1>4. \/ /\ Steps(t, s, "key", "preRecv") \/ Steps(t, s, "post", "job")
         /\ sends' = [sends EXCEPT ![s] = Append(@, transferred[t])]
         /\ handed' = [handed EXCEPT ![s] = @ \o SubSeq(mSendBuffer[s], 1, transferred[t])]
         /\ mSendPendingCount' = [mSendPendingCount EXCEPT ![s] = @ + 1]
         /\ mSendBufferLock' = [mSendBufferLock EXCEPT ![s] = NoThread]
      \/ /\ Steps(t, s, "key", "keyFail") \/ Steps(t, s, "post", "postFail")
         /\ UNCHANGED <<sends, handed, mSendPendingCount, mSendBufferLock>>
  BY <1>1, WSASendSteps
<1> HIDE DEF s
<1>5. CASE /\ Steps(t, s, "key", "preRecv") \/ Steps(t, s, "post", "job")
           /\ sends' = [sends EXCEPT ![s] = Append(@, transferred[t])]
           /\ handed' = [handed EXCEPT ![s] = @ \o SubSeq(mSendBuffer[s], 1, transferred[t])]
           /\ mSendPendingCount' = [mSendPendingCount EXCEPT ![s] = @ + 1]
           /\ mSendBufferLock' = [mSendBufferLock EXCEPT ![s] = NoThread]
  <2>1. PICK g \in {"key", "post"}, h \in {"preRecv", "job"} : Steps(t, s, g, h)
    BY <1>5
  <2>2. /\ g \in Sending /\ g \in Locking /\ g \notin Sent
        /\ h \notin Locking /\ h \notin Sending /\ h \notin Sent
    BY DEF Sending, Locking, Sent
  <2>3. stage(t) = g /\ stage(t)' = h /\ at[t] = s
    BY <2>1, <2>2 DEF Steps, Moves, s
  <2>4. transferred[t] \in 1 .. Len(mSendBuffer[s]) /\ mSendBufferLock[s] = t
    BY <1>1, <2>2, <2>3 DEF LengthInv, LockInv
  <2>5. TypeOK'
    <3>1. sends' \in [Session -> Seq(Nat \ {0})]
      <4>1. transferred[t] \in Nat \ {0}
        BY <1>2, <1>3, <2>4
      <4>2. Append(sends[s], transferred[t]) \in Seq(Nat \ {0})
        BY <1>2, <1>3, <4>1
      <4> QED
        BY <1>2, <1>5, <4>2
    <3>2. handed' \in [Session -> Seq(1 .. MaxRequest)]
      <4>1. mSendBuffer[s] \in Seq(1 .. MaxRequest) /\ handed[s] \in Seq(1 .. MaxRequest)
        BY <1>2, <1>3
      <4>2. SubSeq(mSendBuffer[s], 1, transferred[t]) \in Seq(1 .. MaxRequest)
        <5>1. transferred[t] \in Nat /\ transferred[t] <= Len(mSendBuffer[s]) /\ 1 \in Nat \ {0}
          BY <1>2, <2>4, <4>1
        <5> QED
          BY <4>1, <5>1, Pieces
      <4>3. handed[s] \o SubSeq(mSendBuffer[s], 1, transferred[t]) \in Seq(1 .. MaxRequest)
        BY <4>1, <4>2
      <4> QED
        BY <1>2, <1>5, <4>3
    <3>3. mSendPendingCount' \in [Session -> Nat]
      BY <1>2, <1>3, <1>5, SMTT(30)
    <3>4. mSendBufferLock' \in [Session -> IoThread \cup {NoThread}]
      BY <1>2, <1>3, <1>5
    <3> QED
      BY <1>1, <1>3, <3>1, <3>2, <3>3, <3>4, ControlledTypeStep DEF TypeOK, pool, lists
  <2>6. LockInv'
    <3>1. ASSUME NEW u \in IoThread, stage(u)' \in Locking PROVE mSendBufferLock'[at'[u]] = u
      <4>1. u # t /\ at'[u] = at[u] /\ stage(u) \in Locking
        BY <2>1, <2>2, <2>3, <3>1 DEF Steps, Moves
      <4>2. mSendBufferLock[at[u]] = u /\ at[u] # s
        BY <1>1, <2>4, <4>1 DEF LockInv
      <4> QED
        BY <1>2, <1>5, <4>1, <4>2
    <3> QED
      BY <3>1 DEF LockInv
  <2>7. LengthInv'
    BY <1>1, <1>2, <1>3, <2>1, <2>2, LengthKept
  <2>8. PendingInv'
    <3>1. Sent \cap Resting = {}
      BY DEF Sent, Resting
    <3>2. \A r \in Session : Threads(r, Sent)' = Threads(r, Sent)
      BY <1>2, <2>1, <2>2, <3>1, SameThreads
    <3>3. ASSUME NEW r \in Session
          PROVE  Len(sends'[r]) + Cardinality(Threads(r, Sent)) <= mSendPendingCount'[r]
      <4>1. Len(sends[r]) + Cardinality(Threads(r, Sent)) <= mSendPendingCount[r]
        BY <1>1 DEF PendingInv
      <4>2. /\ Cardinality(Threads(r, Sent)) \in Nat /\ Len(sends[r]) \in Nat
            /\ mSendPendingCount[r] \in Nat /\ sends[r] \in Seq(Nat \ {0})
        BY <1>2, ThreadsFinite
      <4>3. CASE r = s
        <5>1. Len(sends'[r]) = Len(sends[r]) + 1
          BY <1>2, <1>3, <1>5, <4>2, <4>3
        <5>2. mSendPendingCount'[r] = mSendPendingCount[r] + 1
          BY <1>2, <1>3, <1>5, <4>3
        <5> QED
          BY <4>1, <4>2, <5>1, <5>2
      <4>4. CASE r # s
        BY <1>2, <1>5, <4>1, <4>4
      <4> QED
        BY <4>3, <4>4
    <3> QED
      BY <3>2, <3>3 DEF PendingInv
  <2> QED
    BY <1>3, <2>5, <2>6, <2>7, <2>8 DEF Base
<1>6. CASE /\ Steps(t, s, "key", "keyFail") \/ Steps(t, s, "post", "postFail")
           /\ UNCHANGED <<sends, handed, mSendPendingCount, mSendBufferLock>>
  <2>1. TypeOK'
    BY <1>1, <1>3, <1>6, ControlledTypeStep DEF TypeOK, pool, lists
  <2>2. PICK g \in {"key", "post"}, h \in {"keyFail", "postFail"} : Steps(t, s, g, h)
    BY <1>6
  <2>3. Plain(t, g, h)
    BY <1>3, <1>6, <2>2 DEF Plain, Locking, Sending, Sent
  <2> QED
    BY <1>3, <2>1, <2>3, PlainKeeps
<1> QED
  BY <1>4, <1>5, <1>6

LEMMA CompletionBase ==
  ASSUME Base, NEW t \in IoThread, SendCompletion(t)
  PROVE  Base'
<1>1. TypeOK /\ Controlled /\ LockInv /\ LengthInv /\ PendingInv
  BY DEF Base
<1>0. PICK s \in Session : s = at[t]
  BY <1>1 DEF TypeOK
<1>2. /\ at \in [IoThread -> Session] /\ sends \in [Session -> Seq(Nat \ {0})]
      /\ transferred \in [IoThread -> Nat] /\ mSendPendingCount \in [Session -> Nat]
      /\ mSendBuffer \in [Session -> Seq(1 .. MaxRequest)]
  BY <1>1 DEF TypeOK
<1>3. PICK g \in {"sent", "sentEnd"}, h \in {"delete", "end"} : Steps(t, s, g, h)
  BY <1>0, <1>1, CompletionSteps
<1>4. /\ Controlled' /\ s \in Session
      /\ mSendBufferLock[s] = NoThread
      /\ mSendBuffer' = [mSendBuffer EXCEPT ![s] = SubSeq(@, transferred[t] + 1, Len(@))]
      /\ mSendPendingCount' = [mSendPendingCount EXCEPT ![s] = @ - 1]
      /\ UNCHANGED <<mConnected, mRefCount, mSendBufferLock, kernel, pool, lists, at,
                     transferred, crashed, strayed>>
  BY <1>0, <1>1, CompletionSteps DEF SendCompletion
<1>5. g \in Sent /\ h \notin Sending /\ h \notin Sent /\ h \notin Locking
  BY DEF Sending, Sent, Locking
<1>6. /\ Sent \cap Resting = {}
      /\ Cardinality(Threads(s, Sent)') = Cardinality(Threads(s, Sent)) - 1
      /\ Cardinality(Threads(s, Sent)) > 0 /\ Cardinality(Threads(s, Sent)) \in Nat
      /\ \A r : r # s => Threads(r, Sent)' = Threads(r, Sent)
  <2>1. Sent \cap Resting = {}
    BY DEF Sent, Resting
  <2>2. ASSUME NEW r, r # s PROVE Threads(r, Sent)' = Threads(r, Sent)
    <3>1. at \in [IoThread -> Session]
      BY <1>2
    <3> QED
      BY <1>3, <2>1, <2>2, <3>1, OtherThreads
  <2>3. /\ Cardinality(Threads(s, Sent)') = Cardinality(Threads(s, Sent)) - 1
        /\ Cardinality(Threads(s, Sent)) > 0
    BY <1>2, <1>3, <1>5, <2>1, OneLess
  <2>4. Cardinality(Threads(s, Sent)) \in Nat
    BY ThreadsFinite
  <2> QED
    BY <2>1, <2>2, <2>3, <2>4
<1>7. Len(sends[s]) + Cardinality(Threads(s, Sent)) <= mSendPendingCount[s] /\ Len(sends[s]) \in Nat
  BY <1>1, <1>2, <1>4 DEF PendingInv
<1>8. TypeOK'
  <2>1. mSendPendingCount' \in [Session -> Nat]
    <3>1. mSendPendingCount[s] - 1 \in Nat
      BY <1>2, <1>4, <1>6, <1>7, SMTT(20)
    <3> QED
      BY <1>2, <1>4, <3>1
  <2>2. mSendBuffer' \in [Session -> Seq(1 .. MaxRequest)]
    <3>1. mSendBuffer[s] \in Seq(1 .. MaxRequest) /\ transferred[t] \in Nat
      BY <1>2, <1>4
    <3>2. SubSeq(mSendBuffer[s], transferred[t] + 1, Len(mSendBuffer[s])) \in Seq(1 .. MaxRequest)
      <4>1. /\ transferred[t] + 1 \in Nat \ {0} /\ Len(mSendBuffer[s]) \in Nat
            /\ Len(mSendBuffer[s]) <= Len(mSendBuffer[s])
        BY <3>1
      <4> QED
        BY <3>1, <4>1, Pieces
    <3> QED
      BY <1>2, <1>4, <3>2
  <2> QED
    BY <1>1, <1>4, <2>1, <2>2, ControlledTypeStep DEF TypeOK, kernel, pool, lists
<1>9. LockInv'
  BY <1>1, <1>2, <1>3, <1>4, <1>5, LockKept
<1>10. LengthInv'
  <2>1. \A r \in Session \ {s} : mSendBuffer'[r] = mSendBuffer[r]
    BY <1>2, <1>4
  <2> QED
    BY <1>1, <1>2, <1>3, <1>4, <1>5, <2>1, LengthFree
<1>11. PendingInv'
  <2>1. sends' = sends
    BY <1>4 DEF kernel
  <2>2. ASSUME NEW r \in Session
        PROVE  Len(sends[r]) + Cardinality(Threads(r, Sent)') <= mSendPendingCount'[r]
    <3>1. CASE r = s
      <4>1. mSendPendingCount'[s] = mSendPendingCount[s] - 1 /\ mSendPendingCount[s] \in Nat
        BY <1>2, <1>4
      <4>2. PICK a \in Nat, b \in Nat : a = Len(sends[s]) /\ b = Cardinality(Threads(s, Sent))
        BY <1>6, <1>7
      <4>3. a + b <= mSendPendingCount[s] /\ Cardinality(Threads(s, Sent)') = b - 1
        BY <1>6, <1>7, <4>2
      <4>4. a + (b - 1) <= mSendPendingCount'[s]
        BY <4>1, <4>3
      <4>5. Len(sends[s]) + Cardinality(Threads(s, Sent)') <= mSendPendingCount'[s]
        BY <4>2, <4>3, <4>4
      <4> QED
        BY <3>1, <4>5
    <3>2. CASE r # s
      <4>1. mSendPendingCount'[r] = mSendPendingCount[r]
        BY <1>2, <1>4, <3>2
      <4> QED
        BY <1>1, <1>6, <3>2, <4>1 DEF PendingInv
    <3> QED
      BY <3>1, <3>2
  <2> QED
    BY <2>1, <2>2 DEF PendingInv
<1> QED
  BY <1>4, <1>8, <1>9, <1>10, <1>11 DEF Base

LEMMA GetSendBase ==
  ASSUME Base, NEW t \in IoThread, NEW s \in Session, GetSendCompletion(t, s)
  PROVE  Base'
<1>1. TypeOK /\ Controlled /\ LockInv /\ LengthInv /\ PendingInv
  BY DEF Base
<1>2. /\ at \in [IoThread -> Session] /\ sends \in [Session -> Seq(Nat \ {0})]
      /\ transferred \in [IoThread -> Nat] /\ mSendPendingCount \in [Session -> Nat]
      /\ handed \in [Session -> Seq(1 .. MaxRequest)]
  BY <1>1 DEF TypeOK
<1>3. /\ Controlled' /\ sends[s] # << >> /\ sends' = [sends EXCEPT ![s] = Tail(@)]
      /\ UNCHANGED <<session, received, posted, pool, lists, crashed, strayed>>
  BY <1>1, GetSendSteps DEF GetSendCompletion
<1>4. \E h \in {"sent", "sentEnd", "end"} : Steps(t, s, "idle", h)
  BY <1>1, GetSendSteps
<1>5. PICK h \in {"sent", "sentEnd", "end"} : Steps(t, s, "idle", h)
  BY <1>4
<1>6. /\ Sent \cap Resting = {} /\ "idle" \notin Sent
      /\ h \notin Locking /\ h \notin Sending /\ "idle" \notin Locking
  BY DEF Sent, Resting, Locking, Sending
<1>7. /\ sends[s] \in Seq(Nat \ {0}) /\ Head(sends[s]) \in Nat \ {0}
      /\ Tail(sends[s]) \in Seq(Nat \ {0})
      /\ Len(Tail(sends[s])) = Len(sends[s]) - 1 /\ Len(sends[s]) \in Nat
  BY <1>2, <1>3, HeadTailProperties
<1>8. stage(t)' = h
  BY <1>5 DEF Steps, Moves
<1>9. \/ transferred' = transferred /\ handed' = handed /\ stage(t)' = "end"
      \/ \E n \in Nat \ {0} : transferred' = [transferred EXCEPT ![t] = n] /\ handed' = handed
      \/ \E unsent \in 1 .. Head(sends[s]) - 1 :
           /\ transferred' = [transferred EXCEPT ![t] = Head(sends[s]) - unsent]
           /\ handed' = [handed EXCEPT ![s] = SubSeq(@, 1, Len(@) - unsent)]
  <2>1. Steps(t, s, "idle", "end") => stage(t)' = "end"
    BY DEF Steps, Moves
  <2> QED
    BY <1>1, <1>7, <2>1, GetSendSteps, SMTT(30)
<1>10. \/ transferred' = transferred /\ stage(t)' = "end"
       \/ \E n \in Nat \ {0} : transferred' = [transferred EXCEPT ![t] = n]
  <2>1. ASSUME NEW unsent \in 1 .. Head(sends[s]) - 1 PROVE Head(sends[s]) - unsent \in Nat \ {0}
    BY <1>7
  <2> QED
    BY <1>9, <2>1
<1>11. handed' \in [Session -> Seq(1 .. MaxRequest)]
  <2>1. ASSUME NEW u \in 1 .. Head(sends[s]) - 1
        PROVE  SubSeq(handed[s], 1, Len(handed[s]) - u) \in Seq(1 .. MaxRequest)
    <3>1. handed[s] \in Seq(1 .. MaxRequest) /\ u \in Nat /\ Len(handed[s]) \in Nat /\ u >= 1
      BY <1>2, <1>7
    <3>2. CASE u <= Len(handed[s])
      <4>1. Len(handed[s]) - u \in Nat /\ Len(handed[s]) - u <= Len(handed[s]) /\ 1 \in Nat \ {0}
        BY <3>1, <3>2
      <4> QED
        BY <3>1, <4>1, Pieces
    <3>3. CASE u > Len(handed[s])
      <4>1. Len(handed[s]) - u \in Int /\ Len(handed[s]) - u < 1
        BY <3>1, <3>3
      <4>2. SubSeq(handed[s], 1, Len(handed[s]) - u) = << >>
        BY <4>1, SubSeqEmpty
      <4>3. << >> \in Seq(1 .. MaxRequest)
        OBVIOUS
      <4> QED
        BY <4>2, <4>3
    <3> QED
      BY <3>1, <3>2, <3>3
  <2>2. \/ handed' = handed
        \/ \E u \in 1 .. Head(sends[s]) - 1 :
             handed' = [handed EXCEPT ![s] = SubSeq(@, 1, Len(@) - u)]
    BY <1>9
  <2>3. handed \in [Session -> Seq(1 .. MaxRequest)]
    BY <1>2
  <2> QED
    BY <2>1, <2>2, <2>3
<1>12. TypeOK'
  <2>1. at' \in [IoThread -> Session]
    BY <1>2, <1>5 DEF Steps
  <2>2. sends' \in [Session -> Seq(Nat \ {0})]
    BY <1>2, <1>3, <1>7
  <2>3. transferred' \in [IoThread -> Nat]
    BY <1>2, <1>10
  <2> QED
    BY <1>1, <1>3, <1>11, <2>1, <2>2, <2>3, ControlledTypeStep DEF TypeOK, session, pool, lists
<1>13. LockInv'
  BY <1>1, <1>2, <1>3, <1>5, <1>6, LockKept DEF session
<1>14. LengthInv'
  <2>1. \A u \in IoThread \ {t} : at'[u] = at[u] /\ stage(u)' = stage(u)
    BY <1>5 DEF Steps, Moves
  <2>2. \A u \in IoThread \ {t} : transferred'[u] = transferred[u]
    BY <1>2, <1>10
  <2>3. mSendBuffer' = mSendBuffer
    BY <1>3 DEF session
  <2>4. ASSUME NEW u \in IoThread \ {t}
        PROVE  /\ stage(u)' \in Sending => transferred'[u] \in 1 .. Len(mSendBuffer'[at'[u]])
               /\ stage(u)' \in Sent => transferred'[u] >= 1
    BY <1>1, <2>1, <2>2, <2>3 DEF LengthInv
  <2>5. stage(t)' \notin Sending
    BY <1>6, <1>8
  <2>6. stage(t)' \in Sent => transferred'[t] >= 1
    <3>1. "end" \notin Sent
      BY DEF Sent
    <3> QED
      BY <1>2, <1>10, <3>1
  <2> QED
    BY <2>4, <2>5, <2>6 DEF LengthInv
<1>15. PendingInv'
  <2>1. mSendPendingCount' = mSendPendingCount
    BY <1>3 DEF session
  <2>2. Cardinality(Threads(s, Sent)) \in Nat
    BY ThreadsFinite
  <2>3. Cardinality(Threads(s, Sent)') \in
          {Cardinality(Threads(s, Sent)), Cardinality(Threads(s, Sent)) + 1}
    <3>1. at \in [IoThread -> Session]
      BY <1>2
    <3>2. CASE h \in Sent
      BY <1>5, <1>6, <3>1, <3>2, OneMore
    <3>3. CASE h \notin Sent
      BY <1>5, <1>6, <3>1, <3>3, SameThreads
    <3> QED
      BY <3>2, <3>3
  <2>4. ASSUME NEW r \in Session
        PROVE  Len(sends'[r]) + Cardinality(Threads(r, Sent)') <= mSendPendingCount[r]
    <3>1. Len(sends[r]) + Cardinality(Threads(r, Sent)) <= mSendPendingCount[r]
      BY <1>1 DEF PendingInv
    <3>2. CASE r = s
      <4>1. PICK a \in Nat, b \in Nat, c \in Nat :
               /\ a = Len(sends[s]) /\ b = Cardinality(Threads(s, Sent)) /\ c = mSendPendingCount[s]
        BY <1>2, <1>7, <2>2, ZenonT(30)
      <4>2. Len(sends'[s]) = a - 1
        BY <1>2, <1>3, <1>7, <4>1
      <4>3. Cardinality(Threads(s, Sent)') \in {b, b + 1}
        BY <2>3, <4>1
      <4>4. a + b <= c
        BY <3>1, <3>2, <4>1
      <4>5. Len(sends'[s]) + Cardinality(Threads(s, Sent)') <= mSendPendingCount[s]
        BY <4>1, <4>2, <4>3, <4>4
      <4> QED
        BY <3>2, <4>5
    <3>3. CASE r # s
      <4>1. Threads(r, Sent)' = Threads(r, Sent)
        <5>1. at \in [IoThread -> Session]
          BY <1>2
        <5> QED
          BY <1>5, <1>6, <3>3, <5>1, OtherThreads
      <4>2. sends'[r] = sends[r]
        BY <1>2, <1>3, <3>3
      <4> QED
        BY <3>1, <4>1, <4>2
    <3> QED
      BY <3>2, <3>3
  <2> QED
    BY <2>1, <2>4 DEF PendingInv
<1> QED
  BY <1>3, <1>12, <1>13, <1>14, <1>15 DEF Base

LEMMA IssueBase ==
  ASSUME Base, AcceptClientSessions
  PROVE  Base'
<1>1. TypeOK /\ Controlled /\ LockInv /\ LengthInv /\ PendingInv
  BY DEF Base
<1>2. UNCHANGED <<mConnected, mSendPendingCount, mSendBuffer, mSendBufferLock,
                  received, sends, handed, mLock, lists, thread, crashed, strayed>>
  BY DEF AcceptClientSessions
<1>3. /\ mFreeSessionList \in Seq(Session) /\ mRefCount \in [Session -> Int]
      /\ posted \in [Session -> SUBSET {"accept", "receive", "disconnect"}]
      /\ mCurrentIssueCount \in 0 .. MaxIssue /\ accepting \in BOOLEAN
  BY <1>1 DEF TypeOK
<1>4. TypeOK'
  <2>1. mFreeSessionList' \in Seq(Session)
    <3>1. /\ mFreeSessionList # << >>
          /\ mFreeSessionList' = SubSeq(mFreeSessionList, 1, Len(mFreeSessionList) - 1)
      BY DEF AcceptClientSessions
    <3>2. /\ Len(mFreeSessionList) - 1 \in Nat
          /\ Len(mFreeSessionList) - 1 <= Len(mFreeSessionList) /\ 1 \in Nat \ {0}
      BY <1>3, <3>1
    <3> QED
      BY <1>3, <3>1, <3>2, Pieces
  <2>2. mRefCount' \in [Session -> Int]
    <3>1. PICK s \in Session, n \in {1, 2} : mRefCount' = [mRefCount EXCEPT ![s] = @ + n]
      <4>1. mFreeSessionList[Len(mFreeSessionList)] \in Session
        BY <1>3 DEF AcceptClientSessions
      <4> QED
        BY <4>1 DEF AcceptClientSessions, AddRef
    <3> QED
      BY <1>3, <3>1
  <2>3. /\ posted' \in [Session -> SUBSET {"accept", "receive", "disconnect"}]
        /\ accepting' \in BOOLEAN
    BY <1>3 DEF AcceptClientSessions
  <2>4. mCurrentIssueCount' \in 0 .. MaxIssue
    BY <1>3, BoundAssumption DEF AcceptClientSessions
  <2> QED
    BY <1>1, <1>2, <2>1, <2>2, <2>3, <2>4 DEF TypeOK, lists, thread
<1>5. Controlled' /\ LockInv' /\ LengthInv' /\ PendingInv'
  <2>1. \A t \in IoThread : stage(t)' = stage(t)
    BY <1>2 DEF stage, thread
  <2>2. at' = at /\ transferred' = transferred /\ todo' = todo
    BY <1>2 DEF thread
  <2>3. \A r : Threads(r, Sent)' = Threads(r, Sent)
    BY <2>1, <2>2 DEF Threads
  <2>4. Controlled' /\ LockInv' /\ LengthInv'
    BY <1>1, <1>2, <2>1, <2>2 DEF Controlled, LockInv, LengthInv
  <2>5. PendingInv'
    BY <1>1, <1>2, <2>3 DEF PendingInv
  <2> QED
    BY <2>4, <2>5
<1> QED
  BY <1>4, <1>5 DEF Base

LEMMA StutterBase ==
  ASSUME Base, UNCHANGED vars
  PROVE  Base'
<1>1. /\ UNCHANGED session /\ UNCHANGED kernel /\ UNCHANGED pool /\ UNCHANGED lists
      /\ UNCHANGED thread /\ UNCHANGED crashed /\ UNCHANGED strayed
  BY DEF vars
<1>2. TypeOK'
  BY <1>1 DEF Base, TypeOK, session, kernel, pool, lists, thread
<1>3. \A t \in IoThread : stage(t)' = stage(t)
  BY <1>1 DEF stage, thread
<1>4. \A r : Threads(r, Sent)' = Threads(r, Sent)
  BY <1>1, <1>3 DEF Threads, thread
<1>5. Controlled' /\ LockInv' /\ LengthInv'
  BY <1>1, <1>3 DEF Base, Controlled, LockInv, LengthInv, session, thread
<1>6. PendingInv'
  BY <1>1, <1>4 DEF Base, PendingInv, session, kernel
<1> QED
  BY <1>2, <1>5, <1>6 DEF Base

\* Base is inductive, whether the run has strayed or not.
LEMMA BaseStep ==
  ASSUME Base, [Next]_vars
  PROVE  Base'
<1>1. CASE AcceptClientSessions
  BY <1>1, IssueBase
<1>2. CASE UNCHANGED vars
  BY <1>2, StutterBase
<1>3. ASSUME NEW t \in IoThread, Proceed(t) PROVE Base'
  BY <1>3, ReturnBase, ResetBase, BufferResetBase, ReleaseBase, DisconnectBase, TimeOutBase,
     AcceptBase, ReceiveBase, PreRecvBase, RequestBase, SendJobBase, FlushBase, StoredBase,
     WSASendBase, UnlockBase, CompletionBase
  DEF Proceed
<1>4. ASSUME NEW t \in IoThread, NEW s \in Session,
             GetCompletion(t, s) \/ GetSendCompletion(t, s)
      PROVE  Base'
  BY <1>4, GetBase, GetSendBase
<1> QED
  BY <1>1, <1>2, <1>3, <1>4 DEF Next

-----------------------------------------------------------------------------
(* What holds until the run has strayed.                                   *)
StageIo == {"accept", "disconnect"}
TwoRefs == {"accept", "last", "key", "keyFail"}
Refs == {"receive", "end", "sent", "sentEnd", "delete", "preRecv", "commit", "keyDisc", "keyUnlock",
         "post", "postFail"} \cup TwoRefs
Receiving == {"accept", "receive", "preRecv", "commit", "key", "keyFail", "keyDisc", "keyUnlock"}
Returning == {"return", "reset", "bufReset", "postReturn", "postReset", "postBufReset"}
Strange == {"lastReturn", "lastReset", "lastBufReset", "keyReturn", "keyReset", "keyBufReset"}
Handling == Sending \cup Sent

\* The references that the posted contexts P, and a thread in stage g, answer for.
Booked(P) == Cardinality(P) + Cardinality(P \cap StageIo)
Weight(g) == IF g \in TwoRefs THEN 2 ELSE IF g \in Refs THEN 1 ELSE 0
Held(s) == Cardinality(Threads(s, Refs)) + Cardinality(Threads(s, TwoRefs))
Need(s) == Booked(posted[s]) + Len(sends[s]) + mConnected[s] + Held(s)

RefOK(s) == Need(s) <= mRefCount[s]

StageOK(s) ==
  /\ mConnected[s] = 1 => posted[s] \cap StageIo = {} /\ Threads(s, {"accept"}) = {}
  /\ "disconnect" \in posted[s] => "accept" \notin posted[s] /\ Threads(s, {"accept"}) = {}

TokenOK(s) ==
  /\ ~({"accept", "receive"} \subseteq posted[s])
  /\ "accept" \in posted[s] \/ "receive" \in posted[s] => Threads(s, Receiving) = {}
  /\ \A t, u \in Threads(s, Receiving) : t = u

InPool(s) == \E i \in DOMAIN mFreeSessionList : mFreeSessionList[i] = s

PoolOK(s) ==
  /\ Threads(s, Strange) = {}
  /\ InPool(s) => mRefCount[s] = 0 /\ Threads(s, Returning) = {} /\ received[s] = 0
  /\ Threads(s, Returning) # {} => mRefCount[s] = 0
  /\ \A t, u \in Threads(s, Returning) : t = u

PoolOnce ==
  \A i, j \in DOMAIN mFreeSessionList : mFreeSessionList[i] = mFreeSessionList[j] => i = j

\* No packet of this connection was answered yet.
Early(s) == received[s] = 0 \/ (received[s] = 1 /\ Threads(s, {"commit"}) # {})

EarlyOK(s) ==
  /\ Early(s) => /\ mSendBuffer[s] = << >> /\ handed[s] = << >> /\ sends[s] = << >>
                 /\ Threads(s, Handling) = {}
  /\ "accept" \in posted[s] \/ Threads(s, {"accept"}) # {} => received[s] = 0
  /\ Threads(s, {"commit"}) # {} => received[s] >= 1

SendOK(s) ==
  /\ Len(sends[s]) <= 1
  /\ sends[s] # << >> => Threads(s, Handling) = {}
  /\ \A t, u \in Threads(s, Handling) : t = u

Rising(q) == \A i, j \in DOMAIN q : i < j => q[i] < q[j]

\* The number of the last packet whose reply can be in the buffer.
Seen(s) == IF Threads(s, {"commit"}) # {} THEN received[s] - 1 ELSE received[s]

\* The buffer starts with the last n packets handed over, and the others are older.
OrderedBy(buffer, sent, n) ==
  /\ n <= Len(buffer) /\ n <= Len(sent)
  /\ \A i \in 1 .. Len(sent) - n : \A j \in 1 .. Len(buffer) : sent[i] < buffer[j]
  /\ \A j \in 1 .. n : sent[Len(sent) - n + j] = buffer[j]
Ordered(s, n) == OrderedBy(mSendBuffer[s], handed[s], n)

\* A send failed, and the count it leaves keeps the others waiting.
Blocked(s) == mSendPendingCount[s] > 0 /\ Threads(s, Handling) = {} /\ ~Early(s)

OrderOK(s) ==
  /\ Rising(mSendBuffer[s]) /\ Rising(handed[s])
  /\ \A i \in 1 .. Len(mSendBuffer[s]) : mSendBuffer[s][i] <= Seen(s)
  /\ \A i \in 1 .. Len(handed[s]) : handed[s][i] <= Seen(s)
FlightOK(s) ==
  /\ sends[s] # << >> => Ordered(s, Head(sends[s]))
  /\ \A t \in Threads(s, Sent) : Ordered(s, transferred[t])
  /\ sends[s] = << >> /\ Threads(s, Sent) = {} => Ordered(s, 0) \/ Blocked(s)

\* The stages that end the connection later on.
Ending ==
  {"end", "sentEnd", "keyFail", "keyDisc", "flushDisc", "postFail", "postDisc",
   "postReturn", "postReset", "postBufReset", "keyReturn", "keyReset", "keyBufReset"}

\* The places of s on the lists of a thread, the flush it begins and the n packets it posts.
Entries(q, s) == {i \in 1 .. Len(q) : q[i] = s}
Count(q, s) == Cardinality(Entries(q, s))
Spots(request, failed, s, flushing, n) ==
  (({"request"} \X Entries(request, s)) \cup ({"failed"} \X Entries(failed, s)))
    \cup (({"flush"} \X (1 .. flushing)) \cup ({"send"} \X (1 .. n)))

Flushing(t, s) == IF at[t] = s /\ stage(t) \in {"flush", "flushLocked"} THEN 1 ELSE 0
Posted(t, s) == IF at[t] = s /\ stage(t) \in Sending THEN transferred[t] ELSE 0
SpotsOf(s) ==
  [t \in IoThread |-> Spots(LSendRequestSessionList[t], LSendRequestFailedSessionList[t],
                           s, Flushing(t, s), Posted(t, s))]
Union(F) == UNION {{t} \X F[t] : t \in DOMAIN F}
Listed(s) == Union(SpotsOf(s))
Number(t, s) ==
  Count(LSendRequestSessionList[t], s) + Count(LSendRequestFailedSessionList[t], s)
    + Flushing(t, s) + Posted(t, s)

ListedOK(s) ==
  mConnected[s] = 1 /\ Threads(s, Ending) = {} =>
    Cardinality(Waiting(s)) <= Cardinality(Listed(s))

GoodAt(s) ==
  /\ RefOK(s) /\ StageOK(s) /\ TokenOK(s) /\ PoolOK(s)
  /\ EarlyOK(s) /\ SendOK(s) /\ OrderOK(s) /\ FlightOK(s) /\ ListedOK(s)

Good == ~crashed /\ PoolOnce /\ \A s \in Session : GoodAt(s)

IInv == Base /\ (strayed \/ Good)

\* A thread that rests is in none of the sets of stages.
LEMMA StageSets ==
  /\ Refs \cap Resting = {} /\ TwoRefs \cap Resting = {} /\ Receiving \cap Resting = {}
  /\ Returning \cap Resting = {} /\ Strange \cap Resting = {} /\ Handling \cap Resting = {}
  /\ Sent \cap Resting = {} /\ Sending \cap Resting = {}
  /\ {"accept"} \cap Resting = {} /\ {"commit"} \cap Resting = {} /\ Ending \cap Resting = {}
<1>1. Refs \cap Resting = {} /\ TwoRefs \cap Resting = {} /\ Receiving \cap Resting = {}
  BY DEF Refs, TwoRefs, Receiving, Resting
<1>2. Returning \cap Resting = {} /\ Strange \cap Resting = {}
  BY DEF Returning, Strange, Resting
<1>3. /\ Handling \cap Resting = {} /\ Sent \cap Resting = {} /\ Sending \cap Resting = {}
      /\ {"accept"} \cap Resting = {} /\ {"commit"} \cap Resting = {} /\ Ending \cap Resting = {}
  BY DEF Handling, Sent, Sending, Ending, Resting
<1> QED
  BY <1>1, <1>2, <1>3

\* What a step changes in the references the threads answer for.
LEMMA HeldStep ==
  ASSUME NEW t \in IoThread, NEW s, NEW g, NEW h, at \in [IoThread -> Session], Steps(t, s, g, h)
  PROVE  \E a \in Nat : Held(s) = a + Weight(g) /\ Held(s)' = a + Weight(h)
<1>1. PICK a1 \in Nat, b1 \in Nat : /\ a1 = Cardinality(Threads(s, Refs))
                                    /\ b1 = Cardinality(Threads(s, TwoRefs))
  BY ThreadsFinite
<1>2. PICK a2 \in Nat, b2 \in Nat : /\ a2 = Cardinality(Threads(s, Refs)')
                                    /\ b2 = Cardinality(Threads(s, TwoRefs)')
  BY ThreadsCount, StageSets
<1>3. /\ g \in Refs /\ h \in Refs => a2 = a1
      /\ g \notin Refs /\ h \notin Refs => a2 = a1
      /\ g \in Refs /\ h \notin Refs => a2 = a1 - 1
      /\ g \notin Refs /\ h \in Refs => a2 = a1 + 1
  BY <1>1, <1>2, ThreadsCount, StageSets
<1>4. /\ g \in TwoRefs /\ h \in TwoRefs => b2 = b1
      /\ g \notin TwoRefs /\ h \notin TwoRefs => b2 = b1
      /\ g \in TwoRefs /\ h \notin TwoRefs => b2 = b1 - 1
      /\ g \notin TwoRefs /\ h \in TwoRefs => b2 = b1 + 1
  BY <1>1, <1>2, ThreadsCount, StageSets
<1>5. Held(s) = a1 + b1 /\ Held(s)' = a2 + b2
  BY <1>1, <1>2 DEF Held
<1>6. /\ g \in TwoRefs => g \in Refs
      /\ h \in TwoRefs => h \in Refs
  BY DEF Refs
<1>7. /\ Weight(g) \in {0, 1, 2} /\ Weight(h) \in {0, 1, 2}
      /\ a2 + b2 = a1 + b1 - Weight(g) + Weight(h) 
  <2>1. /\ a2 = (a1 - (IF g \in Refs THEN 1 ELSE 0)) + (IF h \in Refs THEN 1 ELSE 0)
        /\ b2 = (b1 - (IF g \in TwoRefs THEN 1 ELSE 0)) + (IF h \in TwoRefs THEN 1 ELSE 0)
    BY <1>3, <1>4
  <2> QED
    BY <1>6, <2>1 DEF Weight
<1>8. a1 + b1 >= Weight(g)
  <2>1. (g \in Refs => a1 > 0) /\ (g \in TwoRefs => b1 > 0)
    <3>1. g \in Refs => g \in Refs /\ t \in Threads(s, Refs)
      BY ThreadsStep, StageSets
    <3>2. g \in TwoRefs => t \in Threads(s, TwoRefs)
      BY ThreadsStep, StageSets
    <3> QED
      BY <1>1, <3>1, <3>2, ThreadsFinite, FS_EmptySet
  <2> QED
    BY <1>6, <2>1 DEF Weight
<1> DEFINE a == a1 + b1 - Weight(g)
<1>9. a \in Nat /\ Held(s) = a + Weight(g) /\ Held(s)' = a + Weight(h)
  BY <1>5, <1>7, <1>8
<1> QED
  BY <1>9

\* The references of one more posted context.
LEMMA BookedAdd ==
  ASSUME NEW P \in SUBSET {"accept", "receive", "disconnect"},
         NEW c \in {"accept", "receive", "disconnect"}
  PROVE  /\ Booked(P) \in Nat
         /\ Booked(P \cup {c}) <= Booked(P) + (IF c \in StageIo THEN 2 ELSE 1)
         /\ c \in P => Booked(P \ {c}) = Booked(P) - (IF c \in StageIo THEN 2 ELSE 1)
         /\ Booked(P) = 0 => P = {}
<1>1. IsFiniteSet({"accept", "receive", "disconnect"})
  <2>1. ASSUME NEW x, NEW y, NEW z PROVE IsFiniteSet({x, y, z})
    <3>1. IsFiniteSet({x})
      BY FS_Singleton
    <3>2. IsFiniteSet({x} \cup {y})
      BY <3>1, FS_AddElement
    <3>3. IsFiniteSet(({x} \cup {y}) \cup {z})
      BY <3>2, FS_AddElement
    <3>4. {x, y, z} = ({x} \cup {y}) \cup {z}
      OBVIOUS
    <3> QED
      BY <3>3, <3>4
  <2> QED
    BY <2>1
<1>2. IsFiniteSet(P) /\ Cardinality(P) \in Nat
  BY <1>1, FS_Subset, FS_CardinalityType
<1>3. IsFiniteSet(P \cap StageIo) /\ Cardinality(P \cap StageIo) \in Nat
  BY <1>2, FS_Intersection, FS_CardinalityType
<1>4. Booked(P \cup {c}) <= Booked(P) + (IF c \in StageIo THEN 2 ELSE 1)
  <2>1. (P \cup {c}) \cap StageIo =
          IF c \in StageIo THEN (P \cap StageIo) \cup {c} ELSE P \cap StageIo
    OBVIOUS
  <2>2. Cardinality(P \cup {c}) \in {Cardinality(P), Cardinality(P) + 1}
    BY <1>2, FS_AddElement
  <2>3. Cardinality((P \cap StageIo) \cup {c}) \in
          {Cardinality(P \cap StageIo), Cardinality(P \cap StageIo) + 1}
    BY <1>3, FS_AddElement
  <2> QED
    BY <1>2, <1>3, <2>1, <2>2, <2>3 DEF Booked
<1>5. ASSUME c \in P PROVE Booked(P \ {c}) = Booked(P) - (IF c \in StageIo THEN 2 ELSE 1)
  <2>1. (P \ {c}) \cap StageIo = IF c \in StageIo THEN (P \cap StageIo) \ {c} ELSE P \cap StageIo
    OBVIOUS
  <2>2. Cardinality(P \ {c}) = Cardinality(P) - 1
    BY <1>2, <1>5, FS_RemoveElement
  <2>3. c \in StageIo => Cardinality((P \cap StageIo) \ {c}) = Cardinality(P \cap StageIo) - 1
    BY <1>3, <1>5, FS_RemoveElement
  <2> QED
    BY <1>2, <1>3, <2>1, <2>2, <2>3 DEF Booked
<1>6. Booked(P) = 0 => P = {}
  BY <1>2, <1>3, FS_EmptySet DEF Booked
<1> QED
  BY <1>2, <1>3, <1>4, <1>5, <1>6 DEF Booked

\* How often s is on a list that grows or shrinks by one.
LEMMA CountAppend ==
  ASSUME NEW q \in Seq(Session), NEW x \in Session, NEW s
  PROVE  /\ Count(q, s) \in Nat
         /\ Count(Append(q, x), s) = Count(q, s) + (IF x = s THEN 1 ELSE 0)
<1>1. IsFiniteSet(Entries(q, s)) /\ Count(q, s) \in Nat
  <2>1. IsFiniteSet(1 .. Len(q))
    BY FS_Interval
  <2>2. Entries(q, s) \in SUBSET (1 .. Len(q))
    BY DEF Entries
  <2> QED
    BY <2>1, <2>2, FS_Subset, FS_CardinalityType DEF Count
<1>2. /\ Len(Append(q, x)) = Len(q) + 1 /\ Len(q) \in Nat
      /\ \A i \in 1 .. Len(q) : Append(q, x)[i] = q[i]
      /\ Append(q, x)[Len(q) + 1] = x
  OBVIOUS
<1>3. Entries(Append(q, x), s) = IF x = s THEN Entries(q, s) \cup {Len(q) + 1} ELSE Entries(q, s)
  BY <1>2 DEF Entries
<1>4. Len(q) + 1 \notin Entries(q, s)
  BY <1>2 DEF Entries
<1>5. IsFiniteSet(Entries(q, s)) =>
        Cardinality(Entries(q, s) \cup {Len(q) + 1}) = Cardinality(Entries(q, s)) + 1
  BY <1>4, FS_AddElement
<1>6. CASE x = s
  BY <1>1, <1>3, <1>5, <1>6 DEF Count
<1>7. CASE x # s
  BY <1>1, <1>3, <1>7 DEF Count
<1> QED
  BY <1>6, <1>7

LEMMA CountTail ==
  ASSUME NEW q \in Seq(Session), q # << >>, NEW s
  PROVE  /\ Count(Tail(q), s) \in Nat
         /\ Count(q, s) = Count(Tail(q), s) + (IF Head(q) = s THEN 1 ELSE 0)
<1>1. /\ Tail(q) \in Seq(Session) /\ Len(Tail(q)) = Len(q) - 1 /\ Len(q) \in Nat \ {0}
      /\ \A i \in 1 .. Len(q) - 1 : Tail(q)[i] = q[i + 1]
      /\ Head(q) = q[1]
  BY HeadTailProperties
<1> DEFINE A == Entries(Tail(q), s)
           B == {i \in 2 .. Len(q) : q[i] = s}
           f == [i \in A |-> i + 1]
<1>2. IsFiniteSet(A) /\ Cardinality(A) \in Nat
  <2>1. IsFiniteSet(1 .. Len(Tail(q)))
    BY <1>1, FS_Interval
  <2>2. A \in SUBSET (1 .. Len(Tail(q)))
    BY DEF Entries
  <2> QED
    BY <2>1, <2>2, FS_Subset, FS_CardinalityType
<1>3. f \in Bijection(A, B)
  <2>1. \A i \in A : i \in 1 .. Len(q) - 1 /\ q[i + 1] = s
    BY <1>1 DEF Entries
  <2>2. f \in [A -> B]
    BY <1>1, <2>1
  <2>3. \A i, j \in A : f[i] = f[j] => i = j
    BY <1>1, <2>1
  <2>4. \A k \in B : \E i \in A : f[i] = k
    <3> TAKE k \in B
    <3>1. k - 1 \in A
      BY <1>1 DEF Entries
    <3> WITNESS k - 1 \in A
    <3> QED
      BY <3>1
  <2> QED
    BY <2>2, <2>3, <2>4, Fun_IsBij
<1>4. IsFiniteSet(B) /\ Cardinality(B) = Cardinality(A)
  BY <1>2, <1>3, FS_Bijection, Fun_ExistsBij
<1>5. Entries(q, s) = IF Head(q) = s THEN B \cup {1} ELSE B
  BY <1>1 DEF Entries
<1>6. 1 \notin B
  OBVIOUS
<1> HIDE DEF B
<1>7. Cardinality(B \cup {1}) = Cardinality(B) + 1
  BY <1>4, <1>6, FS_AddElement
<1>8. Count(Tail(q), s) = Cardinality(A) /\ Count(q, s) = Cardinality(Entries(q, s))
  BY DEF Count
<1> HIDE DEF A
<1>9. CASE Head(q) = s
  BY <1>2, <1>4, <1>5, <1>7, <1>8, <1>9
<1>10. CASE Head(q) # s
  BY <1>2, <1>4, <1>5, <1>8, <1>10
<1> QED
  BY <1>9, <1>10

LEMMA CountNone == \A s : Count(<< >>, s) = 0
BY FS_EmptySet DEF Count, Entries

\* Sets of pairs with different tags have no common element.
LEMMA Tagged ==
  ASSUME NEW tag, NEW X, IsFiniteSet(X)
  PROVE  IsFiniteSet({tag} \X X) /\ Cardinality({tag} \X X) = Cardinality(X)
<1>1. IsFiniteSet({tag}) /\ Cardinality({tag}) = 1
  BY FS_Singleton
<1>2. Cardinality(X) \in Nat
  BY FS_CardinalityType
<1> QED
  BY <1>1, <1>2, FS_Product

\* Disjoint sets are counted one after the other.
LEMMA Disjoint ==
  ASSUME NEW X, NEW Y, IsFiniteSet(X), IsFiniteSet(Y), X \cap Y = {}
  PROVE  IsFiniteSet(X \cup Y) /\ Cardinality(X \cup Y) = Cardinality(X) + Cardinality(Y)
<1>1. Cardinality(X) \in Nat /\ Cardinality(Y) \in Nat /\ Cardinality(X \cap Y) = 0
  BY FS_CardinalityType, FS_EmptySet
<1>2. /\ IsFiniteSet(X \cup Y)
      /\ Cardinality(X \cup Y) = Cardinality(X) + Cardinality(Y) - Cardinality(X \cap Y)
  BY FS_Union
<1> QED
  BY <1>1, <1>2

\* The places of s with one thread, counted.
LEMMA SpotsNumber ==
  ASSUME NEW request \in Seq(Session), NEW failed \in Seq(Session), NEW s,
         NEW flushing \in Nat, NEW n \in Nat
  PROVE  /\ IsFiniteSet(Spots(request, failed, s, flushing, n))
         /\ Cardinality(Spots(request, failed, s, flushing, n)) =
              Count(request, s) + Count(failed, s) + flushing + n
<1> DEFINE A == {"request"} \X Entries(request, s)
           B == {"failed"} \X Entries(failed, s)
           C == {"flush"} \X (1 .. flushing)
           D == {"send"} \X (1 .. n)
<1>1. ASSUME NEW q \in Seq(Session) PROVE IsFiniteSet(Entries(q, s)) /\ Count(q, s) \in Nat
  <2>1. IsFiniteSet(1 .. Len(q))
    BY FS_Interval
  <2>2. Entries(q, s) \in SUBSET (1 .. Len(q))
    BY DEF Entries
  <2> QED
    BY <2>1, <2>2, FS_Subset, FS_CardinalityType DEF Count
<1>2. /\ IsFiniteSet(A) /\ Cardinality(A) = Count(request, s)
      /\ IsFiniteSet(B) /\ Cardinality(B) = Count(failed, s)
  BY <1>1, Tagged DEF Count
<1>3. IsFiniteSet(1 .. flushing) /\ Cardinality(1 .. flushing) = flushing
  BY FS_Interval
<1>4. IsFiniteSet(1 .. n) /\ Cardinality(1 .. n) = n
  BY FS_Interval
<1>5. /\ IsFiniteSet(C) /\ Cardinality(C) = flushing
      /\ IsFiniteSet(D) /\ Cardinality(D) = n
  BY <1>3, <1>4, Tagged
<1>6. A \cap B = {} /\ C \cap D = {} /\ (A \cup B) \cap (C \cup D) = {}
  OBVIOUS
<1> HIDE DEF A, B, C, D
<1>7. IsFiniteSet(A \cup B) /\ Cardinality(A \cup B) = Count(request, s) + Count(failed, s)
  BY <1>2, <1>6, Disjoint
<1>8. IsFiniteSet(C \cup D) /\ Cardinality(C \cup D) = flushing + n
  BY <1>5, <1>6, Disjoint
<1>9. /\ IsFiniteSet((A \cup B) \cup (C \cup D))
      /\ Cardinality((A \cup B) \cup (C \cup D)) =
           (Count(request, s) + Count(failed, s)) + (flushing + n)
  <2> DEFINE U == A \cup B
             V == C \cup D
  <2>1. /\ IsFiniteSet(U) /\ IsFiniteSet(V) /\ U \cap V = {}
        /\ Cardinality(U) = Count(request, s) + Count(failed, s) /\ Cardinality(V) = flushing + n
    BY <1>6, <1>7, <1>8
  <2> HIDE DEF U, V
  <2>2. IsFiniteSet(U \cup V) /\ Cardinality(U \cup V) = Cardinality(U) + Cardinality(V)
    BY <2>1, Disjoint
  <2>3. /\ IsFiniteSet(U \cup V)
        /\ Cardinality(U \cup V) = (Count(request, s) + Count(failed, s)) + (flushing + n)
    BY <2>1, <2>2
  <2> QED
    BY <2>3 DEF U, V
<1>10. Spots(request, failed, s, flushing, n) = (A \cup B) \cup (C \cup D)
  BY DEF Spots, A, B, C, D
<1> QED
  BY <1>1, <1>9, <1>10

\* Each thread's part of a union counts by itself.
LEMMA UnionPart ==
  ASSUME NEW F, DOMAIN F = IoThread, \A u \in IoThread : IsFiniteSet(F[u]), NEW t \in IoThread
  PROVE  LET rest == UNION {{u} \X F[u] : u \in IoThread \ {t}}
         IN  /\ Cardinality(rest) \in Nat
             /\ Cardinality(Union(F)) = Cardinality(rest) + Cardinality(F[t])
<1> DEFINE rest == UNION {{u} \X F[u] : u \in IoThread \ {t}}
<1>1. \A u \in IoThread : IsFiniteSet({u} \X F[u])
  BY Tagged
<1>2. IsFiniteSet(Union(F))
  <2> DEFINE S == {{u} \X F[u] : u \in IoThread}
             f == [u \in IoThread |-> {u} \X F[u]]
  <2>1. f \in Surjection(IoThread, S)
    BY Fun_IsSurj
  <2>2. IsFiniteSet(S)
    BY <2>1, ThreadAssumption, FS_Surjection
  <2>3. \A T \in S : IsFiniteSet(T)
    BY <1>1
  <2> HIDE DEF S, f
  <2>4. IsFiniteSet(UNION S)
    BY <2>2, <2>3, FS_UNION
  <2> QED
    BY <2>4 DEF S, Union
<1>3. Union(F) = rest \cup ({t} \X F[t]) /\ rest \cap ({t} \X F[t]) = {}
  BY DEF Union
<1>4. IsFiniteSet(rest) /\ Cardinality(rest) \in Nat
  BY <1>2, <1>3, FS_Subset, FS_CardinalityType
<1> HIDE DEF rest
<1>5. Cardinality({t} \X F[t]) = Cardinality(F[t]) /\ IsFiniteSet({t} \X F[t])
  BY Tagged
<1>6. Cardinality(Union(F)) = Cardinality(rest) + Cardinality(F[t])
  BY <1>3, <1>4, <1>5, Disjoint
<1> QED
  BY <1>4, <1>6 DEF rest

SpotsNumbered(s) ==
  /\ DOMAIN SpotsOf(s) = IoThread
  /\ \A u \in IoThread : /\ IsFiniteSet(SpotsOf(s)[u])
                        /\ Cardinality(SpotsOf(s)[u]) = Number(u, s)
                        /\ Number(u, s) \in Nat

\* The places of s are finitely many with every thread.
LEMMA SpotsFacts ==
  ASSUME NEW s
  PROVE  TypeOK => SpotsNumbered(s)
<1> SUFFICES ASSUME TypeOK PROVE SpotsNumbered(s)
  OBVIOUS
<1>1. DOMAIN SpotsOf(s) = IoThread
  BY DEF SpotsOf
<1>2. ASSUME NEW u \in IoThread
      PROVE  /\ IsFiniteSet(SpotsOf(s)[u])
             /\ Cardinality(SpotsOf(s)[u]) = Number(u, s)
             /\ Number(u, s) \in Nat
  <2>1. /\ LSendRequestSessionList[u] \in Seq(Session)
        /\ LSendRequestFailedSessionList[u] \in Seq(Session)
        /\ transferred[u] \in Nat
    BY DEF TypeOK
  <2>2. Flushing(u, s) \in Nat /\ Posted(u, s) \in Nat
    BY <2>1 DEF Flushing, Posted
  <2>3. /\ Count(LSendRequestSessionList[u], s) \in Nat
        /\ Count(LSendRequestFailedSessionList[u], s) \in Nat
    <3>1. ASSUME NEW q \in Seq(Session) PROVE Count(q, s) \in Nat
      <4>1. IsFiniteSet(1 .. Len(q)) /\ Entries(q, s) \in SUBSET (1 .. Len(q))
        BY FS_Interval DEF Entries
      <4> QED
        BY <4>1, FS_Subset, FS_CardinalityType DEF Count
    <3> QED
      BY <2>1, <3>1
  <2>4. SpotsOf(s)[u] = Spots(LSendRequestSessionList[u], LSendRequestFailedSessionList[u],
                              s, Flushing(u, s), Posted(u, s))
    BY DEF SpotsOf
  <2>5. /\ IsFiniteSet(SpotsOf(s)[u])
        /\ Cardinality(SpotsOf(s)[u]) =
             Count(LSendRequestSessionList[u], s) + Count(LSendRequestFailedSessionList[u], s)
               + Flushing(u, s) + Posted(u, s)
    BY <2>1, <2>2, <2>4, SpotsNumber
  <2> QED
    BY <2>2, <2>3, <2>5 DEF Number
<1> QED
  BY <1>1, <1>2 DEF SpotsNumbered

LEMMA SpotsFactsStep ==
  ASSUME NEW s
  PROVE  TypeOK' => SpotsNumbered(s)'
<1>1. TypeOK => SpotsNumbered(s)
  BY SpotsFacts
<1> QED
  BY <1>1, PTL

\* Only t's own places change when t alone moves.
LEMMA ListedStep ==
  ASSUME TypeOK, TypeOK', NEW t \in IoThread, NEW s,
         \A u \in IoThread \ {t} :
           /\ at'[u] = at[u] /\ stage(u)' = stage(u) /\ transferred'[u] = transferred[u]
           /\ LSendRequestSessionList'[u] = LSendRequestSessionList[u]
           /\ LSendRequestFailedSessionList'[u] = LSendRequestFailedSessionList[u]
  PROVE  \E k \in Nat : /\ Cardinality(Listed(s)) = k + Number(t, s)
                        /\ Cardinality(Listed(s)') = k + Number(t, s)'
                        /\ Number(t, s) \in Nat /\ Number(t, s)' \in Nat
<1>1. PICK F : F = SpotsOf(s)
  OBVIOUS
<1>2. PICK E : E = SpotsOf(s)'
  OBVIOUS
<1>3. /\ DOMAIN F = IoThread
      /\ \A u \in IoThread : IsFiniteSet(F[u])
      /\ Cardinality(F[t]) = Number(t, s) /\ Number(t, s) \in Nat
  BY <1>1, SpotsFacts DEF SpotsNumbered
<1>5. /\ DOMAIN E = IoThread
      /\ \A u \in IoThread : IsFiniteSet(E[u])
      /\ Cardinality(E[t]) = Number(t, s)' /\ Number(t, s)' \in Nat
  BY <1>2, SpotsFactsStep DEF SpotsNumbered
<1>6. \A u \in IoThread \ {t} : E[u] = F[u]
  <2> SUFFICES ASSUME NEW u \in IoThread \ {t} PROVE E[u] = F[u]
    OBVIOUS
  <2>1. F[u] = Spots(LSendRequestSessionList[u], LSendRequestFailedSessionList[u],
                     s, Flushing(u, s), Posted(u, s))
    BY <1>1 DEF SpotsOf
  <2>2. E[u] = Spots(LSendRequestSessionList'[u], LSendRequestFailedSessionList'[u],
                     s, Flushing(u, s)', Posted(u, s)')
    BY <1>2 DEF SpotsOf
  <2>3. Flushing(u, s)' = Flushing(u, s) /\ Posted(u, s)' = Posted(u, s)
    BY DEF Flushing, Posted
  <2> QED
    BY <2>1, <2>2, <2>3
<1>7. UNION {{u} \X F[u] : u \in IoThread \ {t}} = UNION {{u} \X E[u] : u \in IoThread \ {t}}
  BY <1>6
<1>8. PICK k \in Nat : /\ k = Cardinality(UNION {{u} \X F[u] : u \in IoThread \ {t}})
                       /\ Cardinality(Union(F)) = k + Cardinality(F[t])
  BY <1>3, UnionPart
<1>9. Cardinality(Union(E)) = k + Cardinality(E[t])
  BY <1>5, <1>7, <1>8, UnionPart
<1>10. Listed(s) = Union(F) /\ Listed(s)' = Union(E)
  BY <1>1, <1>2 DEF Listed
<1> QED
  BY <1>3, <1>5, <1>8, <1>9, <1>10

Counted(t, s) == Count(LSendRequestSessionList[t], s) + Count(LSendRequestFailedSessionList[t], s)

\* The session r is as it was.
Unmoved(r) ==
  /\ mConnected'[r] = mConnected[r] /\ mRefCount'[r] = mRefCount[r]
  /\ mSendPendingCount'[r] = mSendPendingCount[r] /\ mSendBuffer'[r] = mSendBuffer[r]
  /\ received'[r] = received[r] /\ sends'[r] = sends[r]
  /\ posted'[r] = posted[r] /\ handed'[r] = handed[r]

\* Thread t works on s, and changes no other session and no other thread.
Local(t, s, g, h) ==
  /\ Steps(t, s, g, h)
  /\ \A r \in Session \ {s} :
       /\ Unmoved(r)
       /\ (InPool(r)' <=> InPool(r))
       /\ Counted(t, r)' = Counted(t, r)
  /\ \A u \in IoThread \ {t} :
       /\ transferred'[u] = transferred[u]
       /\ LSendRequestSessionList'[u] = LSendRequestSessionList[u]
       /\ LSendRequestFailedSessionList'[u] = LSendRequestFailedSessionList[u]

\* An action at s keeps what is good of every other session.
LEMMA OtherSession ==
  ASSUME TypeOK, TypeOK', NEW t \in IoThread, NEW s \in Session, NEW g, NEW h, Local(t, s, g, h),
         NEW r \in Session, r # s, GoodAt(r)
  PROVE  GoodAt(r)'
<1>1. at \in [IoThread -> Session] /\ Steps(t, s, g, h)
  BY DEF TypeOK, Local
<1>2. Unmoved(r) /\ (InPool(r)' <=> InPool(r)) /\ Counted(t, r)' = Counted(t, r)
  <2>1. r \in Session \ {s}
    OBVIOUS
  <2> QED
    BY <2>1 DEF Local
<1>3. /\ Threads(r, Refs)' = Threads(r, Refs) /\ Threads(r, TwoRefs)' = Threads(r, TwoRefs)
      /\ Threads(r, {"accept"})' = Threads(r, {"accept"})
      /\ Threads(r, Receiving)' = Threads(r, Receiving)
      /\ Threads(r, Strange)' = Threads(r, Strange)
      /\ Threads(r, Returning)' = Threads(r, Returning)
      /\ Threads(r, {"commit"})' = Threads(r, {"commit"})
      /\ Threads(r, Handling)' = Threads(r, Handling)
      /\ Threads(r, Sent)' = Threads(r, Sent)
      /\ Threads(r, Ending)' = Threads(r, Ending)
  BY <1>1, StageSets, OtherThreads
<1>4. RefOK(r)' /\ StageOK(r)' /\ TokenOK(r)'
  BY <1>2, <1>3 DEF GoodAt, RefOK, Need, Held, StageOK, TokenOK, Unmoved
<1>5. PoolOK(r)'
  BY <1>2, <1>3 DEF GoodAt, PoolOK, Unmoved
<1>6. EarlyOK(r)' /\ SendOK(r)' /\ Early(r)' = Early(r)
  BY <1>2, <1>3 DEF GoodAt, EarlyOK, SendOK, Early, Unmoved
<1>7. OrderOK(r)'
  BY <1>2, <1>3 DEF GoodAt, OrderOK, Seen, Unmoved
<1>8. FlightOK(r)'
  <2>1. \A u \in Threads(r, Sent) : u # t
    <3>1. at[t] = r => stage(t) \in Resting
      BY <1>1 DEF Steps, Moves
    <3> QED
      BY <3>1, StageSets DEF Threads
  <2>2. \A u \in Threads(r, Sent) : u \in IoThread /\ transferred'[u] = transferred[u]
    BY <2>1 DEF Local, Threads
  <2>3. \A n : Ordered(r, n)' = Ordered(r, n)
    BY <1>2 DEF Ordered, Unmoved
  <2>4. Blocked(r)' <=> Blocked(r)
    BY <1>2, <1>3, <1>6 DEF Blocked, Unmoved
  <2> QED
    BY <1>2, <1>3, <2>2, <2>3, <2>4 DEF GoodAt, FlightOK, Unmoved
<1>9. ListedOK(r)'
  <2>1. Waiting(r)' = Waiting(r)
    BY <1>2 DEF Waiting, Unmoved
  <2>2. Flushing(t, r)' = Flushing(t, r) /\ Posted(t, r)' = Posted(t, r)
    <3>1. /\ at[t] = r => stage(t) \in Resting
          /\ at'[t] = s
      BY <1>1 DEF Steps, Moves
    <3>2. at[t] = r => stage(t) \notin {"flush", "flushLocked"} /\ stage(t) \notin Sending
      BY <3>1 DEF Resting, Sending
    <3> QED
      BY <3>1, <3>2 DEF Flushing, Posted
  <2>3. Number(t, r) = Counted(t, r) + Flushing(t, r) + Posted(t, r)
    BY DEF Number, Counted
  <2>4. Number(t, r)' = Counted(t, r)' + Flushing(t, r)' + Posted(t, r)'
    BY DEF Number, Counted
  <2>5. Number(t, r)' = Number(t, r)
    BY <1>2, <2>2, <2>3, <2>4
  <2>6. \A u \in IoThread \ {t} :
           /\ at'[u] = at[u] /\ stage(u)' = stage(u) /\ transferred'[u] = transferred[u]
           /\ LSendRequestSessionList'[u] = LSendRequestSessionList[u]
           /\ LSendRequestFailedSessionList'[u] = LSendRequestFailedSessionList[u]
    BY <1>1 DEF Local, Steps, Moves
  <2>7. Cardinality(Listed(r)') = Cardinality(Listed(r))
    BY <2>5, <2>6, ListedStep
  <2>8. mConnected'[r] = 1 /\ Threads(r, Ending)' = {} =>
          mConnected[r] = 1 /\ Threads(r, Ending) = {}
    BY <1>2, <1>3 DEF Unmoved
  <2> QED
    BY <2>1, <2>7, <2>8 DEF GoodAt, ListedOK
<1> QED
  BY <1>4, <1>5, <1>6, <1>7, <1>8, <1>9 DEF GoodAt


\* So a session is enough to look at.
LEMMA GoodStep ==
  ASSUME TypeOK, TypeOK', NEW t \in IoThread, NEW s \in Session, NEW g, NEW h, Local(t, s, g, h),
         Good, GoodAt(s)', PoolOnce', ~crashed'
  PROVE  Good'
<1>1. ASSUME NEW r \in Session PROVE GoodAt(r)'
  <2>1. CASE r = s
    BY <2>1
  <2>2. CASE r # s
    <3>1. GoodAt(r)
      BY DEF Good
    <3> QED
      BY <2>2, <3>1, OtherSession
  <2> QED
    BY <2>1, <2>2
<1> QED
  BY <1>1 DEF Good

\* The types of a session's state.
Typed(s) ==
  /\ mConnected[s] \in 0 .. 1 /\ mRefCount[s] \in Int /\ mSendPendingCount[s] \in Nat
  /\ received[s] \in 0 .. MaxRequest /\ mSendBuffer[s] \in Seq(1 .. MaxRequest)
  /\ handed[s] \in Seq(1 .. MaxRequest) /\ sends[s] \in Seq(Nat \ {0})
  /\ Len(sends[s]) \in Nat /\ posted[s] \in SUBSET {"accept", "receive", "disconnect"}
  /\ Booked(posted[s]) \in Nat

\* The types of what belongs to s.
LEMMA TypedSession ==
  ASSUME NEW s \in Session
  PROVE  TypeOK => Typed(s)
<1> SUFFICES ASSUME TypeOK PROVE Typed(s)
  OBVIOUS
<1>1. /\ mConnected[s] \in 0 .. 1 /\ mRefCount[s] \in Int /\ mSendPendingCount[s] \in Nat
      /\ received[s] \in 0 .. MaxRequest
  BY DEF TypeOK
<1>2. mSendBuffer[s] \in Seq(1 .. MaxRequest) /\ handed[s] \in Seq(1 .. MaxRequest)
  BY DEF TypeOK
<1>3. sends[s] \in Seq(Nat \ {0}) /\ posted[s] \in SUBSET {"accept", "receive", "disconnect"}
  BY DEF TypeOK
<1>4. Len(sends[s]) \in Nat
  BY <1>3
<1>5. Booked(posted[s]) \in Nat
  BY <1>3, BookedAdd
<1> QED
  BY <1>1, <1>2, <1>3, <1>4, <1>5 DEF Typed

LEMMA TypedSessionStep ==
  ASSUME NEW s \in Session
  PROVE  TypeOK' => Typed(s)'
<1>1. TypeOK => Typed(s)
  BY TypedSession
<1> QED
  BY <1>1, PTL

\* What a session's references are for, with a thread in stage g among their holders.
LEMMA NeedFacts ==
  ASSUME TypeOK, NEW t \in IoThread, NEW s \in Session, NEW g, NEW h, Steps(t, s, g, h), RefOK(s)
  PROVE  Booked(posted[s]) + Len(sends[s]) + mConnected[s] + Weight(g) <= mRefCount[s]
<1>1. at \in [IoThread -> Session]
  BY DEF TypeOK
<1>2. PICK a \in Nat : Held(s) = a + Weight(g)
  BY <1>1, HeldStep
<1>3. /\ Booked(posted[s]) \in Nat /\ mConnected[s] \in 0 .. 1 /\ mRefCount[s] \in Int
      /\ Len(sends[s]) \in Nat
  BY TypedSession DEF Typed
<1>4. Weight(g) \in Nat
  BY DEF Weight
<1> QED
  BY <1>2, <1>3, <1>4, SMTT(20) DEF RefOK, Need

\* The references are kept if the step takes and gives back as many as it should.
LEMMA RefKept ==
  ASSUME TypeOK, TypeOK', NEW t \in IoThread, NEW s \in Session, NEW g, NEW h, Steps(t, s, g, h),
         RefOK(s),
         Booked(posted'[s]) + Len(sends'[s]) + mConnected'[s] + Weight(h) - mRefCount'[s] <=
           Booked(posted[s]) + Len(sends[s]) + mConnected[s] + Weight(g) - mRefCount[s]
  PROVE  RefOK(s)'
<1>1. at \in [IoThread -> Session]
  BY DEF TypeOK
<1>2. /\ Booked(posted[s]) \in Nat /\ mConnected[s] \in 0 .. 1 /\ mRefCount[s] \in Int
      /\ Len(sends[s]) \in Nat
  BY TypedSession DEF Typed
<1>3. Typed(s)'
  BY TypedSessionStep
<1>4. /\ Booked(posted'[s]) \in Nat /\ mConnected'[s] \in 0 .. 1 /\ mRefCount'[s] \in Int
      /\ Len(sends'[s]) \in Nat
  BY <1>3 DEF Typed, Booked
<1>5. PICK a \in Nat : Held(s) = a + Weight(g) /\ Held(s)' = a + Weight(h)
  BY <1>1, HeldStep
<1>6. Weight(g) \in Nat /\ Weight(h) \in Nat
  BY DEF Weight
<1>7. Booked(posted[s]) + Len(sends[s]) + mConnected[s] + (a + Weight(g)) <= mRefCount[s]
  BY <1>5 DEF RefOK, Need
<1>8. PICK b \in Int : b = Booked(posted'[s]) + Len(sends'[s]) + mConnected'[s]
  BY <1>4
<1>9. PICK c \in Int : c = Booked(posted[s]) + Len(sends[s]) + mConnected[s]
  BY <1>2
<1>10. b + Weight(h) - mRefCount'[s] <= c + Weight(g) - mRefCount[s]
  BY <1>8, <1>9
<1>11. c + (a + Weight(g)) <= mRefCount[s]
  BY <1>7, <1>9
<1>12. b + (a + Weight(h)) <= mRefCount'[s]
  <2>1. PICK v \in Nat, w \in Nat : v = Weight(g) /\ w = Weight(h)
    BY <1>6
  <2>2. PICK m \in Int, n \in Int : m = mRefCount[s] /\ n = mRefCount'[s]
    BY <1>2, <1>4
  <2>3. b + w - n <= c + v - m /\ c + (a + v) <= m
    BY <1>10, <1>11, <2>1, <2>2
  <2>4. b + (a + w) <= n
    BY <2>3
  <2> QED
    BY <2>1, <2>2, <2>4
<1>13. Need(s)' = Booked(posted'[s]) + Len(sends'[s]) + mConnected'[s] + Held(s)'
  BY DEF Need, Booked
<1>14. Need(s)' = b + (a + Weight(h))
  BY <1>5, <1>8, <1>13
<1> QED
  BY <1>12, <1>14 DEF RefOK

\* What keeps the stage of the issue, the receive in progress and the pool.
LEMMA StageKept ==
  ASSUME NEW t \in IoThread, NEW s \in Session, NEW g, NEW h, at \in [IoThread -> Session],
         Steps(t, s, g, h), StageOK(s),
         mConnected'[s] = 1 => mConnected[s] = 1, posted'[s] \cap StageIo \subseteq posted[s],
         h = "accept" => g = "accept"
  PROVE  StageOK(s)'
<1>1. \A u \in Threads(s, {"accept"})' : u \in Threads(s, {"accept"})
  <2>1. /\ \A u \in IoThread : u \in Threads(s, {"accept"})' <=>
                  (u # t /\ u \in Threads(s, {"accept"})) \/ (u = t /\ h \in {"accept"})
        /\ t \in Threads(s, {"accept"}) <=> g \in {"accept"}
    BY StageSets, ThreadsStep
  <2>2. Threads(s, {"accept"})' \subseteq IoThread
    BY DEF Threads
  <2> QED
    BY <2>1, <2>2
<1> QED
  BY <1>1 DEF StageOK, StageIo

LEMMA TokenKept ==
  ASSUME NEW t \in IoThread, NEW s \in Session, NEW g, NEW h, at \in [IoThread -> Session],
         Steps(t, s, g, h), TokenOK(s),
         posted'[s] \cap {"accept", "receive"} \subseteq posted[s],
         h \in Receiving => g \in Receiving
  PROVE  TokenOK(s)'
<1>1. \A u \in Threads(s, Receiving)' : u \in Threads(s, Receiving)
  <2>1. /\ \A u \in IoThread : u \in Threads(s, Receiving)' <=>
                  (u # t /\ u \in Threads(s, Receiving)) \/ (u = t /\ h \in Receiving)
        /\ t \in Threads(s, Receiving) <=> g \in Receiving
    BY StageSets, ThreadsStep
  <2>2. Threads(s, Receiving)' \subseteq IoThread
    BY DEF Threads
  <2> QED
    BY <2>1, <2>2
<1>2. /\ "accept" \in posted'[s] => "accept" \in posted[s]
      /\ "receive" \in posted'[s] => "receive" \in posted[s]
  OBVIOUS
<1> QED
  BY <1>1, <1>2 DEF TokenOK

\* The thread that handles the one receive posts the next.
LEMMA TokenPosted ==
  ASSUME NEW t \in IoThread, NEW s \in Session, NEW g, NEW h, at \in [IoThread -> Session],
         Steps(t, s, g, h), TokenOK(s),
         posted'[s] = posted[s] \cup {"receive"}, g \in Receiving, h \notin Receiving
  PROVE  TokenOK(s)'
<1>1. /\ \A u \in IoThread : u \in Threads(s, Receiving)' <=>
                (u # t /\ u \in Threads(s, Receiving)) \/ (u = t /\ h \in Receiving)
      /\ (t \in Threads(s, Receiving) <=> g \in Receiving)
  <2>1. Receiving \cap Resting = {}
    BY StageSets
  <2> QED
    <3>1. PICK G : G = Receiving
      OBVIOUS
    <3>2. /\ \A u \in IoThread : u \in Threads(s, G)' <=>
                    (u # t /\ u \in Threads(s, G)) \/ (u = t /\ h \in G)
          /\ (t \in Threads(s, G) <=> g \in G)
      BY <2>1, <3>1, ThreadsStep
    <3> QED
      BY <3>1, <3>2
<1>2. Threads(s, Receiving)' \subseteq IoThread /\ Threads(s, Receiving) \subseteq IoThread
  BY DEF Threads
<1>3. Threads(s, Receiving)' = {}
  BY <1>1, <1>2 DEF TokenOK
<1>4. "accept" \notin posted[s]
  BY <1>1 DEF TokenOK
<1> QED
  BY <1>3, <1>4 DEF TokenOK

\* The thread that takes the posted receive, or accept, is the only one to handle it.
LEMMA TokenTaken ==
  ASSUME NEW t \in IoThread, NEW s \in Session, NEW g, NEW h, at \in [IoThread -> Session],
         Steps(t, s, g, h), TokenOK(s), NEW c \in {"accept", "receive"},
         c \in posted[s], posted'[s] = posted[s] \ {c}
  PROVE  TokenOK(s)'
<1>1. \A u \in IoThread : u \in Threads(s, Receiving)' <=>
                (u # t /\ u \in Threads(s, Receiving)) \/ (u = t /\ h \in Receiving)
  BY StageSets, ThreadsStep
<1>2. Threads(s, Receiving)' \subseteq IoThread /\ Threads(s, Receiving) = {}
  BY DEF Threads, TokenOK
<1>3. \A u \in Threads(s, Receiving)' : u = t
  BY <1>1, <1>2
<1>4. "accept" \notin posted'[s] /\ "receive" \notin posted'[s]
  BY DEF TokenOK
<1> QED
  BY <1>3, <1>4 DEF TokenOK

LEMMA PoolKept ==
  ASSUME NEW t \in IoThread, NEW s \in Session, NEW g, NEW h, at \in [IoThread -> Session],
         Steps(t, s, g, h), PoolOK(s), InPool(s)' => InPool(s),
         mRefCount'[s] = mRefCount[s], received'[s] = received[s],
         h \notin Strange, h \in Returning => g \in Returning
  PROVE  PoolOK(s)'
<1>1. \A G : G \cap Resting = {} =>
        /\ \A u \in IoThread : u \in Threads(s, G)' <=>
                (u # t /\ u \in Threads(s, G)) \/ (u = t /\ h \in G)
        /\ t \in Threads(s, G) <=> g \in G
  BY ThreadsStep, SMTT(20)
<1>2. \A G : Threads(s, G)' \subseteq IoThread /\ Threads(s, G) \subseteq IoThread
  BY DEF Threads
<1>3. Threads(s, Strange)' = {} /\ \A u \in Threads(s, Returning)' : u \in Threads(s, Returning)
  BY <1>1, <1>2, StageSets DEF PoolOK
<1> QED
  BY <1>3 DEF PoolOK

\* A session that is referenced is neither in the pool nor on its way there.
LEMMA PoolHeld ==
  ASSUME NEW t \in IoThread, NEW s \in Session, NEW g, NEW h, at \in [IoThread -> Session],
         Steps(t, s, g, h), PoolOK(s), InPool(s)' => InPool(s), mRefCount[s] \in Int,
         mRefCount[s] >= 1, h \notin Strange, h \in Returning => mRefCount'[s] = 0
  PROVE  PoolOK(s)'
<1>1. \A G : G \cap Resting = {} =>
        /\ \A u \in IoThread : u \in Threads(s, G)' <=>
                (u # t /\ u \in Threads(s, G)) \/ (u = t /\ h \in G)
        /\ t \in Threads(s, G) <=> g \in G
  BY ThreadsStep
<1>2. \A G : Threads(s, G)' \subseteq IoThread /\ Threads(s, G) \subseteq IoThread
  BY DEF Threads
<1>3. Threads(s, Strange)' = {} /\ ~InPool(s)' /\ Threads(s, Returning) = {}
  BY <1>1, <1>2, StageSets DEF PoolOK
<1>4. /\ \A u \in Threads(s, Returning)' : u = t
      /\ Threads(s, Returning)' # {} => h \in Returning
  BY <1>1, <1>2, <1>3, StageSets
<1> QED
  BY <1>3, <1>4 DEF PoolOK

\* What a step has to leave alone to keep the order of the replies.
Quiet(s, g, h) ==
  /\ received'[s] = received[s] /\ sends'[s] = sends[s] /\ handed'[s] = handed[s]
  /\ mSendBuffer'[s] = mSendBuffer[s] /\ mSendPendingCount'[s] = mSendPendingCount[s]
  /\ g # "commit" /\ h # "commit" /\ g \notin Handling /\ h \notin Handling

SendGood(s) == EarlyOK(s) /\ SendOK(s) /\ OrderOK(s) /\ FlightOK(s)

\* A quiet step keeps the order.
LEMMA QuietSend ==
  ASSUME NEW t \in IoThread, NEW s \in Session, NEW g, NEW h, at \in [IoThread -> Session],
         Steps(t, s, g, h), Quiet(s, g, h), transferred' = transferred, SendGood(s),
         "accept" \in posted'[s] \/ h = "accept" => received[s] = 0
  PROVE  SendGood(s)'
<1>1. /\ g \notin {"commit"} /\ h \notin {"commit"} /\ g \notin Sent /\ h \notin Sent
      /\ g \notin Handling /\ h \notin Handling
  BY DEF Quiet, Handling
<1>2. /\ Threads(s, {"commit"})' = Threads(s, {"commit"})
      /\ Threads(s, Handling)' = Threads(s, Handling)
      /\ Threads(s, Sent)' = Threads(s, Sent)
  <2>1. Threads(s, {"commit"})' = Threads(s, {"commit"})
    BY <1>1, StageSets, SameThreads
  <2>2. Threads(s, Handling)' = Threads(s, Handling)
    BY <1>1, StageSets, SameThreads
  <2>3. Threads(s, Sent)' = Threads(s, Sent)
    BY <1>1, StageSets, SameThreads
  <2> QED
    BY <2>1, <2>2, <2>3
<1>3. Threads(s, {"accept"})' # {} => Threads(s, {"accept"}) # {} \/ h = "accept"
  <2>1. /\ \A u \in IoThread : u \in Threads(s, {"accept"})' <=>
                  (u # t /\ u \in Threads(s, {"accept"})) \/ (u = t /\ h \in {"accept"})
    BY StageSets, ThreadsStep
  <2>2. Threads(s, {"accept"})' \subseteq IoThread
    BY DEF Threads
  <2> QED
    BY <2>1, <2>2
<1>4. Early(s)' <=> Early(s)
  BY <1>2 DEF Early, Quiet
<1>5. EarlyOK(s)'
  BY <1>2, <1>3, <1>4 DEF SendGood, EarlyOK, Quiet
<1>6. SendOK(s)'
  BY <1>2 DEF SendGood, SendOK, Quiet
<1>7. OrderOK(s)'
  BY <1>2 DEF SendGood, OrderOK, Seen, Quiet
<1>8. FlightOK(s)'
  <2>1. \A n : Ordered(s, n)' = Ordered(s, n)
    BY DEF Ordered, Quiet
  <2>2. Blocked(s)' <=> Blocked(s)
    BY <1>2, <1>4 DEF Blocked, Quiet
  <2>3. \A u : Ordered(s, transferred[u])' = Ordered(s, transferred[u])
    BY DEF Ordered, Quiet
  <2> QED
    BY <1>2, <2>1, <2>2, <2>3 DEF SendGood, FlightOK, Quiet
<1> QED
  BY <1>5, <1>6, <1>7, <1>8 DEF SendGood

LEMMA Elements ==
  ASSUME NEW S, NEW q \in Seq(S), NEW i \in DOMAIN q
  PROVE  q[i] \in S /\ i \in 1 .. Len(q) /\ Len(q) \in Nat
OBVIOUS

\* Packets are numbered from 1.
LEMMA Packets ==
  ASSUME NEW q \in Seq(1 .. MaxRequest)
  PROVE  /\ Len(q) \in Nat /\ DOMAIN q = 1 .. Len(q)
         /\ \A i \in 1 .. Len(q) : q[i] \in Nat /\ q[i] \in 1 .. MaxRequest
<1>1. Len(q) \in Nat /\ DOMAIN q = 1 .. Len(q)
  OBVIOUS
<1>2. ASSUME NEW i \in 1 .. Len(q) PROVE q[i] \in Nat /\ q[i] \in 1 .. MaxRequest
  <2>1. q[i] \in 1 .. MaxRequest
    BY <1>1, Elements
  <2>2. \A k \in 1 .. MaxRequest : k \in Nat
    BY BoundAssumption
  <2> QED
    BY <2>1, <2>2
<1> QED
  BY <1>1, <1>2

\* The packets that wait are finitely many, and none if the buffer is empty.
LEMMA WaitingFacts ==
  ASSUME NEW s \in Session
  PROVE  TypeOK => /\ IsFiniteSet(Waiting(s)) /\ Cardinality(Waiting(s)) \in Nat
                   /\ mSendBuffer[s] = << >> => Cardinality(Waiting(s)) = 0
<1> SUFFICES ASSUME TypeOK
             PROVE  /\ IsFiniteSet(Waiting(s)) /\ Cardinality(Waiting(s)) \in Nat
                    /\ mSendBuffer[s] = << >> => Cardinality(Waiting(s)) = 0
  OBVIOUS
<1>1. mSendBuffer[s] \in Seq(1 .. MaxRequest)
  BY TypedSession DEF Typed
<1>2. Waiting(s) \in SUBSET (1 .. MaxRequest)
  <2>1. \A i \in DOMAIN mSendBuffer[s] : mSendBuffer[s][i] \in 1 .. MaxRequest
    BY <1>1, Elements
  <2> QED
    BY <2>1 DEF Waiting, ToSet
<1>3. IsFiniteSet(1 .. MaxRequest)
  BY BoundAssumption, FS_Interval
<1>4. IsFiniteSet(Waiting(s)) /\ Cardinality(Waiting(s)) \in Nat
  BY <1>2, <1>3, FS_Subset, FS_CardinalityType
<1>5. mSendBuffer[s] = << >> => Waiting(s) = {}
  BY DEF Waiting, ToSet
<1> QED
  BY <1>4, <1>5, FS_EmptySet

WaitingCounted(s) ==
  /\ IsFiniteSet(Waiting(s)) /\ Cardinality(Waiting(s)) \in Nat
  /\ mSendBuffer[s] = << >> => Cardinality(Waiting(s)) = 0

LEMMA WaitingFactsStep ==
  ASSUME NEW s \in Session
  PROVE  TypeOK' => WaitingCounted(s)'
<1>1. TypeOK => WaitingCounted(s)
  BY WaitingFacts DEF WaitingCounted
<1> QED
  BY <1>1, PTL

\* The parts of Local that ListedStep needs.
LEMMA LocalListed ==
  ASSUME TypeOK, TypeOK', NEW t \in IoThread, NEW s \in Session, NEW g, NEW h, Local(t, s, g, h)
  PROVE  \E k \in Nat : /\ Cardinality(Listed(s)) = k + Number(t, s)
                        /\ Cardinality(Listed(s)') = k + Number(t, s)'
                        /\ Number(t, s) \in Nat /\ Number(t, s)' \in Nat
<1>1. \A u \in IoThread \ {t} :
           /\ at'[u] = at[u] /\ stage(u)' = stage(u) /\ transferred'[u] = transferred[u]
           /\ LSendRequestSessionList'[u] = LSendRequestSessionList[u]
           /\ LSendRequestFailedSessionList'[u] = LSendRequestFailedSessionList[u]
  BY DEF Local, Steps, Moves, TypeOK
<1> QED
  BY <1>1, ListedStep

\* A step after which there are not more packets waiting for lack of a place keeps ListedOK.
LEMMA ListedKept ==
  ASSUME TypeOK, TypeOK', NEW t \in IoThread, NEW s \in Session, NEW g, NEW h, Local(t, s, g, h),
         ListedOK(s),
         mConnected'[s] = 1 /\ h \notin Ending =>
           /\ mConnected[s] = 1 /\ g \notin Ending
           /\ Cardinality(Waiting(s)') - Number(t, s)' <= Cardinality(Waiting(s)) - Number(t, s)
  PROVE  ListedOK(s)'
<1> SUFFICES ASSUME mConnected'[s] = 1, Threads(s, Ending)' = {}
             PROVE  Cardinality(Waiting(s)') <= Cardinality(Listed(s)')
  BY DEF ListedOK
<1>1. at \in [IoThread -> Session] /\ Steps(t, s, g, h)
  BY DEF TypeOK, Local
<1>2. /\ \A u \in IoThread : u \in Threads(s, Ending)' <=>
                (u # t /\ u \in Threads(s, Ending)) \/ (u = t /\ h \in Ending)
      /\ (t \in Threads(s, Ending) <=> g \in Ending)
  <2>1. Ending \cap Resting = {}
    BY StageSets
  <2> QED
    BY <1>1, <2>1, ThreadsStep
<1>3. h \notin Ending
  BY <1>2
<1>4. Threads(s, Ending) = {}
  <2>1. Threads(s, Ending) \subseteq IoThread
    BY DEF Threads
  <2> QED
    BY <1>2, <1>3, <2>1
<1>5. PICK w \in Nat, x \in Nat : w = Cardinality(Waiting(s)) /\ x = Cardinality(Waiting(s)')
  <2>1. Cardinality(Waiting(s)) \in Nat
    BY WaitingFacts
  <2>2. Cardinality(Waiting(s)') \in Nat
    BY WaitingFactsStep DEF WaitingCounted
  <2> QED
    BY <2>1, <2>2
<1>6. PICK k \in Nat, m \in Nat, n \in Nat :
        /\ m = Number(t, s) /\ n = Number(t, s)'
        /\ Cardinality(Listed(s)) = k + m /\ Cardinality(Listed(s)') = k + n
  BY LocalListed
<1>7. x - n <= w - m
  BY <1>3, <1>5, <1>6
<1>8. w <= k + m
  BY <1>3, <1>4, <1>5, <1>6 DEF ListedOK
<1> QED
  BY <1>5, <1>6, <1>7, <1>8

\* Nothing waits in an empty buffer.
LEMMA ListedEmpty ==
  ASSUME TypeOK', NEW s \in Session, mSendBuffer'[s] = << >>
  PROVE  ListedOK(s)'
<1>1. Cardinality(Waiting(s)') = 0
  BY WaitingFactsStep DEF WaitingCounted
<1>2. DOMAIN SpotsOf(s)' = IoThread /\ \A u \in IoThread : IsFiniteSet(SpotsOf(s)'[u])
  BY SpotsFactsStep DEF SpotsNumbered
<1>3. Cardinality(Listed(s)') >= 0
  <2>1. CASE IoThread = {}
    <3>1. Listed(s)' = {}
      BY <1>2, <2>1 DEF Listed, Union
    <3> QED
      BY <3>1, FS_EmptySet
  <2>2. CASE IoThread # {}
    <3>1. PICK u \in IoThread : TRUE
      BY <2>2
    <3>2. PICK E : E = SpotsOf(s)'
      OBVIOUS
    <3>3. Cardinality(E[u]) \in Nat /\ DOMAIN E = IoThread /\ \A v \in IoThread : IsFiniteSet(E[v])
      BY <1>2, <3>2, FS_CardinalityType
    <3>4. PICK k \in Nat : Cardinality(Union(E)) = k + Cardinality(E[u])
      <4>1. LET rest == UNION {{v} \X E[v] : v \in IoThread \ {u}}
            IN  /\ Cardinality(rest) \in Nat
                /\ Cardinality(Union(E)) = Cardinality(rest) + Cardinality(E[u])
        BY <3>3, UnionPart
      <4> QED
        BY <4>1
    <3>5. Cardinality(Union(E)) >= 0
      BY <3>3, <3>4
    <3> QED
      BY <3>2, <3>5 DEF Listed
  <2> QED
    BY <2>1, <2>2
<1> QED
  BY <1>1, <1>3 DEF ListedOK

\* A closed or ending connection needs no place.
LEMMA ListedClosed ==
  ASSUME NEW s \in Session, mConnected'[s] # 1
  PROVE  ListedOK(s)'
BY DEF ListedOK

LEMMA CountedType ==
  ASSUME TypeOK, NEW t \in IoThread, NEW s \in Session
  PROVE  Counted(t, s) \in Nat
<1>1. /\ LSendRequestSessionList[t] \in Seq(Session)
      /\ LSendRequestFailedSessionList[t] \in Seq(Session)
  BY DEF TypeOK
<1>2. \A q \in Seq(Session) : Count(q, s) \in Nat
  BY CountAppend
<1> QED
  BY <1>1, <1>2 DEF Counted

\* A step that leaves the buffer, what was handed over and the lists alone.
LEMMA ListedSame ==
  ASSUME TypeOK, TypeOK', NEW t \in IoThread, NEW s \in Session, NEW g, NEW h, Local(t, s, g, h),
         ListedOK(s), mSendBuffer'[s] = mSendBuffer[s], handed'[s] = handed[s],
         Counted(t, s)' = Counted(t, s), mConnected'[s] = 1 => mConnected[s] = 1,
         h \notin Ending => g \notin Ending,
         g \in {"flush", "flushLocked"} => h \in {"flush", "flushLocked"} \cup Ending,
         g \notin Sending \/ h \in Ending
  PROVE  ListedOK(s)'
<1>1. Waiting(s)' = Waiting(s)
  BY DEF Waiting
<1>2. ASSUME h \notin Ending PROVE Number(t, s)' >= Number(t, s)
  <2>1. /\ Steps(t, s, g, h) /\ at \in [IoThread -> Session]
    BY DEF Local, TypeOK
  <2>2. at'[t] = s /\ stage(t)' = h /\ stage(t) = g
    BY <2>1 DEF Steps, Moves
  <2>3. /\ Flushing(t, s) \in {0, 1} /\ Flushing(t, s)' \in {0, 1}
        /\ Flushing(t, s) = 1 => Flushing(t, s)' = 1
    BY <1>2, <2>2 DEF Flushing
  <2>4. Posted(t, s) = 0 
    BY <1>2, <2>2 DEF Posted
  <2>5. Posted(t, s)' \in Nat
    <3>1. transferred'[t] \in Nat
      BY DEF TypeOK
    <3> QED
      BY <3>1 DEF Posted
  <2>6. Counted(t, s) \in Nat
    BY CountedType
  <2>7. Number(t, s) = Counted(t, s) + Flushing(t, s) + Posted(t, s)
    BY DEF Number, Counted
  <2>8. Number(t, s)' = Counted(t, s)' + Flushing(t, s)' + Posted(t, s)'
    BY DEF Number, Counted
  <2> QED
    BY <2>3, <2>4, <2>5, <2>6, <2>7, <2>8
<1>3. Cardinality(Waiting(s)) \in Nat /\ Number(t, s) \in Nat /\ Number(t, s)' \in Nat
  BY LocalListed, WaitingFacts
<1> QED
  BY <1>1, <1>2, <1>3, ListedKept

\* GoodAt taken apart and put together.
LEMMA GoodParts ==
  ASSUME Good, NEW s \in Session
  PROVE  /\ RefOK(s) /\ StageOK(s) /\ TokenOK(s) /\ PoolOK(s) /\ SendGood(s) /\ ListedOK(s)
         /\ PoolOnce /\ ~crashed
<1>1. GoodAt(s) /\ PoolOnce /\ ~crashed
  BY DEF Good
<1> QED
  BY <1>1 DEF GoodAt, SendGood

LEMMA GoodWhole ==
  ASSUME TypeOK, TypeOK', NEW t \in IoThread, NEW s \in Session, NEW g, NEW h, Local(t, s, g, h),
         Good, RefOK(s)', StageOK(s)', TokenOK(s)', PoolOK(s)', SendGood(s)', ListedOK(s)',
         PoolOnce', ~crashed'
  PROVE  Good'
<1>1. EarlyOK(s)' /\ SendOK(s)' /\ OrderOK(s)' /\ FlightOK(s)'
  BY DEF SendGood
<1>2. GoodAt(s)'
  BY <1>1 DEF GoodAt
<1> QED
  BY <1>2, GoodStep

LEMMA LocalAlone ==
  ASSUME NEW t \in IoThread, NEW s \in Session, NEW g, NEW h, Steps(t, s, g, h),
         \A r \in Session \ {s} : Unmoved(r), mFreeSessionList' = mFreeSessionList,
         LSendRequestSessionList' = LSendRequestSessionList,
         LSendRequestFailedSessionList' = LSendRequestFailedSessionList,
         \A u \in IoThread \ {t} : transferred'[u] = transferred[u]
  PROVE  /\ Local(t, s, g, h) /\ (InPool(s)' <=> InPool(s)) /\ Counted(t, s)' = Counted(t, s)
         /\ (PoolOnce' <=> PoolOnce)
<1>1. \A r : Counted(t, r)' = Counted(t, r)
  BY DEF Counted
<1>2. \A r : InPool(r)' <=> InPool(r)
  BY DEF InPool
<1>3. PoolOnce' <=> PoolOnce
  BY DEF PoolOnce
<1> QED
  BY <1>1, <1>2, <1>3 DEF Local

\* The thread moves on, and nothing that matters to a session changes.
Still ==
  /\ UNCHANGED <<mConnected, mRefCount, mSendPendingCount, mSendBuffer, kernel,
                 mFreeSessionList, transferred>>
  /\ ~crashed'

Calm(g, h) ==
  /\ Weight(h) <= Weight(g)
  /\ h \in Receiving => g \in Receiving
  /\ h # "accept" /\ h \notin Strange
  /\ h \in Returning => g \in Returning
  /\ g # "commit" /\ h # "commit" /\ g \notin Handling /\ h \notin Handling
  /\ h \notin Ending => g \notin Ending

\* A step between calm stages keeps Good.
LEMMA StillGood ==
  ASSUME TypeOK, TypeOK', NEW t \in IoThread, NEW s \in Session, NEW g, NEW h, Local(t, s, g, h),
         Good, Still, Calm(g, h), ListedOK(s)'
  PROVE  Good'
<1>1. /\ RefOK(s) /\ StageOK(s) /\ TokenOK(s) /\ PoolOK(s) /\ SendGood(s)
      /\ PoolOnce /\ ~crashed /\ Steps(t, s, g, h)
  BY GoodParts DEF Local
<1>2. at \in [IoThread -> Session]
  BY DEF TypeOK
<1>3. Unmoved(s)
  BY DEF Unmoved, Still, kernel
<1>4. (InPool(s)' <=> InPool(s)) /\ PoolOnce'
  BY <1>1 DEF Still, InPool, PoolOnce
<1>5. Weight(g) \in Nat /\ Weight(h) \in Nat /\ Weight(h) <= Weight(g)
  BY DEF Weight, Calm
<1>6. RefOK(s)'
  <2>1. /\ Booked(posted[s]) \in Nat /\ Len(sends[s]) \in Nat /\ mConnected[s] \in 0 .. 1
        /\ mRefCount[s] \in Int
    BY TypedSession DEF Typed
  <2>2. /\ posted' = posted /\ sends' = sends /\ mConnected' = mConnected /\ mRefCount' = mRefCount
    BY DEF Still, kernel
  <2>3. Booked(posted'[s]) + Len(sends'[s]) + mConnected'[s] + Weight(h) - mRefCount'[s] <=
           Booked(posted[s]) + Len(sends[s]) + mConnected[s] + Weight(g) - mRefCount[s]
    BY <1>5, <2>1, <2>2, SMTT(20)
  <2> QED
    BY <1>1, <2>3, RefKept
<1>7. StageOK(s)' /\ TokenOK(s)'
  BY <1>1, <1>2, <1>3, StageKept, TokenKept DEF Unmoved, Calm
<1>8. PoolOK(s)'
  BY <1>1, <1>2, <1>3, <1>4, PoolKept DEF Unmoved, Calm
<1>9. SendGood(s)'
  <2>1. Quiet(s, g, h) /\ transferred' = transferred
    BY DEF Quiet, Still, kernel, Calm
  <2>2. "accept" \in posted'[s] \/ h = "accept" => received[s] = 0
    BY <1>1, <1>3 DEF SendGood, EarlyOK, Unmoved, Calm
  <2> QED
    BY <1>1, <1>2, <2>1, <2>2, QuietSend
<1>10. ~crashed'
  BY DEF Still
<1> QED
  BY <1>1, <1>4, <1>6, <1>7, <1>8, <1>9, <1>10, GoodWhole

LEMMA StillKeeps ==
  ASSUME TypeOK, TypeOK', NEW t \in IoThread, NEW s \in Session, NEW g, NEW h, Steps(t, s, g, h),
         Good, Still, UNCHANGED lists, Calm(g, h),
         g \in {"flush", "flushLocked"} => h \in {"flush", "flushLocked"} \cup Ending
  PROVE  Good'
<1>1. ListedOK(s)
  BY GoodParts
<1>2. \A r \in Session : Unmoved(r)
  BY DEF Unmoved, Still, kernel
<1>3. Local(t, s, g, h) /\ Counted(t, s)' = Counted(t, s)
  BY <1>2, LocalAlone DEF Still, lists
<1>4. ListedOK(s)'
  <2>1. g \notin Sending
    BY DEF Calm, Handling
  <2> QED
    BY <1>1, <1>2, <1>3, <2>1, ListedSame DEF Unmoved, Calm
<1> QED
  BY <1>3, <1>4, StillGood

\* Good is kept by the actions that only move on.
LEMMA TimeOutGood ==
  ASSUME Base, Base', Good, NEW t \in IoThread, TimeOut(t)
  PROVE  Good'
<1>1. at[t] \in Session /\ Steps(t, at[t], "idle", "job") /\ TypeOK /\ TypeOK'
  BY TimeOutSteps DEF Base
<1>2. Still /\ UNCHANGED lists
  BY DEF TimeOut, Still, Good, session, kernel, pool
<1>3. Calm("idle", "job")
  BY DEF Calm, Weight, Refs, TwoRefs, Receiving, Strange, Returning, Handling, Sending, Sent, Ending
<1> QED
  BY <1>1, <1>2, <1>3, StillKeeps

LEMMA FlushGood ==
  ASSUME Base, Base', Good, NEW t \in IoThread, FlushSend(t)
  PROVE  Good'
<1>1. /\ at[t] \in Session /\ TypeOK /\ TypeOK'
      /\ Steps(t, at[t], "flush", "flushDisc") \/ Steps(t, at[t], "flush", "flushLocked")
  BY FlushSteps DEF Base
<1>2. Still /\ UNCHANGED lists
  BY DEF FlushSend, Still, Good, session, kernel, pool
<1>3. Calm("flush", "flushDisc") /\ Calm("flush", "flushLocked")
  BY DEF Calm, Weight, Refs, TwoRefs, Receiving, Strange, Returning, Handling, Sending, Sent, Ending
<1>4. "flushDisc" \in Ending
  BY DEF Ending
<1> QED
  BY <1>1, <1>2, <1>3, <1>4, StillKeeps

LEMMA UnlockGood ==
  ASSUME Base, Base', Good, NEW t \in IoThread, Unlock(t)
  PROVE  Good'
<1>1. /\ at[t] \in Session /\ TypeOK /\ TypeOK'
      /\ Steps(t, at[t], "keyUnlock", "preRecv") \/ Steps(t, at[t], "postUnlock", "job")
  BY UnlockSteps DEF Base
<1>2. Still /\ UNCHANGED lists
  BY DEF Unlock, Still, Good, kernel, pool
<1>3. Calm("keyUnlock", "preRecv") /\ Calm("postUnlock", "job")
  BY DEF Calm, Weight, Refs, TwoRefs, Receiving, Strange, Returning, Handling, Sending, Sent, Ending
<1> QED
  BY <1>1, <1>2, <1>3, StillKeeps

\* A session that is being returned is unreferenced, and the thread does nothing else.
LEMMA ReturnedFacts ==
  ASSUME TypeOK, NEW t \in IoThread, NEW s \in Session, NEW g, NEW h, Steps(t, s, g, h),
         RefOK(s), PoolOK(s), g \in Returning
  PROVE  /\ mRefCount[s] = 0 /\ mConnected[s] = 0 /\ sends[s] = << >> /\ posted[s] = {}
         /\ Threads(s, Refs) = {}
<1>1. at \in [IoThread -> Session]
  BY DEF TypeOK
<1>2. t \in Threads(s, Returning)
  BY <1>1, StageSets, ThreadsStep
<1>3. mRefCount[s] = 0
  BY <1>2 DEF PoolOK
<1>4. /\ Booked(posted[s]) \in Nat /\ mConnected[s] \in 0 .. 1 /\ mRefCount[s] \in Int
      /\ Len(sends[s]) \in Nat /\ sends[s] \in Seq(Nat \ {0})
      /\ posted[s] \in SUBSET {"accept", "receive", "disconnect"}
  BY TypedSession DEF Typed
<1>5. PICK a \in Nat, b \in Nat :
        a = Cardinality(Threads(s, Refs)) /\ b = Cardinality(Threads(s, TwoRefs))
  BY ThreadsFinite
<1>6. Booked(posted[s]) + Len(sends[s]) + mConnected[s] + (a + b) <= mRefCount[s]
  BY <1>5 DEF RefOK, Need, Held
<1>7. Booked(posted[s]) = 0 /\ Len(sends[s]) = 0 /\ mConnected[s] = 0 /\ a = 0
  BY <1>3, <1>4, <1>6
<1>8. sends[s] = << >>
  BY <1>4, <1>7
<1>9. posted[s] = {}
  BY <1>4, <1>7, BookedAdd
<1>10. Threads(s, Refs) = {}
  BY <1>5, <1>7, ThreadsFinite, FS_EmptySet
<1> QED
  BY <1>3, <1>7, <1>8, <1>9, <1>10

\* Only plain returns happen.
LEMMA NotStrange ==
  ASSUME TypeOK, NEW t \in IoThread, NEW s \in Session, NEW g, NEW h, Steps(t, s, g, h),
         PoolOK(s)
  PROVE  g \notin Strange
<1>1. at \in [IoThread -> Session]
  BY DEF TypeOK
<1>2. Strange \cap Resting = {} /\ Threads(s, Strange) = {}
  BY StageSets DEF PoolOK
<1>3. t \in Threads(s, Strange) <=> g \in Strange
  BY <1>1, <1>2, ThreadsStep
<1> QED
  BY <1>2, <1>3

\* Good is kept by the return of a session to the pool.
LEMMA ReturnGood ==
  ASSUME Base, Base', Good, NEW t \in IoThread, ReturnClientSession(t)
  PROVE  Good'
<1>1. PICK s \in Session : s = at[t]
  BY ReturnSteps DEF Base
<1>2. /\ TypeOK /\ TypeOK' /\ RefOK(s) /\ PoolOK(s)
  BY GoodParts DEF Base
<1>3. PICK g, h : /\ <<g, h>> \in {<<"return", "reset">>, <<"postReturn", "postReset">>,
                                   <<"lastReturn", "lastReset">>, <<"keyReturn", "keyReset">>}
                  /\ Steps(t, s, g, h)
  BY <1>1, ReturnSteps DEF Base
<1>4. g \notin Strange
  BY <1>2, <1>3, NotStrange
<1>5. (g = "return" /\ h = "reset") \/ (g = "postReturn" /\ h = "postReset")
  BY <1>3, <1>4 DEF Strange
<1>6. mRefCount[s] = 0 /\ mConnected[s] = 0
  <2>1. g \in Returning
    BY <1>5 DEF Returning
  <2> QED
    BY <1>2, <1>3, <2>1, ReturnedFacts
<1>7. Still /\ UNCHANGED lists
  BY <1>1, <1>6 DEF ReturnClientSession, Still, session, kernel
<1>8. Calm("return", "reset") /\ Calm("postReturn", "postReset")
  BY DEF Calm, Weight, Refs, TwoRefs, Receiving, Strange, Returning, Handling, Sending, Sent, Ending
<1> QED
  BY <1>2, <1>3, <1>5, <1>7, <1>8, StillKeeps

LEMMA ResetGood ==
  ASSUME Base, Base', Good, NEW t \in IoThread, SessionReset(t)
  PROVE  Good'
<1>1. PICK s \in Session : s = at[t]
  BY ResetSteps DEF Base
<1>2. /\ TypeOK /\ TypeOK' /\ RefOK(s) /\ PoolOK(s)
  BY GoodParts DEF Base
<1>3. PICK g, h : /\ <<g, h>> \in {<<"reset", "bufReset">>, <<"postReset", "postBufReset">>,
                                   <<"lastReset", "lastBufReset">>, <<"keyReset", "keyBufReset">>}
                  /\ Steps(t, s, g, h)
  BY <1>1, ResetSteps DEF Base
<1>4. g \notin Strange
  BY <1>2, <1>3, NotStrange
<1>5. (g = "reset" /\ h = "bufReset") \/ (g = "postReset" /\ h = "postBufReset")
  BY <1>3, <1>4 DEF Strange
<1>6. mRefCount[s] = 0 /\ mConnected[s] = 0
  <2>1. g \in Returning
    BY <1>5 DEF Returning
  <2> QED
    BY <1>2, <1>3, <2>1, ReturnedFacts
<1>7. mRefCount' = mRefCount /\ mConnected' = mConnected
  BY <1>1, <1>2, <1>6 DEF SessionReset, TypeOK
<1>8. Still /\ UNCHANGED lists
  BY <1>7 DEF SessionReset, Still, kernel, pool, Good
<1>9. Calm("reset", "bufReset") /\ Calm("postReset", "postBufReset")
  BY DEF Calm, Weight, Refs, TwoRefs, Receiving, Strange, Returning, Handling, Sending, Sent, Ending
<1> QED
  BY <1>2, <1>3, <1>5, <1>8, <1>9, StillKeeps

\* The session comes back to the pool as it left it.
LEMMA BufferResetGood ==
  ASSUME Base, Base', Good, NEW t \in IoThread, SendBufferReset(t)
  PROVE  Good'
<1>1. PICK s \in Session : s = at[t]
  BY BufferResetSteps DEF Base
<1>2. /\ TypeOK /\ TypeOK' /\ RefOK(s) /\ StageOK(s) /\ TokenOK(s) /\ PoolOK(s) /\ SendGood(s)
      /\ PoolOnce /\ ~crashed /\ at \in [IoThread -> Session]
  BY GoodParts DEF Base, TypeOK
<1>3. PICK g, h : /\ <<g, h>> \in {<<"bufReset", "job">>, <<"postBufReset", "postDisc">>,
                                   <<"lastBufReset", "delete">>, <<"keyBufReset", "keyDisc">>}
                  /\ Steps(t, s, g, h)
  BY <1>1, BufferResetSteps DEF Base
<1>4. g \notin Strange
  BY <1>2, <1>3, NotStrange
<1>5. (g = "bufReset" /\ h = "job") \/ (g = "postBufReset" /\ h = "postDisc")
  BY <1>3, <1>4 DEF Strange
<1>6. /\ g \in Returning /\ h \notin Returning /\ h \notin Receiving /\ h \notin Refs
      /\ h \notin Strange /\ Weight(g) = 0 /\ Weight(h) = 0 /\ h # "accept"
  BY <1>5 DEF Returning, Receiving, Refs, Strange, Weight, TwoRefs
<1>7. /\ mRefCount[s] = 0 /\ mConnected[s] = 0 /\ sends[s] = << >> /\ posted[s] = {}
      /\ Threads(s, Refs) = {}
  BY <1>2, <1>3, <1>6, ReturnedFacts
<1>8. /\ mConnected' = mConnected /\ mRefCount' = mRefCount /\ sends' = sends /\ posted' = posted
      /\ mSendPendingCount' = mSendPendingCount /\ transferred' = transferred /\ crashed' = crashed
      /\ LSendRequestSessionList' = LSendRequestSessionList
      /\ LSendRequestFailedSessionList' = LSendRequestFailedSessionList
      /\ mSendBuffer' = [mSendBuffer EXCEPT ![s] = << >>]
      /\ received' = [received EXCEPT ![s] = 0]
      /\ handed' = [handed EXCEPT ![s] = << >>]
      /\ mFreeSessionList' = Append(mFreeSessionList, s)
  BY <1>1 DEF SendBufferReset, lists
<1>9. mSendBuffer'[s] = << >> /\ received'[s] = 0 /\ handed'[s] = << >>
  BY <1>2, <1>8 DEF TypeOK
<1>10. ~InPool(s)
  <2>1. t \in Threads(s, Returning)
    BY <1>2, <1>3, <1>6, StageSets, ThreadsStep
  <2> QED
    BY <1>2, <2>1 DEF PoolOK
<1>11. /\ Len(mFreeSessionList') = Len(mFreeSessionList) + 1 /\ Len(mFreeSessionList) \in Nat
       /\ \A i \in 1 .. Len(mFreeSessionList) : mFreeSessionList'[i] = mFreeSessionList[i]
       /\ mFreeSessionList'[Len(mFreeSessionList) + 1] = s
       /\ DOMAIN mFreeSessionList = 1 .. Len(mFreeSessionList)
       /\ DOMAIN mFreeSessionList' = 1 .. Len(mFreeSessionList')
  <2>1. mFreeSessionList \in Seq(Session)
    BY <1>2 DEF TypeOK
  <2>2. PICK q \in Seq(Session) : q = mFreeSessionList
    BY <2>1
  <2>3. /\ Len(Append(q, s)) = Len(q) + 1 /\ Len(q) \in Nat
        /\ \A i \in 1 .. Len(q) : Append(q, s)[i] = q[i]
        /\ Append(q, s)[Len(q) + 1] = s
        /\ DOMAIN q = 1 .. Len(q) /\ DOMAIN Append(q, s) = 1 .. Len(Append(q, s))
    OBVIOUS
  <2> QED
    BY <1>8, <2>2, <2>3
<1>12. PoolOnce'
  BY <1>2, <1>10, <1>11 DEF PoolOnce, InPool
<1>13. Local(t, s, g, h)
  <2>1. ASSUME NEW r \in Session \ {s} PROVE Unmoved(r)
    BY <1>8 DEF Unmoved
  <2>2. ASSUME NEW r \in Session \ {s} PROVE InPool(r)' <=> InPool(r)
    BY <1>11 DEF InPool
  <2>3. \A r : Counted(t, r)' = Counted(t, r)
    BY <1>8 DEF Counted
  <2> QED
    BY <1>3, <1>8, <2>1, <2>2, <2>3 DEF Local
<1>14. /\ Threads(s, Refs)' = {} /\ Threads(s, Strange)' = {} /\ Threads(s, Returning)' = {}
  <2>1. \A G : G \cap Resting = {} =>
          /\ \A u \in IoThread : u \in Threads(s, G)' <=>
                  (u # t /\ u \in Threads(s, G)) \/ (u = t /\ h \in G)
          /\ t \in Threads(s, G) <=> g \in G
    BY <1>2, <1>3, ThreadsStep
  <2>2. \A G : Threads(s, G)' \subseteq IoThread /\ Threads(s, G) \subseteq IoThread
    BY DEF Threads
  <2>3. Threads(s, Refs)' = {}
    BY <1>6, <1>7, <2>1, <2>2, StageSets
  <2>4. Threads(s, Strange)' = {}
    BY <1>2, <1>6, <2>1, <2>2, StageSets DEF PoolOK
  <2>5. Threads(s, Returning)' = {}
    BY <1>2, <1>6, <2>1, <2>2, StageSets DEF PoolOK
  <2> QED
    BY <2>3, <2>4, <2>5
<1>15. /\ Threads(s, Handling)' = {} /\ Threads(s, {"commit"})' = {} /\ Threads(s, Sent)' = {}
  BY <1>14 DEF Threads, Refs, TwoRefs, Handling, Sending, Sent
<1>16. RefOK(s)'
  <2>1. Booked(posted[s]) \in Nat /\ Len(sends[s]) \in Nat
    BY <1>2, TypedSession DEF Typed
  <2>2. /\ Booked(posted'[s]) = Booked(posted[s]) /\ Len(sends'[s]) = Len(sends[s])
        /\ mConnected'[s] = 0 /\ mRefCount'[s] = 0
    BY <1>7, <1>8
  <2>3. Booked(posted'[s]) + Len(sends'[s]) + mConnected'[s] + Weight(h) - mRefCount'[s] <=
           Booked(posted[s]) + Len(sends[s]) + mConnected[s] + Weight(g) - mRefCount[s]
    BY <1>6, <1>7, <2>1, <2>2
  <2> QED
    BY <1>2, <1>3, <2>3, RefKept
<1>17. StageOK(s)' /\ TokenOK(s)'
  BY <1>2, <1>3, <1>6, <1>8, StageKept, TokenKept
<1>18. PoolOK(s)'
  BY <1>7, <1>8, <1>9, <1>14 DEF PoolOK
<1>19. SendGood(s)'
  <2>1. EarlyOK(s)'
    BY <1>7, <1>8, <1>9, <1>15 DEF EarlyOK
  <2>2. SendOK(s)'
    <3>1. sends'[s] = << >> /\ Len(<< >>) = 0
      BY <1>7, <1>8
    <3> QED
      BY <1>15, <3>1 DEF SendOK
  <2>3. OrderOK(s)'
    BY <1>9 DEF OrderOK, Rising
  <2>4. FlightOK(s)'
    <3>1. Ordered(s, 0)'
      BY <1>9 DEF Ordered, OrderedBy
    <3>2. sends'[s] = << >>
      BY <1>7, <1>8
    <3> QED
      BY <1>15, <3>1, <3>2 DEF FlightOK
  <2> QED
    BY <2>1, <2>2, <2>3, <2>4 DEF SendGood
<1>20. ListedOK(s)'
  BY <1>2, <1>9, ListedEmpty
<1> QED
  BY <1>2, <1>8, <1>12, <1>13, <1>16, <1>17, <1>18, <1>19, <1>20, GoodWhole

\* A step that leaves the buffer, the sends and the lists alone.
Aside(s) ==
  /\ \A r \in Session \ {s} : Unmoved(r)
  /\ UNCHANGED <<mSendPendingCount, mSendBuffer, received, sends, handed,
                 mFreeSessionList, lists, transferred>>
  /\ ~crashed'

LEMMA AsideKeeps ==
  ASSUME TypeOK, TypeOK', NEW t \in IoThread, NEW s \in Session, NEW g, NEW h, Steps(t, s, g, h),
         Good, Aside(s), g # "commit", h # "commit", g \notin Handling, h \notin Handling,
         RefOK(s)', StageOK(s)', TokenOK(s)', mRefCount[s] >= 1,
         h \notin Strange, h \in Returning => mRefCount'[s] = 0,
         "accept" \in posted'[s] \/ h = "accept" => received[s] = 0,
         \/ mConnected'[s] = 0
         \/ mSendBuffer[s] = << >>
         \/ /\ mConnected'[s] = mConnected[s]
            /\ h \notin Ending => g \notin Ending
            /\ g \notin {"flush", "flushLocked"} \/ h \in Ending
  PROVE  Good'
<1>1. /\ PoolOK(s) /\ SendGood(s) /\ ListedOK(s) /\ PoolOnce
  BY GoodParts
<1>2. /\ at \in [IoThread -> Session] /\ mRefCount[s] \in Int
  BY DEF TypeOK
<1>3. Local(t, s, g, h) /\ (InPool(s)' <=> InPool(s)) /\ Counted(t, s)' = Counted(t, s) /\ PoolOnce'
  BY <1>1, LocalAlone DEF Aside, lists
<1>4. PoolOK(s)'
  BY <1>1, <1>2, <1>3, PoolHeld
<1>5. SendGood(s)'
  <2>1. Quiet(s, g, h) /\ transferred' = transferred
    BY DEF Quiet, Aside
  <2> QED
    BY <1>1, <1>2, <2>1, QuietSend
<1>6. ListedOK(s)'
  <2>1. mSendBuffer'[s] = mSendBuffer[s] /\ handed'[s] = handed[s] /\ g \notin Sending
    BY DEF Aside, Handling
  <2>2. CASE mConnected'[s] = 0
    BY <2>2, ListedClosed
  <2>3. CASE mSendBuffer[s] = << >>
    BY <2>1, <2>3, ListedEmpty
  <2>4. CASE /\ mConnected'[s] = mConnected[s]
             /\ h \notin Ending => g \notin Ending
             /\ g \notin {"flush", "flushLocked"} \/ h \in Ending
    <3>1. g \in {"flush", "flushLocked"} => h \in {"flush", "flushLocked"} \cup Ending
      BY <2>4
    <3> QED
      BY <1>1, <1>3, <2>1, <2>4, <3>1, ListedSame
  <2> QED
    BY <2>2, <2>3, <2>4
<1>7. ~crashed'
  BY DEF Aside
<1> QED
  BY <1>1, <1>3, <1>4, <1>5, <1>6, <1>7, GoodWhole

\* A thread that is about to release a reference has one to release.
LEMMA ReleaseGood ==
  ASSUME Base, Base', Good, NEW t \in IoThread, ReleaseRef(t)
  PROVE  Good'
<1>1. PICK s \in Session : s = at[t]
  BY ReleaseSteps DEF Base
<1>2. /\ TypeOK /\ TypeOK' /\ RefOK(s) /\ StageOK(s) /\ TokenOK(s) /\ PoolOK(s) /\ SendGood(s)
      /\ at \in [IoThread -> Session] /\ ~crashed
  BY GoodParts DEF Base, TypeOK
<1>3. PICK g, h :
        /\ Steps(t, s, g, h)
        /\ \/ /\ mRefCount[s] = 1
              /\ <<g, h>> \in {<<"last", "lastReturn">>, <<"delete", "return">>,
                               <<"keyFail", "keyReturn">>, <<"postFail", "postReturn">>}
           \/ /\ mRefCount[s] # 1
              /\ <<g, h>> \in {<<"last", "delete">>, <<"delete", "job">>,
                               <<"keyFail", "keyDisc">>, <<"postFail", "postDisc">>}
  BY <1>1, ReleaseSteps DEF Base
<1>4. /\ mRefCount' = [mRefCount EXCEPT ![s] = @ - 1] /\ mRefCount \in [Session -> Int]
      /\ crashed' = (mRefCount'[s] < 0)
      /\ mConnected' = mConnected /\ posted' = posted /\ sends' = sends
      /\ received' = received
  BY <1>1, <1>2 DEF ReleaseRef, kernel, TypeOK
<1>5. /\ Booked(posted[s]) \in Nat /\ Len(sends[s]) \in Nat /\ mConnected[s] \in 0 .. 1
      /\ mRefCount[s] \in Int
      /\ Booked(posted[s]) + Len(sends[s]) + mConnected[s] + Weight(g) <= mRefCount[s]
  <2>1. Typed(s)
    BY <1>2, TypedSession
  <2>2. Booked(posted[s]) + Len(sends[s]) + mConnected[s] + Weight(g) <= mRefCount[s]
    BY <1>2, <1>3, NeedFacts
  <2> QED
    BY <2>1, <2>2 DEF Typed
<1>6. /\ g = "last" => Weight(g) = 2 /\ Weight("delete") = 1
      /\ g = "delete" => Weight(g) = 1 /\ Weight("job") = 0 /\ Weight("return") = 0
      /\ g = "keyFail" => Weight(g) = 2 /\ Weight("keyDisc") = 1
      /\ g = "postFail" => Weight(g) = 1 /\ Weight("postDisc") = 0 /\ Weight("postReturn") = 0
  BY DEF Weight, Refs, TwoRefs
<1>7. /\ mRefCount[s] >= 1
      /\ Weight(h) = Weight(g) - 1 /\ Weight(g) \in Nat /\ Weight(h) \in Nat
      /\ h \in {"return", "postReturn", "delete", "job", "keyDisc", "postDisc"}
      /\ h \in {"return", "postReturn"} => mRefCount[s] = 1
      /\ g \in {"last", "delete", "keyFail", "postFail"}
      /\ h = "keyDisc" => g = "keyFail"
      /\ g \in {"keyFail", "postFail"} => h \in {"keyDisc", "postDisc", "postReturn"}
  BY <1>3, <1>5, <1>6, SMTT(30)
<1>8. /\ g \notin Handling /\ h \notin Handling /\ g # "commit" /\ h # "commit" /\ h # "accept"
      /\ h \notin Strange /\ g \notin {"flush", "flushLocked"}
      /\ h \in Receiving => g \in Receiving
      /\ h \notin Ending => g \notin Ending
      /\ h \in Returning => h \in {"return", "postReturn"}
  BY <1>7 DEF Handling, Sending, Sent, Strange, Receiving, Ending, Returning
<1>9. mRefCount'[s] = mRefCount[s] - 1
  BY <1>4
<1>10. RefOK(s)'
  <2>1. Booked(posted'[s]) + Len(sends'[s]) + mConnected'[s] + Weight(h) - mRefCount'[s] <=
           Booked(posted[s]) + Len(sends[s]) + mConnected[s] + Weight(g) - mRefCount[s]
    BY <1>4, <1>5, <1>7, <1>9, SMTT(20)
  <2> QED
    BY <1>2, <1>3, <2>1, RefKept
<1>11. StageOK(s)' /\ TokenOK(s)'
  BY <1>2, <1>3, <1>4, <1>8, StageKept, TokenKept
<1>12. Aside(s)
  <2>1. ~crashed'
    <3>1. ~(mRefCount'[s] < 0)
      BY <1>5, <1>7, <1>9
    <3> QED
      BY <1>4, <3>1, Zenon
  <2>2. \A r \in Session \ {s} : Unmoved(r)
    BY <1>1, <1>4 DEF Unmoved, ReleaseRef, kernel
  <2> QED
    BY <2>1, <2>2 DEF Aside, ReleaseRef, kernel, pool
<1>13. "accept" \in posted'[s] \/ h = "accept" => received[s] = 0
  BY <1>2, <1>4, <1>8 DEF SendGood, EarlyOK
<1>14. h \in Returning => mRefCount'[s] = 0
  BY <1>7, <1>8, <1>9
<1> QED
  BY <1>2, <1>3, <1>4, <1>7, <1>8, <1>10, <1>11, <1>12, <1>13, <1>14, AsideKeeps

LEMMA DisconnectGood ==
  ASSUME Base, Base', Good, NEW t \in IoThread, DisconnectRequest(t)
  PROVE  Good'
<1>1. PICK s \in Session : s = at[t]
  BY DisconnectSteps DEF Base
<1>2. /\ TypeOK /\ TypeOK' /\ RefOK(s) /\ StageOK(s) /\ TokenOK(s) /\ PoolOK(s) /\ SendGood(s)
      /\ at \in [IoThread -> Session] /\ ~crashed /\ ListedOK(s) /\ PoolOnce
  BY GoodParts DEF Base, TypeOK
<1>3. PICK g, h : /\ Steps(t, s, g, h)
                  /\ <<g, h>> \in {<<"end", "delete">>, <<"keyDisc", "keyUnlock">>,
                                   <<"flushDisc", "job">>, <<"postDisc", "postUnlock">>}
  BY <1>1, DisconnectSteps DEF Base
<1>4. /\ mConnected' = [mConnected EXCEPT ![s] = 0] /\ mConnected \in [Session -> 0 .. 1]
      /\ mRefCount \in [Session -> Int]
      /\ posted \in [Session -> SUBSET {"accept", "receive", "disconnect"}]
      /\ \/ /\ mConnected[s] = 1
            /\ mRefCount' = [mRefCount EXCEPT ![s] = @ + 1]
            /\ posted' = [posted EXCEPT ![s] = @ \cup {"disconnect"}]
         \/ mRefCount' = mRefCount /\ posted' = posted
      /\ sends' = sends /\ received' = received /\ crashed' = crashed
  BY <1>1, <1>2 DEF DisconnectRequest, TypeOK, AddRef
<1>5. /\ Booked(posted[s]) \in Nat /\ Len(sends[s]) \in Nat /\ mConnected[s] \in 0 .. 1
      /\ mRefCount[s] \in Int
      /\ Booked(posted[s]) + Len(sends[s]) + mConnected[s] + Weight(g) <= mRefCount[s]
      /\ Booked(posted[s] \cup {"disconnect"}) <= Booked(posted[s]) + 2
      /\ Booked(posted[s] \cup {"disconnect"}) \in Nat
  <2>1. Typed(s)
    BY <1>2, TypedSession
  <2>2. Booked(posted[s]) + Len(sends[s]) + mConnected[s] + Weight(g) <= mRefCount[s]
    BY <1>2, <1>3, NeedFacts
  <2>3. posted[s] \in SUBSET {"accept", "receive", "disconnect"}
    BY <2>1 DEF Typed
  <2>4. posted[s] \cup {"disconnect"} \in SUBSET {"accept", "receive", "disconnect"}
    BY <2>3
  <2>5. "disconnect" \in StageIo
    BY DEF StageIo
  <2>6. Booked(posted[s] \cup {"disconnect"}) <= Booked(posted[s]) + 2
    BY <2>3, <2>5, BookedAdd
  <2>7. Booked(posted[s] \cup {"disconnect"}) \in Nat
    BY <2>4, BookedAdd
  <2> QED
    BY <2>1, <2>2, <2>6, <2>7 DEF Typed
<1>6. /\ Weight(h) = Weight(g) /\ Weight(g) \in Nat
      /\ g \notin Handling /\ h \notin Handling /\ g # "commit" /\ h # "commit" /\ h # "accept"
      /\ h \notin Strange /\ g \notin {"flush", "flushLocked"}
      /\ (h \in Receiving => g \in Receiving) /\ h \notin Returning
      /\ g \notin Sending /\ h \notin Ending
  BY <1>3 DEF Weight, Refs, TwoRefs, Handling, Sending, Sent, Strange, Receiving, Ending, Returning
<1>7. mConnected'[s] = 0
  BY <1>4
<1>8. RefOK(s)'
  <2>1. CASE mConnected[s] = 1 /\ mRefCount' = [mRefCount EXCEPT ![s] = @ + 1]
               /\ posted' = [posted EXCEPT ![s] = @ \cup {"disconnect"}]
    <3>1. mRefCount'[s] = mRefCount[s] + 1 /\ posted'[s] = posted[s] \cup {"disconnect"}
      BY <1>4, <2>1
    <3>2. Booked(posted'[s]) + Len(sends'[s]) + mConnected'[s] + Weight(h) - mRefCount'[s] <=
           Booked(posted[s]) + Len(sends[s]) + mConnected[s] + Weight(g) - mRefCount[s]
      BY <1>4, <1>5, <1>6, <1>7, <2>1, <3>1, SMTT(20)
    <3> QED
      BY <1>2, <1>3, <3>2, RefKept
  <2>2. CASE mRefCount' = mRefCount /\ posted' = posted
    <3>1. Booked(posted'[s]) + Len(sends'[s]) + mConnected'[s] + Weight(h) - mRefCount'[s] <=
           Booked(posted[s]) + Len(sends[s]) + mConnected[s] + Weight(g) - mRefCount[s]
      BY <1>4, <1>5, <1>6, <1>7, <2>2
    <3> QED
      BY <1>2, <1>3, <3>1, RefKept
  <2> QED
    BY <1>4, <2>1, <2>2
<1>9. /\ \A u \in Threads(s, {"accept"})' : u \in Threads(s, {"accept"})
  <2>1. \A u \in IoThread : u \in Threads(s, {"accept"})' <=>
                  (u # t /\ u \in Threads(s, {"accept"})) \/ (u = t /\ h \in {"accept"})
    BY <1>2, <1>3, StageSets, ThreadsStep
  <2>2. Threads(s, {"accept"})' \subseteq IoThread
    BY DEF Threads
  <2> QED
    BY <1>6, <2>1, <2>2
<1>10. StageOK(s)'
  <2>1. CASE mConnected[s] = 1 /\ posted' = [posted EXCEPT ![s] = @ \cup {"disconnect"}]
    <3>1. posted'[s] = posted[s] \cup {"disconnect"} /\ posted[s] \cap StageIo = {}
          /\ Threads(s, {"accept"}) = {}
      BY <1>2, <1>4, <2>1 DEF StageOK
    <3>2. "accept" \notin posted'[s]
      BY <3>1 DEF StageIo
    <3> QED
      BY <1>7, <1>9, <3>1, <3>2 DEF StageOK
  <2>2. CASE posted' = posted
    BY <1>2, <1>7, <1>9, <2>2 DEF StageOK
  <2> QED
    BY <1>4, <2>1, <2>2
<1>11. /\ "accept" \in posted'[s] => "accept" \in posted[s]
       /\ posted'[s] \cap {"accept", "receive"} \subseteq posted[s]
  BY <1>4
<1>12. TokenOK(s)'
  BY <1>2, <1>3, <1>6, <1>11, TokenKept
<1>13. CASE mRefCount[s] >= 1
  <2>1. Aside(s)
    <3>1. \A r \in Session \ {s} : Unmoved(r)
      BY <1>4 DEF Unmoved, DisconnectRequest
    <3> QED
      BY <1>2, <1>4, <3>1 DEF Aside, DisconnectRequest, pool
  <2>2. "accept" \in posted'[s] \/ h = "accept" => received[s] = 0
    BY <1>2, <1>6, <1>11 DEF SendGood, EarlyOK
  <2> QED
    BY <1>2, <1>3, <1>6, <1>7, <1>8, <1>10, <1>12, <1>13, <2>1, <2>2, AsideKeeps
\* A session in the pool, or on its way there, is unconnected.
<1>14. CASE ~(mRefCount[s] >= 1)
  <2>1. mConnected[s] = 0
    BY <1>5, <1>6, <1>14, SMTT(20)
  <2>2. mRefCount' = mRefCount /\ posted' = posted /\ mConnected' = mConnected
    BY <1>4, <2>1
  <2>3. /\ Local(t, s, g, h) /\ (InPool(s)' <=> InPool(s))
        /\ Counted(t, s)' = Counted(t, s) /\ PoolOnce'
    <3>1. \A r \in Session \ {s} : Unmoved(r)
      BY <2>2 DEF Unmoved, DisconnectRequest
    <3> QED
      BY <1>2, <1>3, <3>1, LocalAlone DEF DisconnectRequest, lists, pool
  <2>4. PoolOK(s)'
    BY <1>2, <1>3, <1>4, <1>6, <2>2, <2>3, PoolKept
  <2>5. SendGood(s)'
    <3>1. Quiet(s, g, h) /\ transferred' = transferred
      BY <1>6 DEF Quiet, DisconnectRequest
    <3>2. "accept" \in posted'[s] \/ h = "accept" => received[s] = 0
      BY <1>2, <1>6, <1>11 DEF SendGood, EarlyOK
    <3> QED
      BY <1>2, <1>3, <3>1, <3>2, QuietSend
  <2>6. ListedOK(s)'
    BY <1>7, ListedClosed
  <2> QED
    BY <1>2, <1>3, <1>4, <1>8, <1>10, <1>12, <2>3, <2>4, <2>5, <2>6, GoodWhole
<1> QED
  BY <1>13, <1>14

\* A completion other than a send's is taken by a thread that was idle.
LEMMA GetGood ==
  ASSUME Base, Base', Good, NEW t \in IoThread, NEW s \in Session, GetCompletion(t, s)
  PROVE  Good'
<1>2. /\ TypeOK /\ TypeOK' /\ RefOK(s) /\ StageOK(s) /\ TokenOK(s) /\ PoolOK(s) /\ SendGood(s)
      /\ at \in [IoThread -> Session] /\ ~crashed
  BY GoodParts DEF Base, TypeOK
<1>3. PICK c, h :
        /\ c \in posted[s] /\ Steps(t, s, "idle", h)
        /\ posted' = [posted EXCEPT ![s] = @ \ {c}]
        /\ <<c, h>> \in {<<"accept", "accept">>, <<"disconnect", "last">>,
                         <<"receive", "receive">>, <<"receive", "end">>}
  <2>1. \/ /\ "accept" \in posted[s] /\ Steps(t, s, "idle", "accept")
           /\ posted' = [posted EXCEPT ![s] = @ \ {"accept"}]
        \/ /\ "disconnect" \in posted[s] /\ Steps(t, s, "idle", "last")
           /\ posted' = [posted EXCEPT ![s] = @ \ {"disconnect"}]
        \/ /\ "receive" \in posted[s]
           /\ Steps(t, s, "idle", "receive") \/ Steps(t, s, "idle", "end")
           /\ posted' = [posted EXCEPT ![s] = @ \ {"receive"}]
    BY GetSteps DEF Base
  <2> QED
    BY <2>1
<1>4. /\ mConnected' = mConnected /\ mRefCount' = mRefCount /\ sends' = sends
      /\ received' = received
      /\ posted'[s] = posted[s] \ {c}
  BY <1>2, <1>3 DEF GetCompletion, session, TypeOK
<1>5. /\ Booked(posted[s]) \in Nat /\ Len(sends[s]) \in Nat /\ mConnected[s] \in 0 .. 1
      /\ mRefCount[s] \in Int
      /\ Booked(posted[s]) + Len(sends[s]) + mConnected[s] + Weight("idle") <= mRefCount[s]
      /\ posted[s] \in SUBSET {"accept", "receive", "disconnect"}
  <2>1. Typed(s)
    BY <1>2, TypedSession
  <2>2. Booked(posted[s]) + Len(sends[s]) + mConnected[s] + Weight("idle") <= mRefCount[s]
    BY <1>2, <1>3, NeedFacts
  <2> QED
    BY <2>1, <2>2 DEF Typed
<1>6. /\ Booked(posted'[s]) = Booked(posted[s]) - Weight(h) /\ Weight(h) \in {1, 2}
      /\ Weight("idle") = 0 /\ Booked(posted'[s]) \in Nat
  <2>1. Booked(posted[s] \ {c}) = Booked(posted[s]) - (IF c \in StageIo THEN 2 ELSE 1)
    BY <1>3, <1>5, BookedAdd
  <2>2. Weight(h) = (IF c \in StageIo THEN 2 ELSE 1)
    BY <1>3 DEF StageIo, Weight, Refs, TwoRefs
  <2>3. Weight("idle") = 0
    BY DEF Weight, Refs, TwoRefs
  <2>4. Booked(posted[s] \ {c}) \in Nat
    BY <1>5, BookedAdd
  <2> QED
    BY <1>4, <2>1, <2>2, <2>3, <2>4
<1>7. RefOK(s)'
  <2>1. Booked(posted'[s]) + Len(sends'[s]) + mConnected'[s] + Weight(h) - mRefCount'[s] <=
           Booked(posted[s]) + Len(sends[s]) + mConnected[s] + Weight("idle") - mRefCount[s]
    <3>1. PICK a \in Nat, b \in Nat : a = Booked(posted[s]) /\ b = Booked(posted'[s])
      BY <1>5, <1>6
    <3>2. PICK w \in Nat, z \in Nat : w = Weight(h) /\ z = Weight("idle")
      BY <1>6
    <3>3. PICK n \in Nat, k \in 0 .. 1, r \in Int :
                 /\ n = Len(sends[s]) /\ k = mConnected[s] /\ r = mRefCount[s]
                 /\ n = Len(sends'[s]) /\ k = mConnected'[s] /\ r = mRefCount'[s]
      BY <1>4, <1>5
    <3>4. b = a - w /\ z = 0
      BY <1>6, <3>1, <3>2
    <3>5. b + n + k + w - r <= a + n + k + z - r
      BY <3>4
    <3> QED
      BY <3>1, <3>2, <3>3, <3>5, Zenon
  <2> QED
    BY <1>2, <1>3, <2>1, RefKept
<1>8. mRefCount[s] >= 1
  BY <1>5, <1>6
<1>9. StageOK(s)'
  <2>1. CASE h = "accept"
    <3>1. c = "accept" /\ "accept" \in posted[s]
      BY <1>3, <2>1
    <3>2. mConnected[s] # 1 /\ "disconnect" \notin posted[s]
      BY <1>2, <3>1 DEF StageOK, StageIo
    <3> QED
      BY <1>4, <3>2 DEF StageOK
  <2>2. CASE h # "accept"
    BY <1>2, <1>3, <1>4, <2>2, StageKept
  <2> QED
    BY <2>1, <2>2
<1>10. TokenOK(s)'
  <2>1. CASE c \in {"accept", "receive"}
    BY <1>2, <1>3, <1>4, <2>1, TokenTaken
  <2>2. CASE c = "disconnect"
    <3>1. h \notin Receiving
      BY <1>3, <2>2 DEF Receiving
    <3>2. posted'[s] \cap {"accept", "receive"} \subseteq posted[s]
      BY <1>4
    <3> QED
      BY <1>2, <1>3, <3>1, <3>2, TokenKept
  <2> QED
    BY <1>3, <2>1, <2>2
<1>11. Aside(s)
  <2>1. \A r \in Session \ {s} : Unmoved(r)
    BY <1>3 DEF Unmoved, GetCompletion, session
  <2> QED
    BY <1>2, <2>1 DEF Aside, GetCompletion, session, pool
<1>12. "accept" \in posted'[s] \/ h = "accept" => received[s] = 0
  BY <1>2, <1>3, <1>4 DEF SendGood, EarlyOK
<1>13. /\ "idle" \notin Handling /\ h \notin Handling /\ h # "commit" /\ h \notin Strange
       /\ h \notin Returning /\ "idle" \notin Ending
  BY <1>3 DEF Handling, Sending, Sent, Strange, Returning, Ending
<1> QED
  BY <1>2, <1>3, <1>4, <1>7, <1>8, <1>9, <1>10, <1>11, <1>12, <1>13, AsideKeeps

\* The thread that completes an accept is alone with a session nobody answered yet.
LEMMA AcceptGood ==
  ASSUME Base, Base', Good, NEW t \in IoThread, AcceptCompletion(t)
  PROVE  Good'
<1>1. PICK s \in Session : s = at[t]
  BY AcceptSteps DEF Base
<1>2. /\ TypeOK /\ TypeOK' /\ RefOK(s) /\ StageOK(s) /\ TokenOK(s) /\ PoolOK(s) /\ SendGood(s)
      /\ at \in [IoThread -> Session] /\ ~crashed
  BY GoodParts DEF Base, TypeOK
<1>3. PICK h : /\ h \in {"end", "delete"} /\ Steps(t, s, "accept", h)
               /\ \/ mRefCount' = mRefCount /\ posted' = posted
                  \/ /\ h = "delete" /\ mRefCount' = [mRefCount EXCEPT ![s] = @ + 1]
                     /\ posted' = [posted EXCEPT ![s] = @ \cup {"receive"}]
  <2>1. \/ Steps(t, s, "accept", "end") /\ UNCHANGED <<mRefCount, posted>>
        \/ Steps(t, s, "accept", "delete") /\ UNCHANGED <<mRefCount, posted>>
        \/ /\ Steps(t, s, "accept", "delete") /\ AddRef(s)
           /\ posted' = [posted EXCEPT ![s] = @ \cup {"receive"}]
    BY <1>1, AcceptSteps DEF Base
  <2> QED
    BY <2>1 DEF AddRef
<1>4. /\ mConnected' = [mConnected EXCEPT ![s] = 1] /\ crashed' = (mConnected[s] = 1)
      /\ sends' = sends /\ received' = received
      /\ mConnected \in [Session -> 0 .. 1] /\ mRefCount \in [Session -> Int]
      /\ posted \in [Session -> SUBSET {"accept", "receive", "disconnect"}]
  BY <1>1, <1>2 DEF AcceptCompletion, TypeOK
<1>5. /\ \A u \in IoThread : u \in Threads(s, {"accept"})' <=>
                  (u # t /\ u \in Threads(s, {"accept"})) \/ (u = t /\ h \in {"accept"})
      /\ t \in Threads(s, {"accept"})
      /\ Threads(s, {"accept"})' \subseteq IoThread
  <2>1. {"accept"} \cap Resting = {}
    BY StageSets
  <2>2. \A u \in IoThread : u \in Threads(s, {"accept"})' <=>
                  (u # t /\ u \in Threads(s, {"accept"})) \/ (u = t /\ h \in {"accept"})
    BY <1>2, <1>3, <2>1, ThreadsStep
  <2>3. t \in Threads(s, {"accept"})
    BY <1>2, <1>3, <2>1, ThreadsStep, SMTT(30)
  <2>4. Threads(s, {"accept"})' \subseteq IoThread
    BY DEF Threads
  <2> QED
    BY <2>2, <2>3, <2>4
<1>6. /\ mConnected[s] = 0 /\ "disconnect" \notin posted[s]
  BY <1>2, <1>4, <1>5 DEF StageOK
<1>7. /\ t \in Threads(s, Receiving) /\ "accept" \notin posted[s] /\ "receive" \notin posted[s]
      /\ \A u \in Threads(s, {"accept"}) : u = t
  <2>1. \A u \in Threads(s, {"accept"}) : u \in Threads(s, Receiving)
    BY DEF Threads, Receiving
  <2> QED
    BY <1>2, <1>5, <2>1 DEF TokenOK
<1>8. Threads(s, {"accept"})' = {}
  BY <1>3, <1>5, <1>7
<1>9. mConnected'[s] = 1
  BY <1>4
<1>10. /\ mSendBuffer[s] = << >> /\ received[s] = 0
  BY <1>2, <1>5 DEF SendGood, EarlyOK, Early
<1>11. /\ Booked(posted[s]) \in Nat /\ Len(sends[s]) \in Nat /\ mRefCount[s] \in Int
       /\ Booked(posted[s]) + Len(sends[s]) + mConnected[s] + Weight("accept") <= mRefCount[s]
       /\ Booked(posted[s] \cup {"receive"}) <= Booked(posted[s]) + 1
       /\ Booked(posted[s] \cup {"receive"}) \in Nat
  <2>1. Typed(s)
    BY <1>2, TypedSession
  <2>2. Booked(posted[s]) + Len(sends[s]) + mConnected[s] + Weight("accept") <= mRefCount[s]
    BY <1>2, <1>3, NeedFacts
  <2>3. posted[s] \in SUBSET {"accept", "receive", "disconnect"}
    BY <2>1 DEF Typed
  <2>4. posted[s] \cup {"receive"} \in SUBSET {"accept", "receive", "disconnect"}
    BY <2>3
  <2>5. "receive" \notin StageIo
    BY DEF StageIo
  <2>6. Booked(posted[s] \cup {"receive"}) <= Booked(posted[s]) + 1
    BY <2>3, <2>5, BookedAdd
  <2>7. Booked(posted[s] \cup {"receive"}) \in Nat
    BY <2>4, BookedAdd
  <2> QED
    BY <2>1, <2>2, <2>6, <2>7 DEF Typed
<1>12. /\ Weight("accept") = 2 /\ Weight(h) = 1 /\ h \notin Handling /\ "accept" \notin Handling
       /\ h # "commit" /\ h # "accept" /\ h \notin Strange /\ h \notin Returning
       /\ "accept" \in Receiving /\ h \notin Receiving
  BY <1>3 DEF Weight, Refs, TwoRefs, Handling, Sending, Sent, Strange, Returning, Receiving
<1>13. RefOK(s)'
  <2>1. CASE mRefCount' = mRefCount /\ posted' = posted
    <3>1. Booked(posted'[s]) + Len(sends'[s]) + mConnected'[s] + Weight(h) - mRefCount'[s] <=
           Booked(posted[s]) + Len(sends[s]) + mConnected[s] + Weight("accept") - mRefCount[s]
      BY <1>4, <1>6, <1>9, <1>11, <1>12, <2>1
    <3> QED
      BY <1>2, <1>3, <3>1, RefKept
  <2>2. CASE /\ mRefCount' = [mRefCount EXCEPT ![s] = @ + 1]
             /\ posted' = [posted EXCEPT ![s] = @ \cup {"receive"}]
    <3>1. mRefCount'[s] = mRefCount[s] + 1 /\ posted'[s] = posted[s] \cup {"receive"}
      BY <1>4, <2>2
    <3>2. Booked(posted'[s]) + Len(sends'[s]) + mConnected'[s] + Weight(h) - mRefCount'[s] <=
           Booked(posted[s]) + Len(sends[s]) + mConnected[s] + Weight("accept") - mRefCount[s]
      BY <1>4, <1>6, <1>9, <1>11, <1>12, <3>1
    <3> QED
      BY <1>2, <1>3, <3>2, RefKept
  <2> QED
    BY <1>3, <2>1, <2>2
<1>14. posted'[s] = posted[s] \/ posted'[s] = posted[s] \cup {"receive"}
  BY <1>3, <1>4
<1>15. StageOK(s)'
  BY <1>6, <1>7, <1>8, <1>14 DEF StageOK, StageIo
<1>16. TokenOK(s)'
  <2>1. CASE posted'[s] = posted[s]
    BY <1>2, <1>3, <1>12, <2>1, TokenKept
  <2>2. CASE posted'[s] = posted[s] \cup {"receive"}
    BY <1>2, <1>3, <1>12, <2>2, TokenPosted
  <2> QED
    BY <1>14, <2>1, <2>2
<1>17. Aside(s)
  <2>1. ~crashed'
    <3>1. ~(mConnected[s] = 1)
      BY <1>6
    <3> QED
      BY <1>4, <3>1, Zenon
  <2>2. \A r \in Session \ {s} : Unmoved(r)
    BY <1>3, <1>4 DEF Unmoved, AcceptCompletion
  <2> QED
    BY <2>1, <2>2 DEF Aside, AcceptCompletion, pool
<1>18. mRefCount[s] >= 1
  BY <1>6, <1>11, <1>12
<1> QED
  BY <1>2, <1>3, <1>10, <1>12, <1>13, <1>15, <1>16, <1>17, <1>18, AsideKeeps

LEMMA PreRecvGood ==
  ASSUME Base, Base', Good, NEW t \in IoThread, PreRecv(t)
  PROVE  Good'
<1>1. PICK s \in Session : s = at[t]
  BY PreRecvSteps DEF Base
<1>2. /\ TypeOK /\ TypeOK' /\ RefOK(s) /\ StageOK(s) /\ TokenOK(s) /\ PoolOK(s) /\ SendGood(s)
      /\ at \in [IoThread -> Session] /\ ~crashed
  BY GoodParts DEF Base, TypeOK
<1>3. PICK h : /\ h \in {"end", "delete"} /\ Steps(t, s, "preRecv", h)
               /\ \/ mRefCount' = mRefCount /\ posted' = posted /\ h = "end"
                  \/ /\ h = "delete" /\ mRefCount' = [mRefCount EXCEPT ![s] = @ + 1]
                     /\ posted' = [posted EXCEPT ![s] = @ \cup {"receive"}]
  <2>1. \/ Steps(t, s, "preRecv", "end") /\ UNCHANGED <<mRefCount, posted>>
        \/ /\ Steps(t, s, "preRecv", "delete") /\ AddRef(s)
           /\ posted' = [posted EXCEPT ![s] = @ \cup {"receive"}]
    BY <1>1, PreRecvSteps DEF Base
  <2> QED
    BY <2>1 DEF AddRef
<1>4. /\ mConnected' = mConnected /\ sends' = sends /\ received' = received
      /\ mRefCount \in [Session -> Int]
      /\ posted \in [Session -> SUBSET {"accept", "receive", "disconnect"}]
  BY <1>2 DEF PreRecv, TypeOK
<1>5. /\ Booked(posted[s]) \in Nat /\ Len(sends[s]) \in Nat /\ mRefCount[s] \in Int
      /\ mConnected[s] \in 0 .. 1
      /\ Booked(posted[s]) + Len(sends[s]) + mConnected[s] + Weight("preRecv") <= mRefCount[s]
      /\ Booked(posted[s] \cup {"receive"}) <= Booked(posted[s]) + 1
      /\ Booked(posted[s] \cup {"receive"}) \in Nat
  <2>1. Typed(s)
    BY <1>2, TypedSession
  <2>2. Booked(posted[s]) + Len(sends[s]) + mConnected[s] + Weight("preRecv") <= mRefCount[s]
    BY <1>2, <1>3, NeedFacts
  <2>3. posted[s] \in SUBSET {"accept", "receive", "disconnect"}
    BY <2>1 DEF Typed
  <2>4. posted[s] \cup {"receive"} \in SUBSET {"accept", "receive", "disconnect"}
    BY <2>3
  <2>5. "receive" \notin StageIo
    BY DEF StageIo
  <2>6. Booked(posted[s] \cup {"receive"}) <= Booked(posted[s]) + 1
    BY <2>3, <2>5, BookedAdd
  <2>7. Booked(posted[s] \cup {"receive"}) \in Nat
    BY <2>4, BookedAdd
  <2> QED
    BY <2>1, <2>2, <2>6, <2>7 DEF Typed
<1>6. /\ Weight("preRecv") = 1 /\ Weight(h) = 1 /\ h \notin Handling /\ "preRecv" \notin Handling
      /\ h # "commit" /\ h # "accept" /\ h \notin Strange /\ h \notin Returning
      /\ "preRecv" \in Receiving /\ h \notin Receiving /\ "preRecv" \notin Ending
  BY <1>3 DEF Weight, Refs, TwoRefs, Handling, Sending, Sent, Strange, Returning, Receiving, Ending
<1>7. RefOK(s)'
  <2>1. CASE mRefCount' = mRefCount /\ posted' = posted
    <3>1. Booked(posted'[s]) + Len(sends'[s]) + mConnected'[s] + Weight(h) - mRefCount'[s] <=
           Booked(posted[s]) + Len(sends[s]) + mConnected[s] + Weight("preRecv") - mRefCount[s]
      BY <1>4, <1>5, <1>6, <2>1
    <3> QED
      BY <1>2, <1>3, <3>1, RefKept
  <2>2. CASE /\ mRefCount' = [mRefCount EXCEPT ![s] = @ + 1]
             /\ posted' = [posted EXCEPT ![s] = @ \cup {"receive"}]
    <3>1. mRefCount'[s] = mRefCount[s] + 1 /\ posted'[s] = posted[s] \cup {"receive"}
      BY <1>4, <2>2
    <3>2. Booked(posted'[s]) + Len(sends'[s]) + mConnected'[s] + Weight(h) - mRefCount'[s] <=
           Booked(posted[s]) + Len(sends[s]) + mConnected[s] + Weight("preRecv") - mRefCount[s]
      BY <1>4, <1>5, <1>6, <3>1, SMTT(30)
    <3> QED
      BY <1>2, <1>3, <3>2, RefKept
  <2> QED
    BY <1>3, <2>1, <2>2
<1>8. posted'[s] = posted[s] \/ posted'[s] = posted[s] \cup {"receive"}
  BY <1>3, <1>4
<1>9. StageOK(s)'
  <2>1. posted'[s] \cap StageIo \subseteq posted[s]
    BY <1>8 DEF StageIo
  <2> QED
    BY <1>2, <1>3, <1>4, <1>6, <2>1, StageKept
<1>10. TokenOK(s)'
  <2>1. CASE posted'[s] = posted[s]
    BY <1>2, <1>3, <1>6, <2>1, TokenKept
  <2>2. CASE posted'[s] = posted[s] \cup {"receive"}
    BY <1>2, <1>3, <1>6, <2>2, TokenPosted
  <2> QED
    BY <1>8, <2>1, <2>2
<1>11. Aside(s)
  <2>1. \A r \in Session \ {s} : Unmoved(r)
    BY <1>3, <1>4 DEF Unmoved, PreRecv
  <2> QED
    BY <1>2, <2>1 DEF Aside, PreRecv, pool
<1>12. "accept" \in posted'[s] \/ h = "accept" => received[s] = 0
  BY <1>2, <1>6, <1>8 DEF SendGood, EarlyOK
<1>13. mRefCount[s] >= 1
  BY <1>5, <1>6
<1> QED
  BY <1>2, <1>3, <1>4, <1>6, <1>7, <1>9, <1>10, <1>11, <1>12, <1>13, AsideKeeps

\* How many places t has for s, with s the session it works on or not.
LEMMA NumberFacts ==
  ASSUME TypeOK, TypeOK', NEW t \in IoThread, NEW s \in Session, NEW g, NEW h, Local(t, s, g, h)
  PROVE  /\ Number(t, s) = Counted(t, s) + (IF g \in {"flush", "flushLocked"} THEN 1 ELSE 0)
                             + (IF g \in Sending THEN transferred[t] ELSE 0)
         /\ Number(t, s)' = Counted(t, s)' + (IF h \in {"flush", "flushLocked"} THEN 1 ELSE 0)
                              + (IF h \in Sending THEN transferred'[t] ELSE 0)
         /\ Counted(t, s) \in Nat /\ Counted(t, s)' \in Nat
         /\ transferred[t] \in Nat /\ transferred'[t] \in Nat
         /\ Cardinality(Waiting(s)) \in Nat /\ Cardinality(Waiting(s)') \in Nat
<1>1. Steps(t, s, g, h) /\ at \in [IoThread -> Session]
  BY DEF Local, TypeOK
<1>2. /\ at'[t] = s /\ stage(t)' = h /\ stage(t) = g
      /\ at[t] = s \/ g \in Resting
  BY <1>1 DEF Steps, Moves
<1>3. g \in Resting => g \notin {"flush", "flushLocked"} /\ g \notin Sending
  BY DEF Resting, Sending
<1>4. /\ Flushing(t, s) = (IF g \in {"flush", "flushLocked"} THEN 1 ELSE 0)
      /\ Posted(t, s) = (IF g \in Sending THEN transferred[t] ELSE 0)
  BY <1>2, <1>3 DEF Flushing, Posted
<1>5. /\ Flushing(t, s)' = (IF h \in {"flush", "flushLocked"} THEN 1 ELSE 0)
      /\ Posted(t, s)' = (IF h \in Sending THEN transferred'[t] ELSE 0)
  BY <1>2 DEF Flushing, Posted
<1>6. Number(t, s) = Counted(t, s) + Flushing(t, s) + Posted(t, s)
  BY DEF Number, Counted
<1>7. Number(t, s)' = Counted(t, s)' + Flushing(t, s)' + Posted(t, s)'
  BY DEF Number, Counted
<1>8. Counted(t, s) \in Nat
  BY CountedType
<1>9. Counted(t, s)' \in Nat
  <2>1. TypeOK => Counted(t, s) \in Nat
    BY CountedType
  <2>2. /\ LSendRequestSessionList'[t] \in Seq(Session)
        /\ LSendRequestFailedSessionList'[t] \in Seq(Session)
    BY DEF TypeOK
  <2>3. \A q \in Seq(Session) : Count(q, s) \in Nat
    BY CountAppend
  <2> QED
    BY <2>2, <2>3 DEF Counted
<1>10. transferred[t] \in Nat /\ transferred'[t] \in Nat
  BY DEF TypeOK
<1>11. Cardinality(Waiting(s)) \in Nat
  BY WaitingFacts
<1>12. Cardinality(Waiting(s)') \in Nat
  BY WaitingFactsStep DEF WaitingCounted
<1> QED
  BY <1>4, <1>5, <1>6, <1>7, <1>8, <1>9, <1>10, <1>11, <1>12

\* A session taken from the list is being flushed, and the failed ones are listed again.
LEMMA SendJobGood ==
  ASSUME Base, Base', Good, NEW t \in IoThread, DoSendJob(t)
  PROVE  Good'
<1>1. /\ TypeOK /\ TypeOK' /\ ~crashed
  BY DEF Base, Good
<1>2. Still
  BY <1>1 DEF DoSendJob, Still, session, kernel, pool
<1>3. /\ LSendRequestSessionList \in [IoThread -> Seq(Session)]
      /\ LSendRequestFailedSessionList \in [IoThread -> Seq(Session)]
      /\ LSendRequestSessionList[t] \in Seq(Session)
      /\ LSendRequestFailedSessionList[t] \in Seq(Session)
  BY <1>1 DEF TypeOK
<1>4. /\ \A r \in Session : Unmoved(r) /\ (InPool(r)' <=> InPool(r))
      /\ \A r \in Session : Waiting(r)' = Waiting(r)
      /\ \A u \in IoThread : transferred'[u] = transferred[u]
  BY <1>2 DEF Still, Unmoved, InPool, Waiting, kernel
<1>5. CASE /\ LSendRequestSessionList[t] # << >>
           /\ Head(LSendRequestSessionList[t]) \in Session
           /\ Steps(t, Head(LSendRequestSessionList[t]), "job", "flush")
           /\ LSendRequestSessionList' = [LSendRequestSessionList EXCEPT ![t] = Tail(@)]
           /\ UNCHANGED LSendRequestFailedSessionList
  <2>1. PICK s \in Session : s = Head(LSendRequestSessionList[t])
    BY <1>5
  <2>2. Steps(t, s, "job", "flush")
    BY <1>5, <2>1
  <2>3. /\ LSendRequestSessionList'[t] = Tail(LSendRequestSessionList[t])
        /\ LSendRequestFailedSessionList'[t] = LSendRequestFailedSessionList[t]
        /\ \A u \in IoThread \ {t} :
             /\ LSendRequestSessionList'[u] = LSendRequestSessionList[u]
             /\ LSendRequestFailedSessionList'[u] = LSendRequestFailedSessionList[u]
    BY <1>3, <1>5
  <2>4. ASSUME NEW r \in Session
        PROVE  /\ Counted(t, r)' \in Nat
               /\ Counted(t, r) = Counted(t, r)' + (IF r = s THEN 1 ELSE 0)
    <3>1. PICK q \in Seq(Session) : q = LSendRequestSessionList[t] /\ q # << >> /\ Head(q) = s
      BY <1>3, <1>5, <2>1
    <3>2. /\ Count(Tail(q), r) \in Nat
          /\ Count(q, r) = Count(Tail(q), r) + (IF s = r THEN 1 ELSE 0)
      BY <3>1, CountTail
    <3>3. PICK f \in Nat : f = Count(LSendRequestFailedSessionList[t], r)
      BY <1>3, CountAppend
    <3>4. Counted(t, r) = Count(q, r) + f /\ Counted(t, r)' = Count(Tail(q), r) + f
      BY <2>3, <3>1, <3>3 DEF Counted
    <3> QED
      BY <3>2, <3>3, <3>4
  <2>5. Local(t, s, "job", "flush")
    <3>1. ASSUME NEW r \in Session \ {s} PROVE Counted(t, r)' = Counted(t, r)
      BY <2>4
    <3> QED
      BY <1>4, <2>2, <2>3, <3>1 DEF Local
  <2>6. ListedOK(s)'
    <3>1. ListedOK(s)
      BY GoodParts
    <3>2. "job" \notin {"flush", "flushLocked"} /\ "job" \notin Sending /\ "flush" \notin Sending
          /\ "job" \notin Ending
      BY DEF Sending, Ending
    <3>3. PICK a \in Nat, b \in Nat : a = Counted(t, s) /\ b = Counted(t, s)' /\ a = b + 1
      BY <1>1, <2>4, CountedType
    <3>4. Number(t, s) = a /\ Number(t, s)' = b + 1
      <4>1. PICK g, h : g = "job" /\ h = "flush"
        OBVIOUS
      <4>2. Local(t, s, g, h)
        BY <2>5, <4>1
      <4>3. /\ Number(t, s) = Counted(t, s) + (IF g \in {"flush", "flushLocked"} THEN 1 ELSE 0)
                                 + (IF g \in Sending THEN transferred[t] ELSE 0)
            /\ Number(t, s)' = Counted(t, s)' + (IF h \in {"flush", "flushLocked"} THEN 1 ELSE 0)
                                  + (IF h \in Sending THEN transferred'[t] ELSE 0)
        BY <1>1, <4>2, NumberFacts
      <4>4. /\ g \notin {"flush", "flushLocked"} /\ g \notin Sending
            /\ h \in {"flush", "flushLocked"} /\ h \notin Sending
        BY <3>2, <4>1
      <4>5. Number(t, s) = Counted(t, s) + 0 + 0
        BY <4>3, <4>4
      <4>6. Number(t, s)' = Counted(t, s)' + 1 + 0
        BY <4>3, <4>4
      <4>7. Number(t, s) = a + 0 + 0
        BY <3>3, <4>5
      <4>8. Number(t, s)' = b + 1 + 0
        BY <3>3, <4>6
      <4> QED
        BY <4>7, <4>8
    <3>5. PICK w \in Nat : w = Cardinality(Waiting(s)) /\ w = Cardinality(Waiting(s)')
      BY <1>1, <1>4, WaitingFacts
    <3>6. Cardinality(Waiting(s)') - Number(t, s)' <= Cardinality(Waiting(s)) - Number(t, s)
      BY <3>3, <3>4, <3>5
    <3>7. mConnected'[s] = mConnected[s]
      BY <1>4 DEF Unmoved
    <3> QED
      BY <1>1, <2>5, <3>1, <3>2, <3>6, <3>7, ListedKept
  <2>7. Calm("job", "flush")
    BY DEF Calm, Weight, Refs, TwoRefs, Receiving, Strange, Returning, Handling, Sending, Sent,
           Ending
  <2> QED
    BY <1>1, <1>2, <2>5, <2>6, <2>7, StillGood
<1>6. CASE /\ LSendRequestSessionList[t] = << >>
           /\ at[t] \in Session /\ Steps(t, at[t], "job", "idle")
           /\ LSendRequestSessionList' =
                [LSendRequestSessionList EXCEPT ![t] = LSendRequestFailedSessionList[t]]
           /\ LSendRequestFailedSessionList' =
                [LSendRequestFailedSessionList EXCEPT ![t] = << >>]
  <2>1. PICK s \in Session : s = at[t]
    BY <1>6
  <2>2. Steps(t, s, "job", "idle")
    BY <1>6, <2>1
  <2>3. /\ LSendRequestSessionList'[t] = LSendRequestFailedSessionList[t]
        /\ LSendRequestFailedSessionList'[t] = << >>
        /\ \A u \in IoThread \ {t} :
             /\ LSendRequestSessionList'[u] = LSendRequestSessionList[u]
             /\ LSendRequestFailedSessionList'[u] = LSendRequestFailedSessionList[u]
    BY <1>3, <1>6
  <2>4. ASSUME NEW r \in Session PROVE Counted(t, r)' = Counted(t, r)
    <3>1. PICK f \in Nat : f = Count(LSendRequestFailedSessionList[t], r)
      BY <1>3, CountAppend
    <3>2. Counted(t, r) = 0 + f
      BY <1>6, <3>1, CountNone DEF Counted
    <3>3. Counted(t, r)' = f + 0
      BY <2>3, <3>1, CountNone DEF Counted
    <3> QED
      BY <3>1, <3>2, <3>3
  <2>5. Local(t, s, "job", "idle")
    BY <1>4, <2>2, <2>3, <2>4 DEF Local
  <2>6. ListedOK(s)'
    <3>1. ListedOK(s)
      BY GoodParts
    <3>2. "job" \notin {"flush", "flushLocked"} /\ "job" \notin Sending /\ "job" \notin Ending
      BY DEF Sending, Ending
    <3>3. /\ mConnected'[s] = mConnected[s] /\ mSendBuffer'[s] = mSendBuffer[s]
          /\ handed'[s] = handed[s]
      BY <1>4 DEF Unmoved
    <3> QED
      BY <1>1, <2>4, <2>5, <3>1, <3>2, <3>3, ListedSame
  <2>7. Calm("job", "idle")
    BY DEF Calm, Weight, Refs, TwoRefs, Receiving, Strange, Returning, Handling, Sending, Sent,
           Ending
  <2> QED
    BY <1>1, <1>2, <2>5, <2>6, <2>7, StillGood
<1> QED
  BY <1>5, <1>6, SendJobSteps DEF Base

\* The thread that has a session's receive is the only one to receive on it.
LEMMA ReceiverAlone ==
  ASSUME NEW t \in IoThread, NEW s \in Session, NEW g, NEW h, at \in [IoThread -> Session],
         Steps(t, s, g, h), TokenOK(s), g \in Receiving
  PROVE  /\ "accept" \notin posted[s] /\ "receive" \notin posted[s]
         /\ \A u \in Threads(s, Receiving) : u = t
         /\ (g # "accept" => Threads(s, {"accept"}) = {})
         /\ (g # "commit" => Threads(s, {"commit"}) = {})
         /\ (g = "commit" => Threads(s, {"commit"}) = {t})
<1>1. /\ Receiving \cap Resting = {} /\ {"accept"} \cap Resting = {} /\ {"commit"} \cap Resting = {}
  BY StageSets
<1>2. t \in Threads(s, Receiving)
  BY <1>1, ThreadsStep, SMTT(20)
<1>3. t \in Threads(s, {"accept"}) <=> g \in {"accept"}
  BY <1>1, ThreadsStep, SMTT(30)
<1>4. t \in Threads(s, {"commit"}) <=> g \in {"commit"}
  BY <1>1, ThreadsStep
<1>5. \A u \in Threads(s, Receiving) : u = t
  BY <1>2 DEF TokenOK
<1>6. /\ \A u \in Threads(s, {"accept"}) : u \in Threads(s, Receiving)
      /\ \A u \in Threads(s, {"commit"}) : u \in Threads(s, Receiving)
  BY DEF Threads, Receiving
<1> QED
  BY <1>2, <1>3, <1>4, <1>5, <1>6 DEF TokenOK

\* What a session's buffer and sends are while a reference is held.
LEMMA HeldKeeps ==
  ASSUME TypeOK, TypeOK', NEW t \in IoThread, NEW s \in Session, NEW g, NEW h, Local(t, s, g, h),
         Good, mFreeSessionList' = mFreeSessionList, ~crashed',
         mConnected'[s] = mConnected[s], posted'[s] = posted[s],
         Len(sends'[s]) + Weight(h) - mRefCount'[s] <= Len(sends[s]) + Weight(g) - mRefCount[s],
         h \in Receiving => g \in Receiving, h # "accept", h \notin Strange, h \notin Returning,
         mRefCount[s] >= 1, SendGood(s)', ListedOK(s)'
  PROVE  Good'
<1>1. /\ RefOK(s) /\ StageOK(s) /\ TokenOK(s) /\ PoolOK(s) /\ PoolOnce /\ ~crashed
      /\ Steps(t, s, g, h)
  BY GoodParts DEF Local
<1>2. at \in [IoThread -> Session] /\ mRefCount[s] \in Int
  BY DEF TypeOK
<1>3. (InPool(s)' <=> InPool(s)) /\ PoolOnce'
  BY <1>1 DEF InPool, PoolOnce
<1>4. RefOK(s)'
  <2>1. PICK b \in Nat, c \in 0 .. 1 :
          b = Booked(posted[s]) /\ b = Booked(posted'[s]) /\ c = mConnected[s] /\ c = mConnected'[s]
    BY TypedSession DEF Typed
  <2>2. PICK m, n \in Int : m = mRefCount[s] /\ n = mRefCount'[s]
    BY DEF TypeOK
  <2>3. PICK x \in Nat, y \in Nat : x = Len(sends[s]) /\ y = Len(sends'[s])
    <3>1. sends[s] \in Seq(Nat \ {0}) /\ sends'[s] \in Seq(Nat \ {0})
      BY DEF TypeOK
    <3> QED
      BY <3>1
  <2>4. PICK v \in Nat, w \in Nat : v = Weight(g) /\ w = Weight(h)
    BY DEF Weight
  <2>5. y + w - n <= x + v - m
    BY <2>2, <2>3, <2>4
  <2>6. b + y + c + w - n <= b + x + c + v - m
    BY <2>5
  <2>7. Booked(posted'[s]) + Len(sends'[s]) + mConnected'[s] + Weight(h) - mRefCount'[s] <=
           Booked(posted[s]) + Len(sends[s]) + mConnected[s] + Weight(g) - mRefCount[s]
    BY <2>1, <2>2, <2>3, <2>4, <2>6
  <2> QED
    BY <1>1, <2>7, RefKept
<1>5. StageOK(s)' /\ TokenOK(s)'
  BY <1>1, <1>2, StageKept, TokenKept
<1>6. PoolOK(s)'
  BY <1>1, <1>2, <1>3, PoolHeld
<1> QED
  BY <1>1, <1>3, <1>4, <1>5, <1>6, GoodWhole

\* A thread that holds a reference: the session is referenced.
LEMMA Referenced ==
  ASSUME TypeOK, NEW t \in IoThread, NEW s \in Session, NEW g, NEW h, Steps(t, s, g, h), RefOK(s),
         g \in Refs \/ sends[s] # << >>
  PROVE  mRefCount[s] >= 1
<1>1. Booked(posted[s]) + Len(sends[s]) + mConnected[s] + Weight(g) <= mRefCount[s]
  BY NeedFacts
<1>2. /\ Booked(posted[s]) \in Nat /\ Len(sends[s]) \in Nat /\ mConnected[s] \in 0 .. 1
      /\ mRefCount[s] \in Int /\ sends[s] \in Seq(Nat \ {0})
  BY TypedSession DEF Typed
<1>3. Weight(g) \in Nat /\ (g \in Refs => Weight(g) >= 1)
  BY DEF Weight, Refs
<1>4. sends[s] # << >> => Len(sends[s]) >= 1
  BY <1>2
<1> QED
  BY <1>1, <1>2, <1>3, <1>4

\* A packet is counted before its reply is stored.
LEMMA ReceiveGood ==
  ASSUME Base, Base', Good, NEW t \in IoThread, RecvCompletion(t)
  PROVE  Good'
<1>1. PICK s \in Session : s = at[t]
  BY ReceiveSteps DEF Base
<1>2. /\ TypeOK /\ TypeOK' /\ RefOK(s) /\ TokenOK(s) /\ SendGood(s) /\ ListedOK(s)
      /\ at \in [IoThread -> Session] /\ ~crashed
  BY GoodParts DEF Base, TypeOK
<1>3. PICK h : Steps(t, s, "receive", h) /\ h \in {"preRecv", "commit"} /\
               (h = "commit" => received' = [received EXCEPT ![s] = @ + 1])
  <2>1. \/ Steps(t, s, "receive", "preRecv")
        \/ /\ Steps(t, s, "receive", "commit")
           /\ received' = [received EXCEPT ![s] = @ + 1]
    BY <1>1, ReceiveSteps DEF Base
  <2> QED
    BY <2>1
<1>4. /\ UNCHANGED <<mConnected, mRefCount, mSendPendingCount, mSendBuffer, sends, posted, handed,
                     mFreeSessionList, lists, transferred, crashed>>
      /\ received' = received \/ received' = [received EXCEPT ![s] = @ + 1]
      /\ received \in [Session -> 0 .. MaxRequest]
  BY <1>1, <1>2 DEF RecvCompletion, session, pool, TypeOK
<1>5. Local(t, s, "receive", h) /\ Counted(t, s)' = Counted(t, s)
  <2>1. \A r \in Session \ {s} : Unmoved(r)
    BY <1>4 DEF Unmoved
  <2> QED
    BY <1>3, <1>4, <2>1, LocalAlone DEF lists
<1>6. /\ "receive" \in Receiving /\ h \in Receiving /\ h # "accept" /\ h \notin Strange
      /\ h \notin Returning /\ "receive" \in Refs /\ "receive" \notin Handling /\ h \notin Handling
      /\ Weight("receive") = 1 /\ Weight(h) = 1 /\ "receive" \notin Ending
      /\ "receive" \notin Sending
  BY <1>3 DEF Receiving, Strange, Returning, Refs, TwoRefs, Weight, Handling, Sending, Sent, Ending
<1>7. /\ "accept" \notin posted[s] /\ Threads(s, {"accept"}) = {} /\ Threads(s, {"commit"}) = {}
  BY <1>2, <1>3, <1>6, ReceiverAlone
<1>8. /\ Threads(s, Handling)' = Threads(s, Handling) /\ Threads(s, Sent)' = Threads(s, Sent)
      /\ Threads(s, {"accept"})' = {}
      /\ Threads(s, {"commit"})' # {} <=> h = "commit"
  <2>1. "receive" \notin Sent /\ h \notin Sent
    BY <1>6 DEF Handling
  <2>2. Threads(s, Handling)' = Threads(s, Handling)
    BY <1>2, <1>3, <1>6, StageSets, SameThreads
  <2>3. Threads(s, Sent)' = Threads(s, Sent)
    BY <1>2, <1>3, <2>1, StageSets, SameThreads
  <2>4. Threads(s, {"accept"})' = Threads(s, {"accept"})
    BY <1>2, <1>3, <1>6, StageSets, SameThreads
  <2>5. \A u \in IoThread : u \in Threads(s, {"commit"})' <=>
                (u # t /\ u \in Threads(s, {"commit"})) \/ (u = t /\ h \in {"commit"})
    BY <1>2, <1>3, StageSets, ThreadsStep
  <2>6. Threads(s, {"commit"})' \subseteq IoThread
    BY DEF Threads
  <2> QED
    BY <1>7, <2>2, <2>3, <2>4, <2>5, <2>6
<1>9. PICK m \in Nat, n \in Nat : m = received[s] /\ n = received'[s] /\ n \in {m, m + 1}
                                  /\ (h = "commit" => n = m + 1)
  BY <1>3, <1>4
<1>10. SendGood(s)'
  <2>1. EarlyOK(s) /\ SendOK(s) /\ OrderOK(s) /\ FlightOK(s)
    BY <1>2 DEF SendGood
  <2>2. Early(s)' => Early(s)
    BY <1>7, <1>8, <1>9 DEF Early
  <2>3. EarlyOK(s)'
    BY <1>4, <1>7, <1>8, <1>9, <2>1, <2>2 DEF EarlyOK
  <2>4. SendOK(s)'
    BY <1>4, <1>8, <2>1 DEF SendOK
  <2>5. Seen(s) = m /\ Seen(s)' \in Nat /\ Seen(s)' >= m
    BY <1>7, <1>8, <1>9 DEF Seen
  <2>6. OrderOK(s)'
    <3>1. /\ \A i \in 1 .. Len(mSendBuffer[s]) : mSendBuffer[s][i] \in Nat
          /\ \A i \in 1 .. Len(handed[s]) : handed[s][i] \in Nat
      <4>1. mSendBuffer[s] \in Seq(1 .. MaxRequest) /\ handed[s] \in Seq(1 .. MaxRequest)
        BY <1>2, TypedSession DEF Typed
      <4> QED
        BY <4>1, Packets
    <3> QED
      BY <1>4, <2>1, <2>5, <3>1, SMTT(20) DEF OrderOK
  <2>7. FlightOK(s)'
    <3>1. \A k : Ordered(s, k)' = Ordered(s, k)
      BY <1>4 DEF Ordered
    <3>2. Blocked(s) => Blocked(s)'
      BY <1>4, <1>8, <2>2 DEF Blocked
    <3>3. \A u : Ordered(s, transferred[u])' = Ordered(s, transferred[u])
      BY <1>4 DEF Ordered
    <3> QED
      BY <1>4, <1>8, <2>1, <3>1, <3>2, <3>3 DEF FlightOK
  <2> QED
    BY <2>3, <2>4, <2>6, <2>7 DEF SendGood
<1>11. ListedOK(s)'
  <2>1. "receive" \notin {"flush", "flushLocked"}
    OBVIOUS
  <2> QED
    BY <1>2, <1>4, <1>5, <1>6, <2>1, ListedSame
<1>12. mRefCount[s] >= 1
  BY <1>2, <1>3, <1>6, Referenced
<1>13. Len(sends'[s]) + Weight(h) - mRefCount'[s]
         <= Len(sends[s]) + Weight("receive") - mRefCount[s]
  <2>1. PICK g : g = "receive"
    OBVIOUS
  <2>2. Len(sends[s]) \in Nat /\ mRefCount[s] \in Int
    BY <1>2, TypedSession DEF Typed
  <2>3. Len(sends'[s]) + Weight(h) - mRefCount'[s] <= Len(sends[s]) + Weight(g) - mRefCount[s]
    BY <1>4, <1>6, <2>1, <2>2
  <2> QED
    BY <2>1, <2>3
<1> QED
  BY <1>2, <1>4, <1>5, <1>6, <1>10, <1>11, <1>12, <1>13, HeldKeeps

-----------------------------------------------------------------------------
(* The order of the replies under the four things that happen to a buffer. *)
LEMMA AppendFacts ==
  ASSUME NEW q \in Seq(1 .. MaxRequest), NEW x
  PROVE  /\ Len(Append(q, x)) = Len(q) + 1 /\ Len(q) \in Nat
         /\ \A i \in 1 .. Len(q) : Append(q, x)[i] = q[i]
         /\ Append(q, x)[Len(q) + 1] = x
OBVIOUS

\* What is taken of the buffer is of packets.
LEMMA PacketPieces ==
  ASSUME NEW q \in Seq(1 .. MaxRequest), NEW m \in Nat \ {0}, NEW n \in Nat, n <= Len(q)
  PROVE  /\ SubSeq(q, m, n) \in Seq(1 .. MaxRequest)
         /\ Len(SubSeq(q, m, n)) = IF m <= n THEN n - m + 1 ELSE 0
         /\ \A i \in 1 .. n - m + 1 : SubSeq(q, m, n)[i] = q[m + i - 1]
<1>1. PICK S : S = 1 .. MaxRequest
  OBVIOUS
<1>2. q \in Seq(S)
  BY <1>1
<1>3. /\ SubSeq(q, m, n) \in Seq(S)
      /\ Len(SubSeq(q, m, n)) = IF m <= n THEN n - m + 1 ELSE 0
      /\ \A i \in 1 .. n - m + 1 : SubSeq(q, m, n)[i] = q[m + i - 1]
  BY <1>2, Pieces
<1> QED
  BY <1>1, <1>3

\* A newer packet at the end.
LEMMA RisingAppend ==
  ASSUME NEW q \in Seq(1 .. MaxRequest), NEW x \in Nat, Rising(q),
         \A i \in 1 .. Len(q) : q[i] < x
  PROVE  Rising(Append(q, x))
<1>1. /\ DOMAIN Append(q, x) = 1 .. Len(Append(q, x)) /\ DOMAIN q = 1 .. Len(q)
  OBVIOUS
<1>2. /\ Len(Append(q, x)) = Len(q) + 1 /\ Len(q) \in Nat
      /\ \A i \in 1 .. Len(q) : Append(q, x)[i] = q[i]
      /\ Append(q, x)[Len(q) + 1] = x
  BY AppendFacts
<1> SUFFICES ASSUME NEW i \in 1 .. Len(q) + 1, NEW j \in 1 .. Len(q) + 1, i < j
             PROVE  Append(q, x)[i] < Append(q, x)[j]
  BY <1>1, <1>2 DEF Rising
<1>3. i \in 1 .. Len(q) /\ Append(q, x)[i] = q[i]
  BY <1>2
<1>4. CASE j = Len(q) + 1
  BY <1>2, <1>3, <1>4
<1>5. CASE j # Len(q) + 1
  <2>1. j \in 1 .. Len(q) /\ Append(q, x)[j] = q[j]
    BY <1>2, <1>5
  <2> QED
    BY <1>1, <1>3, <2>1 DEF Rising
<1> QED
  BY <1>4, <1>5

LEMMA OrderedAppend ==
  ASSUME NEW buffer \in Seq(1 .. MaxRequest), NEW sent \in Seq(1 .. MaxRequest), NEW n \in Nat,
         NEW x \in Nat, OrderedBy(buffer, sent, n), \A i \in 1 .. Len(sent) : sent[i] < x
  PROVE  OrderedBy(Append(buffer, x), sent, n)
<1>1. /\ Len(Append(buffer, x)) = Len(buffer) + 1 /\ Len(buffer) \in Nat
      /\ \A i \in 1 .. Len(buffer) : Append(buffer, x)[i] = buffer[i]
      /\ Append(buffer, x)[Len(buffer) + 1] = x
  BY AppendFacts
<1>2. Len(sent) \in Nat
  OBVIOUS
<1>3. /\ n <= Len(buffer) /\ n <= Len(sent)
      /\ \A i \in 1 .. Len(sent) - n : \A j \in 1 .. Len(buffer) : sent[i] < buffer[j]
      /\ \A j \in 1 .. n : sent[Len(sent) - n + j] = buffer[j]
  BY DEF OrderedBy
<1>4. ASSUME NEW i \in 1 .. Len(sent) - n, NEW j \in 1 .. Len(buffer) + 1
      PROVE  sent[i] < Append(buffer, x)[j]
  <2>1. i \in 1 .. Len(sent)
    BY <1>2
  <2>2. CASE j = Len(buffer) + 1
    BY <1>1, <2>1, <2>2
  <2>3. CASE j # Len(buffer) + 1
    <3>1. j \in 1 .. Len(buffer)
      BY <1>1, <2>3
    <3> QED
      BY <1>1, <1>3, <3>1
  <2> QED
    BY <2>2, <2>3
<1>5. \A j \in 1 .. n : j \in 1 .. Len(buffer)
  BY <1>1, <1>3
<1>6. \A j \in 1 .. n : sent[Len(sent) - n + j] = Append(buffer, x)[j]
  BY <1>1, <1>3, <1>5
<1>7. n <= Len(Append(buffer, x))
  BY <1>1, <1>3
<1> QED
  BY <1>1, <1>3, <1>4, <1>6, <1>7 DEF OrderedBy

\* Handing over the start of a buffer.
LEMMA Joined ==
  ASSUME NEW p \in Seq(1 .. MaxRequest), NEW q \in Seq(1 .. MaxRequest), NEW n \in 1 .. Len(q)
  PROVE  /\ p \o SubSeq(q, 1, n) \in Seq(1 .. MaxRequest)
         /\ Len(p \o SubSeq(q, 1, n)) = Len(p) + n /\ Len(p) \in Nat /\ Len(q) \in Nat
         /\ \A i \in 1 .. Len(p) : (p \o SubSeq(q, 1, n))[i] = p[i]
         /\ \A i \in 1 .. n : (p \o SubSeq(q, 1, n))[Len(p) + i] = q[i]
<1>1. Len(q) \in Nat /\ Len(p) \in Nat /\ n \in Nat /\ n <= Len(q) /\ n >= 1
  OBVIOUS
<1>2. PICK r : r = SubSeq(q, 1, n)
  OBVIOUS
<1>3. /\ r \in Seq(1 .. MaxRequest) /\ Len(r) = n
      /\ \A i \in 1 .. n : r[i] = q[i]
  <2>1. /\ SubSeq(q, 1, n) \in Seq(1 .. MaxRequest)
        /\ Len(SubSeq(q, 1, n)) = IF 1 <= n THEN n - 1 + 1 ELSE 0
        /\ \A i \in 1 .. n - 1 + 1 : SubSeq(q, 1, n)[i] = q[1 + i - 1]
    BY <1>1, PacketPieces
  <2>2. \A i \in 1 .. n : 1 + i - 1 = i /\ i \in 1 .. n - 1 + 1
    BY <1>1
  <2> QED
    BY <1>1, <1>2, <2>1, <2>2
<1>4. /\ p \o r \in Seq(1 .. MaxRequest) /\ Len(p \o r) = Len(p) + n
      /\ \A i \in 1 .. Len(p) : (p \o r)[i] = p[i]
      /\ \A i \in 1 .. n : (p \o r)[Len(p) + i] = r[i]
  <2>1. /\ p \o r \in Seq(1 .. MaxRequest) /\ Len(p \o r) = Len(p) + Len(r)
        /\ \A i \in 1 .. Len(p) + Len(r) : (p \o r)[i] = IF i <= Len(p) THEN p[i] ELSE r[i - Len(p)]
    BY <1>3, ConcatProperties
  <2>2. \A i \in 1 .. Len(p) : i \in 1 .. Len(p) + Len(r) /\ i <= Len(p)
    BY <1>1, <1>3
  <2>3. \A i \in 1 .. n : /\ Len(p) + i \in 1 .. Len(p) + Len(r) /\ ~(Len(p) + i <= Len(p))
                          /\ Len(p) + i - Len(p) = i
    BY <1>1, <1>3
  <2> QED
    BY <1>3, <2>1, <2>2, <2>3
<1> QED
  BY <1>1, <1>2, <1>3, <1>4

\* A send of the first n packets.
LEMMA OrderedSend ==
  ASSUME NEW buffer \in Seq(1 .. MaxRequest), NEW sent \in Seq(1 .. MaxRequest),
         NEW n \in 1 .. Len(buffer), OrderedBy(buffer, sent, 0), Rising(buffer), Rising(sent)
  PROVE  /\ OrderedBy(buffer, sent \o SubSeq(buffer, 1, n), n)
         /\ Rising(sent \o SubSeq(buffer, 1, n))
<1>1. PICK q : q = sent \o SubSeq(buffer, 1, n)
  OBVIOUS
<1>2. /\ q \in Seq(1 .. MaxRequest) /\ Len(q) = Len(sent) + n /\ Len(sent) \in Nat
      /\ Len(buffer) \in Nat
      /\ \A i \in 1 .. Len(sent) : q[i] = sent[i]
      /\ \A i \in 1 .. n : q[Len(sent) + i] = buffer[i]
  BY <1>1, Joined
<1>3. \A i \in 1 .. Len(sent) : \A j \in 1 .. Len(buffer) : sent[i] < buffer[j]
  <2>1. Len(sent) - 0 = Len(sent)
    BY <1>2
  <2> QED
    BY <2>1 DEF OrderedBy
<1>4. n \in Nat /\ n <= Len(buffer) /\ n >= 1
  BY <1>2
<1>5. OrderedBy(buffer, q, n)
  <2>1. Len(q) - n = Len(sent)
    BY <1>2, <1>4
  <2>2. n <= Len(q)
    BY <1>2, <1>4
  <2> QED
    BY <1>2, <1>3, <1>4, <2>1, <2>2 DEF OrderedBy
<1>6. Rising(q)
  <2>1. /\ DOMAIN q = 1 .. Len(sent) + n /\ DOMAIN sent = 1 .. Len(sent)
        /\ DOMAIN buffer = 1 .. Len(buffer)
    BY <1>2
  <2> SUFFICES ASSUME NEW i \in 1 .. Len(sent) + n, NEW j \in 1 .. Len(sent) + n, i < j
               PROVE  q[i] < q[j]
    BY <2>1 DEF Rising
  <2>2. CASE j <= Len(sent)
    <3>1. i \in 1 .. Len(sent) /\ j \in 1 .. Len(sent)
      BY <1>2, <2>2
    <3> QED
      BY <1>2, <2>1, <3>1 DEF Rising
  <2>3. CASE i <= Len(sent) /\ ~(j <= Len(sent))
    <3>1. i \in 1 .. Len(sent) /\ j - Len(sent) \in 1 .. n /\ j - Len(sent) \in 1 .. Len(buffer)
      BY <1>2, <1>4, <2>3
    <3>2. q[Len(sent) + (j - Len(sent))] = buffer[j - Len(sent)] /\ Len(sent) + (j - Len(sent)) = j
      BY <1>2, <3>1
    <3> QED
      BY <1>2, <1>3, <3>1, <3>2
  <2>4. CASE ~(i <= Len(sent))
    <3>1. /\ i - Len(sent) \in 1 .. n /\ i - Len(sent) \in 1 .. Len(buffer)
          /\ j - Len(sent) \in 1 .. n /\ j - Len(sent) \in 1 .. Len(buffer)
          /\ i - Len(sent) < j - Len(sent)
      BY <1>2, <1>4, <2>4
    <3>2. q[Len(sent) + (j - Len(sent))] = buffer[j - Len(sent)] /\ Len(sent) + (j - Len(sent)) = j
      BY <1>2, <3>1
    <3>3. q[Len(sent) + (i - Len(sent))] = buffer[i - Len(sent)] /\ Len(sent) + (i - Len(sent)) = i
      BY <1>2, <3>1
    <3>4. buffer[i - Len(sent)] < buffer[j - Len(sent)]
      BY <2>1, <3>1 DEF Rising
    <3> QED
      BY <3>2, <3>3, <3>4
  <2> QED
    BY <1>2, <2>2, <2>3, <2>4
<1> QED
  BY <1>1, <1>5, <1>6

\* A part of what was handed over did not leave.
LEMMA OrderedPart ==
  ASSUME NEW buffer \in Seq(1 .. MaxRequest), NEW sent \in Seq(1 .. MaxRequest), NEW n \in Nat,
         NEW k \in Nat, k <= n, OrderedBy(buffer, sent, n), Rising(sent)
  PROVE  /\ OrderedBy(buffer, SubSeq(sent, 1, Len(sent) - k), n - k)
         /\ Rising(SubSeq(sent, 1, Len(sent) - k))
         /\ Len(SubSeq(sent, 1, Len(sent) - k)) = Len(sent) - k
         /\ \A i \in 1 .. Len(sent) - k : SubSeq(sent, 1, Len(sent) - k)[i] = sent[i]
<1>1. /\ Len(buffer) \in Nat /\ Len(sent) \in Nat
      /\ n <= Len(buffer) /\ n <= Len(sent)
      /\ \A i \in 1 .. Len(sent) - n : \A j \in 1 .. Len(buffer) : sent[i] < buffer[j]
      /\ \A j \in 1 .. n : sent[Len(sent) - n + j] = buffer[j]
  BY DEF OrderedBy
<1>2. PICK m \in Nat : m = Len(sent) - k /\ m <= Len(sent)
  <2>1. Len(sent) - k \in Nat /\ Len(sent) - k <= Len(sent)
    BY <1>1
  <2> QED
    BY <2>1
<1>3. PICK q : q = SubSeq(sent, 1, m)
  OBVIOUS
<1>4. q \in Seq(1 .. MaxRequest) /\ Len(q) = m /\ \A i \in 1 .. m : q[i] = sent[i]
  <2>1. /\ SubSeq(sent, 1, m) \in Seq(1 .. MaxRequest)
        /\ Len(SubSeq(sent, 1, m)) = IF 1 <= m THEN m - 1 + 1 ELSE 0
        /\ \A i \in 1 .. m - 1 + 1 : SubSeq(sent, 1, m)[i] = sent[1 + i - 1]
    <3>1. 1 \in Nat \ {0} /\ m <= Len(sent)
      BY <1>2
    <3> QED
      BY <3>1, PacketPieces
  <2>2. \A i \in 1 .. m : 1 + i - 1 = i /\ i \in 1 .. m - 1 + 1
    BY <1>2
  <2>3. Len(q) = m
    BY <1>2, <1>3, <2>1
  <2> QED
    BY <1>3, <2>1, <2>2, <2>3
<1>5. OrderedBy(buffer, q, n - k)
  <2>1. m - (n - k) = Len(sent) - n
    BY <1>1, <1>2
  <2>2. n - k <= Len(buffer) /\ n - k <= m
    BY <1>1, <1>2
  <2>3. \A i \in 1 .. Len(sent) - n : i \in 1 .. m
    BY <1>1, <1>2
  <2>4. \A j \in 1 .. n - k : j \in 1 .. n /\ Len(sent) - n + j \in 1 .. m
    BY <1>1, <1>2
  <2>5. \A i \in 1 .. m - (n - k) : \A j \in 1 .. Len(buffer) : q[i] < buffer[j]
    BY <1>1, <1>4, <2>1, <2>3
  <2>6. \A j \in 1 .. n - k : q[m - (n - k) + j] = buffer[j]
    BY <1>1, <1>4, <2>1, <2>4
  <2> QED
    BY <1>4, <2>2, <2>5, <2>6 DEF OrderedBy
<1>6. Rising(q)
  <2>1. DOMAIN q = 1 .. m /\ DOMAIN sent = 1 .. Len(sent)
    BY <1>4
  <2>2. \A i \in 1 .. m : i \in 1 .. Len(sent)
    BY <1>1, <1>2
  <2> QED
    BY <1>4, <2>1, <2>2 DEF Rising
<1> QED
  BY <1>2, <1>3, <1>4, <1>5, <1>6

\* The packets of a completed send leave the buffer.
LEMMA OrderedRest ==
  ASSUME NEW buffer \in Seq(1 .. MaxRequest), NEW sent \in Seq(1 .. MaxRequest), NEW n \in Nat,
         OrderedBy(buffer, sent, n), Rising(buffer)
  PROVE  /\ OrderedBy(SubSeq(buffer, n + 1, Len(buffer)), sent, 0)
         /\ Rising(SubSeq(buffer, n + 1, Len(buffer)))
         /\ Len(SubSeq(buffer, n + 1, Len(buffer))) = Len(buffer) - n
         /\ \A i \in 1 .. Len(buffer) - n :
              SubSeq(buffer, n + 1, Len(buffer))[i] = buffer[n + i] /\ n + i \in 1 .. Len(buffer)
<1>1. /\ Len(buffer) \in Nat /\ Len(sent) \in Nat
      /\ n <= Len(buffer) /\ n <= Len(sent)
      /\ \A i \in 1 .. Len(sent) - n : \A j \in 1 .. Len(buffer) : sent[i] < buffer[j]
      /\ \A j \in 1 .. n : sent[Len(sent) - n + j] = buffer[j]
  BY DEF OrderedBy
<1>2. PICK q : q = SubSeq(buffer, n + 1, Len(buffer))
  OBVIOUS
<1>3. /\ Len(q) = Len(buffer) - n
      /\ \A i \in 1 .. Len(buffer) - n : q[i] = buffer[n + i] /\ n + i \in 1 .. Len(buffer)
      /\ DOMAIN q = 1 .. Len(buffer) - n
  <2>1. n + 1 \in Nat \ {0} /\ Len(buffer) \in Nat
    BY <1>1
  <2>2. /\ q \in Seq(1 .. MaxRequest)
        /\ Len(q) = IF n + 1 <= Len(buffer) THEN Len(buffer) - (n + 1) + 1 ELSE 0
        /\ \A i \in 1 .. Len(buffer) - (n + 1) + 1 : q[i] = buffer[(n + 1) + i - 1]
    <3>1. PICK m \in Nat \ {0}, l \in Nat : m = n + 1 /\ l = Len(buffer)
      BY <2>1
    <3>2. /\ SubSeq(buffer, m, l) \in Seq(1 .. MaxRequest)
          /\ Len(SubSeq(buffer, m, l)) = IF m <= l THEN l - m + 1 ELSE 0
          /\ \A i \in 1 .. l - m + 1 : SubSeq(buffer, m, l)[i] = buffer[m + i - 1]
      BY <3>1, PacketPieces
    <3>3. q = SubSeq(buffer, m, l)
      BY <1>2, <3>1
    <3> QED
      BY <3>1, <3>2, <3>3
  <2>3. /\ Len(buffer) - (n + 1) + 1 = Len(buffer) - n
        /\ \A i \in 1 .. Len(buffer) - n : (n + 1) + i - 1 = n + i /\ n + i \in 1 .. Len(buffer)
    BY <1>1
  <2>4. Len(q) = Len(buffer) - n
    BY <1>1, <2>2
  <2>5. DOMAIN q = 1 .. Len(buffer) - n
    BY <2>2, <2>4
  <2>6. \A i \in 1 .. Len(buffer) - n : q[i] = buffer[n + i] /\ n + i \in 1 .. Len(buffer)
    BY <2>2, <2>3, ZenonT(30)
  <2> QED
    BY <2>4, <2>5, <2>6
<1>4. \A i, j \in 1 .. Len(buffer) : i < j => buffer[i] < buffer[j]
  <2>1. DOMAIN buffer = 1 .. Len(buffer)
    OBVIOUS
  <2> QED
    BY <2>1 DEF Rising
<1>5. OrderedBy(q, sent, 0)
  <2>1. ASSUME NEW i \in 1 .. Len(sent), NEW j \in 1 .. Len(q) PROVE sent[i] < q[j]
    <3>1. q[j] = buffer[n + j] /\ n + j \in 1 .. Len(buffer)
      BY <1>3
    <3>2. CASE i <= Len(sent) - n
      <4>1. i \in 1 .. Len(sent) - n
        BY <1>1, <3>2
      <4> QED
        BY <1>1, <3>1, <4>1
    <3>3. CASE ~(i <= Len(sent) - n)
      <4>1. PICK k \in 1 .. n : i = Len(sent) - n + k /\ k \in 1 .. Len(buffer) /\ k < n + j
        <5>1. i - (Len(sent) - n) \in 1 .. n
          BY <1>1, <3>3
        <5>2. /\ i = Len(sent) - n + (i - (Len(sent) - n))
              /\ i - (Len(sent) - n) \in 1 .. Len(buffer) /\ i - (Len(sent) - n) < n + j
          BY <1>1, <1>3, <5>1
        <5> QED
          BY <5>1, <5>2
      <4>2. sent[i] = buffer[k]
        BY <1>1, <4>1
      <4> QED
        BY <1>4, <3>1, <4>1, <4>2
    <3> QED
      BY <3>2, <3>3
  <2>2. Len(sent) - 0 = Len(sent) /\ 0 <= Len(q) /\ 0 <= Len(sent) /\ 1 .. 0 = {}
    BY <1>1, <1>3
  <2> QED
    BY <2>1, <2>2 DEF OrderedBy
<1>6. Rising(q)
  <2>1. \A i, j \in 1 .. Len(buffer) - n : i < j => n + i < n + j
    BY <1>1
  <2> QED
    BY <1>3, <1>4, <2>1 DEF Rising
<1> QED
  BY <1>2, <1>3, <1>5, <1>6

\* What the thread knows that is about to store a reply.
LEMMA CommitFacts ==
  ASSUME TypeOK, NEW t \in IoThread, NEW s \in Session, NEW h, Steps(t, s, "commit", h),
         h \in {"preRecv", "key"}, TokenOK(s), SendGood(s), received'[s] = received[s]
  PROVE  /\ "accept" \notin posted[s] /\ Threads(s, {"accept"})' = {}
         /\ Threads(s, {"commit"})' = {}
         /\ received[s] >= 1 /\ Seen(s) = received[s] - 1 /\ Seen(s)' = received[s] /\ ~Early(s)'
         /\ (received[s] = 1 => Early(s))
         /\ (h = "preRecv" => Threads(s, Handling)' = Threads(s, Handling))
         /\ Threads(s, Sent)' = Threads(s, Sent)
         /\ received[s] \in Nat
         /\ \A i \in 1 .. Len(mSendBuffer[s]) : mSendBuffer[s][i] < received[s]
         /\ \A i \in 1 .. Len(handed[s]) : handed[s][i] < received[s]
<1>1. at \in [IoThread -> Session] /\ Typed(s)
  BY TypedSession DEF TypeOK
<1>2. "commit" \in Receiving /\ h # "accept" /\ h # "commit"
      /\ "commit" \notin Handling /\ "commit" \notin Sent /\ h \notin Sent
      /\ (h = "preRecv" => h \notin Handling)
  BY DEF Receiving, Handling, Sending, Sent
<1>3. /\ "accept" \notin posted[s] /\ Threads(s, {"accept"}) = {}
      /\ Threads(s, {"commit"}) = {t}
  BY <1>1, <1>2, ReceiverAlone
<1>4. Threads(s, {"accept"})' = {}
  <2>1. Threads(s, {"accept"})' = Threads(s, {"accept"})
    BY <1>1, <1>2, StageSets, SameThreads
  <2> QED
    BY <1>3, <2>1
<1>5. Threads(s, {"commit"})' = {}
  <2>1. \A u \in IoThread : u \in Threads(s, {"commit"})' <=>
                (u # t /\ u \in Threads(s, {"commit"})) \/ (u = t /\ h \in {"commit"})
    BY <1>1, StageSets, ThreadsStep
  <2>2. Threads(s, {"commit"})' \subseteq IoThread
    BY DEF Threads
  <2> QED
    BY <1>2, <1>3, <2>1, <2>2
<1>6. received[s] >= 1 /\ received[s] \in Nat
  <2>1. Threads(s, {"commit"}) # {}
    BY <1>3
  <2> QED
    BY <1>1, <2>1, BoundAssumption DEF SendGood, EarlyOK, Typed
<1>7. /\ Seen(s) = received[s] - 1 /\ Seen(s)' = received[s] /\ ~Early(s)'
      /\ (received[s] = 1 => Early(s))
  BY <1>3, <1>5, <1>6 DEF Seen, Early
<1>8. (h = "preRecv" => Threads(s, Handling)' = Threads(s, Handling))
  BY <1>1, <1>2, StageSets, SameThreads
<1>9. Threads(s, Sent)' = Threads(s, Sent)
  BY <1>1, <1>2, StageSets, SameThreads
<1>10. /\ \A i \in 1 .. Len(mSendBuffer[s]) : mSendBuffer[s][i] < received[s]
       /\ \A i \in 1 .. Len(handed[s]) : handed[s][i] < received[s]
  <2>1. /\ \A i \in 1 .. Len(mSendBuffer[s]) : mSendBuffer[s][i] <= received[s] - 1
        /\ \A i \in 1 .. Len(handed[s]) : handed[s][i] <= received[s] - 1
    BY <1>7 DEF SendGood, OrderOK
  <2>2. /\ \A i \in 1 .. Len(mSendBuffer[s]) : mSendBuffer[s][i] \in Nat
        /\ \A i \in 1 .. Len(handed[s]) : handed[s][i] \in Nat
    BY <1>1, Packets DEF Typed
  <2> QED
    BY <1>6, <2>1, <2>2
<1> QED
  BY <1>3, <1>4, <1>5, <1>6, <1>7, <1>8, <1>9, <1>10

\* A reply that is dropped leaves the buffer as it was.
LEMMA DropSend ==
  ASSUME TypeOK, NEW t \in IoThread, NEW s \in Session, Steps(t, s, "commit", "preRecv"),
         TokenOK(s), SendGood(s), transferred' = transferred, mSendBuffer'[s] = mSendBuffer[s],
         received'[s] = received[s], sends'[s] = sends[s], handed'[s] = handed[s],
         mSendPendingCount'[s] = mSendPendingCount[s], posted'[s] = posted[s]
  PROVE  SendGood(s)'
<1>1. /\ "accept" \notin posted[s] /\ Threads(s, {"accept"})' = {}
      /\ Threads(s, {"commit"})' = {}
      /\ received[s] >= 1 /\ Seen(s)' = received[s] /\ ~Early(s)'
      /\ Threads(s, Handling)' = Threads(s, Handling)
      /\ Threads(s, Sent)' = Threads(s, Sent)
      /\ received[s] \in Nat
      /\ \A i \in 1 .. Len(mSendBuffer[s]) : mSendBuffer[s][i] < received[s]
      /\ \A i \in 1 .. Len(handed[s]) : handed[s][i] < received[s]
  BY CommitFacts
<1>2. EarlyOK(s) /\ SendOK(s) /\ OrderOK(s) /\ FlightOK(s) /\ Typed(s)
  BY TypedSession DEF SendGood
<1>3. EarlyOK(s)'
  BY <1>1 DEF EarlyOK
<1>4. SendOK(s)'
  BY <1>1, <1>2 DEF SendOK
<1>5. OrderOK(s)'
  <2>1. /\ \A i \in 1 .. Len(mSendBuffer[s]) : mSendBuffer[s][i] \in Nat
        /\ \A i \in 1 .. Len(handed[s]) : handed[s][i] \in Nat
    BY <1>2, Packets DEF Typed
  <2> QED
    BY <1>1, <1>2, <2>1 DEF OrderOK
<1>6. FlightOK(s)'
  <2>1. \A k : Ordered(s, k)' = Ordered(s, k)
    BY DEF Ordered
  <2>2. Blocked(s) => Blocked(s)'
    BY <1>1 DEF Blocked
  <2>3. \A u : Ordered(s, transferred[u])' = Ordered(s, transferred[u])
    BY DEF Ordered
  <2> QED
    BY <1>1, <1>2, <2>1, <2>2, <2>3 DEF FlightOK
<1> QED
  BY <1>3, <1>4, <1>5, <1>6 DEF SendGood

\* A reply that is stored is the last in the buffer.
LEMMA StoreSend ==
  ASSUME TypeOK, NEW t \in IoThread, NEW s \in Session, Steps(t, s, "commit", "preRecv"),
         TokenOK(s), SendGood(s), transferred' = transferred,
         mSendBuffer'[s] = Append(mSendBuffer[s], received[s]),
         received'[s] = received[s], sends'[s] = sends[s], handed'[s] = handed[s],
         mSendPendingCount'[s] = mSendPendingCount[s], posted'[s] = posted[s], received[s] > 1
  PROVE  SendGood(s)'
<1>1. /\ "accept" \notin posted[s] /\ Threads(s, {"accept"})' = {}
      /\ Threads(s, {"commit"})' = {}
      /\ received[s] >= 1 /\ Seen(s)' = received[s] /\ ~Early(s)'
      /\ Threads(s, Handling)' = Threads(s, Handling)
      /\ Threads(s, Sent)' = Threads(s, Sent)
      /\ received[s] \in Nat
      /\ \A i \in 1 .. Len(mSendBuffer[s]) : mSendBuffer[s][i] < received[s]
      /\ \A i \in 1 .. Len(handed[s]) : handed[s][i] < received[s]
  BY CommitFacts
<1>2. EarlyOK(s) /\ SendOK(s) /\ OrderOK(s) /\ FlightOK(s) /\ Typed(s)
  BY TypedSession DEF SendGood
<1>3. mSendBuffer[s] \in Seq(1 .. MaxRequest) /\ handed[s] \in Seq(1 .. MaxRequest)
  BY <1>2 DEF Typed
<1>4. EarlyOK(s)'
  BY <1>1 DEF EarlyOK
<1>5. SendOK(s)'
  BY <1>1, <1>2 DEF SendOK
<1>6. OrderOK(s)'
  <2>1. Rising(mSendBuffer'[s])
    <3>1. Rising(mSendBuffer[s])
      BY <1>2 DEF OrderOK
    <3>2. Rising(Append(mSendBuffer[s], received[s]))
      BY <1>1, <1>3, <3>1, RisingAppend
    <3> QED
      BY <3>2
  <2>2. \A i \in 1 .. Len(mSendBuffer'[s]) : mSendBuffer'[s][i] <= received[s]
    <3>1. /\ Len(mSendBuffer'[s]) = Len(mSendBuffer[s]) + 1 /\ Len(mSendBuffer[s]) \in Nat
          /\ \A i \in 1 .. Len(mSendBuffer[s]) : mSendBuffer'[s][i] = mSendBuffer[s][i]
          /\ mSendBuffer'[s][Len(mSendBuffer[s]) + 1] = received[s]
      BY <1>3, AppendFacts
    <3>2. \A i \in 1 .. Len(mSendBuffer[s]) : mSendBuffer[s][i] \in Nat
      BY <1>3, Packets
    <3> SUFFICES ASSUME NEW i \in 1 .. Len(mSendBuffer[s]) + 1
                 PROVE  mSendBuffer'[s][i] <= received[s]
      BY <3>1
    <3>3. CASE i = Len(mSendBuffer[s]) + 1
      BY <1>1, <3>1, <3>3
    <3>4. CASE i # Len(mSendBuffer[s]) + 1
      <4>1. i \in 1 .. Len(mSendBuffer[s])
        BY <3>1, <3>4
      <4>2. mSendBuffer[s][i] < received[s] /\ mSendBuffer[s][i] \in Nat
        BY <1>1, <3>2, <4>1
      <4>3. mSendBuffer'[s][i] = mSendBuffer[s][i]
        BY <3>1, <4>1
      <4> QED
        BY <1>1, <4>2, <4>3
    <3> QED
      BY <3>3, <3>4
  <2>3. \A i \in 1 .. Len(handed[s]) : handed[s][i] \in Nat
    BY <1>3, Packets
  <2>4. \A i \in 1 .. Len(handed'[s]) : handed'[s][i] <= received[s]
    BY <1>1, <2>3
  <2>5. Rising(handed'[s])
    BY <1>2 DEF OrderOK
  <2> QED
    BY <1>1, <2>1, <2>2, <2>4, <2>5 DEF OrderOK, Rising
<1>7. FlightOK(s)'
  <2>1. ASSUME NEW k \in Nat, Ordered(s, k) PROVE Ordered(s, k)'
    <3>1. OrderedBy(mSendBuffer[s], handed[s], k)
      BY <2>1 DEF Ordered
    <3>2. OrderedBy(Append(mSendBuffer[s], received[s]), handed[s], k)
      BY <1>1, <1>3, <3>1, OrderedAppend
    <3>3. OrderedBy(mSendBuffer'[s], handed'[s], k)
      BY <3>2
    <3> QED
      BY <3>3 DEF Ordered, OrderedBy
  <2>2. Blocked(s) => Blocked(s)'
    BY <1>1 DEF Blocked
  <2>3. sends'[s] # << >> => Ordered(s, Head(sends[s]))'
    <3>1. ASSUME sends[s] # << >> PROVE Head(sends[s]) \in Nat /\ Ordered(s, Head(sends[s]))
      <4>1. sends[s] \in Seq(Nat \ {0})
        BY <1>2 DEF Typed
      <4>2. Head(sends[s]) \in Nat
        BY <3>1, <4>1
      <4> QED
        BY <1>2, <3>1, <4>2 DEF FlightOK
    <3>2. ASSUME sends[s] # << >> PROVE OrderedBy(mSendBuffer'[s], handed'[s], Head(sends[s]))
      <4>1. PICK k \in Nat : k = Head(sends[s])
        BY <3>1, <3>2
      <4>2. Ordered(s, k)'
        BY <2>1, <3>1, <3>2, <4>1
      <4>3. OrderedBy(mSendBuffer'[s], handed'[s], k)
        BY <4>2 DEF Ordered, OrderedBy
      <4> QED
        BY <4>1, <4>3
    <3>3. ASSUME sends[s] # << >> PROVE OrderedBy(mSendBuffer'[s], handed'[s], Head(sends'[s]))
      BY <3>2, <3>3
    <3> QED
      BY <3>3 DEF Ordered, OrderedBy
  <2>4. \A u \in Threads(s, Sent)' : Ordered(s, transferred[u])'
    <3>1. ASSUME NEW u \in Threads(s, Sent)
          PROVE  OrderedBy(mSendBuffer'[s], handed'[s], transferred'[u])
      <4>1. transferred[u] \in Nat
        BY DEF Threads, TypeOK
      <4>2. PICK k \in Nat : k = transferred[u]
        BY <4>1
      <4>3. Ordered(s, k)
        BY <1>2, <3>1, <4>2 DEF FlightOK
      <4>4. Ordered(s, k)'
        BY <2>1, <4>3
      <4>5. OrderedBy(mSendBuffer'[s], handed'[s], k)
        BY <4>4 DEF Ordered, OrderedBy
      <4> QED
        BY <4>2, <4>5
    <3> QED
      BY <1>1, <3>1 DEF Ordered, OrderedBy
  <2> QED
    BY <1>1, <1>2, <2>1, <2>2, <2>3, <2>4 DEF FlightOK
<1> QED
  BY <1>4, <1>5, <1>6, <1>7 DEF SendGood

\* The key exchange is the first reply: nothing was stored, sent or handed over before.
LEMMA KeySend ==
  ASSUME TypeOK, NEW t \in IoThread, NEW s \in Session, Steps(t, s, "commit", "key"),
         TokenOK(s), SendGood(s), mSendBuffer'[s] = Append(mSendBuffer[s], received[s]),
         received[s] = 1, received'[s] = received[s], sends'[s] = sends[s],
         handed'[s] = handed[s], posted'[s] = posted[s]
  PROVE  /\ SendGood(s)'
         /\ mSendBuffer[s] = << >>
<1>1. /\ "accept" \notin posted[s] /\ Threads(s, {"accept"})' = {}
      /\ Threads(s, {"commit"})' = {}
      /\ Seen(s)' = received[s] /\ ~Early(s)' /\ Early(s)
      /\ Threads(s, Sent)' = Threads(s, Sent)
  BY CommitFacts
<1>2. at \in [IoThread -> Session]
  BY DEF TypeOK
<1>3. /\ mSendBuffer[s] = << >> /\ handed[s] = << >> /\ sends[s] = << >>
      /\ Threads(s, Handling) = {}
  BY <1>1 DEF SendGood, EarlyOK
<1>4. \A u \in Threads(s, Handling)' : u = t
  <2>1. \A u \in IoThread : u \in Threads(s, Handling)' <=>
                (u # t /\ u \in Threads(s, Handling)) \/ (u = t /\ "key" \in Handling)
    BY <1>2, StageSets, ThreadsStep
  <2>2. Threads(s, Handling)' \subseteq IoThread
    BY DEF Threads
  <2> QED
    BY <1>3, <2>1, <2>2
<1>5. Threads(s, Sent)' = {}
  BY <1>1, <1>3 DEF Threads, Handling
<1>6. Len(mSendBuffer'[s]) = 1 /\ DOMAIN mSendBuffer'[s] = 1 .. 1 /\ mSendBuffer'[s][1] = 1
  <2>1. PICK q : q = Append(<< >>, 1)
    OBVIOUS
  <2>2. Len(q) = 1 /\ DOMAIN q = 1 .. 1 /\ q[1] = 1
    BY <2>1
  <2>3. mSendBuffer'[s] = q
    BY <1>3, <2>1
  <2> QED
    BY <2>2, <2>3
<1>7. Len(handed'[s]) = 0 /\ DOMAIN handed'[s] = 1 .. 0
  BY <1>3
<1>8. EarlyOK(s)'
  BY <1>1 DEF EarlyOK
<1>9. SendOK(s)'
  BY <1>3, <1>4 DEF SendOK
<1>10. OrderOK(s)'
  <2>1. Rising(mSendBuffer'[s])
    BY <1>6 DEF Rising
  <2>2. Rising(handed'[s])
    BY <1>7 DEF Rising
  <2> QED
    BY <1>1, <1>6, <1>7, <2>1, <2>2 DEF OrderOK, Rising
<1>11. FlightOK(s)'
  <2>1. OrderedBy(mSendBuffer'[s], handed'[s], 0)
    BY <1>6, <1>7 DEF OrderedBy
  <2>2. Ordered(s, 0)'
    BY <2>1 DEF Ordered, OrderedBy
  <2> QED
    BY <1>3, <1>5, <2>2 DEF FlightOK
<1> QED
  BY <1>3, <1>8, <1>9, <1>10, <1>11 DEF SendGood

\* One more packet in the buffer is one more, at most, to wait.
LEMMA WaitingOneMore ==
  ASSUME TypeOK, NEW s \in Session, mSendBuffer'[s] = Append(mSendBuffer[s], received[s]),
         handed'[s] = handed[s]
  PROVE  Cardinality(Waiting(s)') <= Cardinality(Waiting(s)) + 1
<1>1. IsFiniteSet(Waiting(s)) /\ Cardinality(Waiting(s)) \in Nat
  BY WaitingFacts
<1>2. PICK x : x = received[s]
  OBVIOUS
<1>3. Waiting(s)' \subseteq Waiting(s) \cup {x}
  <2>1. /\ Len(mSendBuffer'[s]) = Len(mSendBuffer[s]) + 1 /\ Len(mSendBuffer[s]) \in Nat
        /\ \A i \in 1 .. Len(mSendBuffer[s]) : mSendBuffer'[s][i] = mSendBuffer[s][i]
        /\ mSendBuffer'[s][Len(mSendBuffer[s]) + 1] = x
        /\ DOMAIN mSendBuffer'[s] = 1 .. Len(mSendBuffer[s]) + 1
        /\ DOMAIN mSendBuffer[s] = 1 .. Len(mSendBuffer[s])
    <3>1. mSendBuffer[s] \in Seq(1 .. MaxRequest)
      BY TypedSession DEF Typed
    <3> QED
      BY <1>2, <3>1, AppendFacts
  <2>2. \A i \in DOMAIN mSendBuffer'[s] : mSendBuffer'[s][i] = x \/
             (i \in DOMAIN mSendBuffer[s] /\ mSendBuffer'[s][i] = mSendBuffer[s][i])
    BY <2>1
  <2>3. \A k : k \in Waiting(s)' =>
           k \notin ToSet(handed[s]) /\ \E i \in DOMAIN mSendBuffer'[s] : mSendBuffer'[s][i] = k
    BY DEF Waiting, ToSet
  <2>4. \A k : k \notin ToSet(handed[s]) /\ (\E i \in DOMAIN mSendBuffer[s] : mSendBuffer[s][i] = k)
           => k \in Waiting(s)
    BY DEF Waiting, ToSet
  <2> QED
    BY <2>2, <2>3, <2>4
<1>4. /\ IsFiniteSet(Waiting(s) \cup {x})
      /\ Cardinality(Waiting(s) \cup {x}) <= Cardinality(Waiting(s)) + 1
  <2>1. PICK W : W = Waiting(s)
    OBVIOUS
  <2>2. IsFiniteSet(W \cup {x}) /\ Cardinality(W \cup {x}) \in {Cardinality(W), Cardinality(W) + 1}
    BY <1>1, <2>1, FS_AddElement
  <2>3. Cardinality(W) \in Nat
    BY <1>1, <2>1
  <2>4. Cardinality(W \cup {x}) <= Cardinality(W) + 1
    BY <2>2, <2>3
  <2> QED
    BY <2>1, <2>2, <2>4
<1>5. Cardinality(Waiting(s)') <= Cardinality(Waiting(s) \cup {x})
  BY <1>3, <1>4, FS_Subset
<1>6. Cardinality(Waiting(s)') \in Nat /\ Cardinality(Waiting(s) \cup {x}) \in Nat
  BY <1>3, <1>4, FS_Subset, FS_CardinalityType
<1> QED
  BY <1>1, <1>4, <1>5, <1>6

\* SendRequest stores the reply in the order of the packets, and lists the session for it.
LEMMA RequestGood ==
  ASSUME Base, Base', Good, NEW t \in IoThread, SendRequest(t)
  PROVE  Good'
<1>1. PICK s \in Session : s = at[t]
  BY RequestSteps DEF Base
<1>2. /\ TypeOK /\ TypeOK' /\ RefOK(s) /\ TokenOK(s) /\ SendGood(s) /\ ListedOK(s)
      /\ at \in [IoThread -> Session] /\ ~crashed /\ Typed(s)
  BY GoodParts, TypedSession DEF Base, TypeOK
<1>3. /\ UNCHANGED <<mConnected, mSendPendingCount, received, sends, posted, handed,
                     mFreeSessionList, LSendRequestFailedSessionList, crashed>>
      /\ \A r : InPool(r)' <=> InPool(r)
  BY DEF SendRequest, kernel, pool, InPool
<1>4. /\ mSendBuffer \in [Session -> Seq(1 .. MaxRequest)] /\ mRefCount \in [Session -> Int]
      /\ LSendRequestSessionList \in [IoThread -> Seq(Session)]
      /\ LSendRequestFailedSessionList \in [IoThread -> Seq(Session)]
      /\ transferred \in [IoThread -> Nat]
  BY <1>2 DEF TypeOK
<1>5. /\ "commit" \in Refs /\ "commit" \in Receiving /\ "commit" \notin Ending
      /\ "commit" \notin Sending /\ "commit" \notin {"flush", "flushLocked"}
  BY DEF Refs, Receiving, Ending, Sending
<1>6. \A h \in {"preRecv", "key"} : h # "accept" /\ h \notin Strange /\ h \notin Returning
                                      /\ h \notin Ending /\ h \notin {"flush", "flushLocked"}
  BY DEF Strange, Returning, Ending
<1>7. PICK v, w : /\ v = Weight("commit") /\ w = Weight("preRecv") /\ v = 1 /\ w = 1
  BY DEF Weight, Refs, TwoRefs
<1>8. PICK z : z = Weight("key") /\ z = 2
  BY DEF Weight, TwoRefs
<1>9. PICK l \in Nat, m \in Int : l = Len(sends[s]) /\ l = Len(sends'[s]) /\ m = mRefCount[s]
  BY <1>2, <1>3 DEF Typed
<1>10. ASSUME NEW h \in {"preRecv", "key"}, Steps(t, s, "commit", h) PROVE mRefCount[s] >= 1
  BY <1>2, <1>5, <1>10, Referenced
<1>11. CASE /\ Steps(t, at[t], "commit", "preRecv")
            /\ UNCHANGED <<mSendBuffer, mSendBufferLock, mRefCount, transferred,
                           LSendRequestSessionList>>
  <2>1. Steps(t, s, "commit", "preRecv")
    BY <1>1, <1>11
  <2>2. Local(t, s, "commit", "preRecv") /\ Counted(t, s)' = Counted(t, s)
    <3>1. \A r \in Session \ {s} : Unmoved(r)
      BY <1>3, <1>11 DEF Unmoved
    <3> QED
      BY <1>3, <1>11, <2>1, <3>1, LocalAlone
  <2>3. SendGood(s)'
    BY <1>2, <1>3, <1>11, <2>1, DropSend
  <2>4. ListedOK(s)'
    BY <1>2, <1>3, <1>5, <1>6, <1>11, <2>2, ListedSame
  <2>5. Len(sends'[s]) + Weight("preRecv") - mRefCount'[s]
          <= Len(sends[s]) + Weight("commit") - mRefCount[s]
    BY <1>7, <1>9, <1>11
  <2>6. "preRecv" \in Receiving
    BY DEF Receiving
  <2>7. mRefCount[s] >= 1
    BY <1>10, <2>1
  <2> QED
    BY <1>2, <1>3, <1>5, <1>6, <2>2, <2>3, <2>4, <2>5, <2>6, <2>7, HeldKeeps
<1>12. CASE /\ received[at[t]] = 1
            /\ Steps(t, at[t], "commit", "key")
            /\ mSendBuffer' = [mSendBuffer EXCEPT ![at[t]] = Append(@, received[at[t]])]
            /\ NewSendContext(t, mSendBuffer'[at[t]])
            /\ UNCHANGED LSendRequestSessionList
  <2>1. Steps(t, s, "commit", "key") /\ received[s] = 1
    BY <1>1, <1>12
  <2>2. /\ mSendBuffer'[s] = Append(mSendBuffer[s], received[s])
        /\ \A r \in Session \ {s} : mSendBuffer'[r] = mSendBuffer[r]
    BY <1>1, <1>4, <1>12
  <2>3. /\ mRefCount'[s] = mRefCount[s] + 1
        /\ \A r \in Session \ {s} : mRefCount'[r] = mRefCount[r]
    BY <1>1, <1>4, <1>12 DEF NewSendContext, AddRef
  <2>4. PICK n \in 1 .. Len(mSendBuffer'[s]) : transferred' = [transferred EXCEPT ![t] = n]
    BY <1>1, <1>12 DEF NewSendContext
  <2>5. /\ n \in Nat /\ n >= 1 /\ transferred'[t] = n
        /\ \A u \in IoThread \ {t} : transferred'[u] = transferred[u]
    BY <1>4, <2>4
  <2>6. Local(t, s, "commit", "key") /\ Counted(t, s)' = Counted(t, s)
    <3>1. \A r \in Session \ {s} : Unmoved(r)
      BY <1>3, <2>2, <2>3 DEF Unmoved
    <3> QED
      BY <1>3, <1>12, <2>1, <2>5, <3>1, LocalAlone
  <2>7. SendGood(s)' /\ mSendBuffer[s] = << >>
    BY <1>2, <1>3, <2>1, <2>2, KeySend
  <2>8. ListedOK(s)'
    <3>1. PICK g, h : g = "commit" /\ h = "key"
      OBVIOUS
    <3>2. Local(t, s, g, h)
      BY <2>6, <3>1
    <3>3. /\ g \notin {"flush", "flushLocked"} /\ g \notin Sending
          /\ h \notin {"flush", "flushLocked"} /\ h \in Sending
          /\ g \notin Ending /\ h \notin Ending
      BY <1>5, <1>6, <3>1 DEF Sending
    <3>4. PICK c \in Nat : c = Counted(t, s) /\ c = Counted(t, s)'
      BY <1>2, <2>6, CountedType
    <3>5. Number(t, s) = c + 0 + 0 /\ Number(t, s)' = c + 0 + n
      <4>1. /\ Number(t, s) = Counted(t, s) + (IF g \in {"flush", "flushLocked"} THEN 1 ELSE 0)
                                 + (IF g \in Sending THEN transferred[t] ELSE 0)
            /\ Number(t, s)' = Counted(t, s)' + (IF h \in {"flush", "flushLocked"} THEN 1 ELSE 0)
                                  + (IF h \in Sending THEN transferred'[t] ELSE 0)
        BY <1>2, <3>2, NumberFacts
      <4> QED
        BY <2>5, <3>3, <3>4, <4>1
    <3>6. PICK x \in Nat : x = Cardinality(Waiting(s)')
      BY <1>2, WaitingFactsStep DEF WaitingCounted
    <3>7. Cardinality(Waiting(s)) = 0
      BY <1>2, <2>7, WaitingFacts
    <3>8. x <= 0 + 1
      BY <1>2, <1>3, <2>2, <3>6, <3>7, WaitingOneMore
    <3>9. Cardinality(Waiting(s)') - Number(t, s)' <= Cardinality(Waiting(s)) - Number(t, s)
      BY <2>5, <3>4, <3>5, <3>6, <3>7, <3>8
    <3>10. mConnected'[s] = mConnected[s]
      BY <1>3
    <3> QED
      BY <1>2, <3>2, <3>3, <3>9, <3>10, ListedKept
  <2>9. Len(sends'[s]) + Weight("key") - mRefCount'[s]
          <= Len(sends[s]) + Weight("commit") - mRefCount[s]
    BY <1>7, <1>8, <1>9, <2>3
  <2>10. "key" \in Receiving
    BY DEF Receiving
  <2>11. mRefCount[s] >= 1
    BY <1>10, <2>1
  <2> QED
    BY <1>2, <1>3, <1>5, <1>6, <2>6, <2>7, <2>8, <2>9, <2>10, <2>11, HeldKeeps
<1>13. CASE /\ received[at[t]] > 1
            /\ Steps(t, at[t], "commit", "preRecv")
            /\ mSendBuffer' = [mSendBuffer EXCEPT ![at[t]] = Append(@, received[at[t]])]
            /\ LSendRequestSessionList' = [LSendRequestSessionList EXCEPT ![t] = Append(@, at[t])]
            /\ UNCHANGED <<mSendBufferLock, mRefCount, transferred>>
  <2>1. Steps(t, s, "commit", "preRecv") /\ received[s] > 1
    BY <1>1, <1>13
  <2>2. /\ mSendBuffer'[s] = Append(mSendBuffer[s], received[s])
        /\ \A r \in Session \ {s} : mSendBuffer'[r] = mSendBuffer[r]
    BY <1>1, <1>4, <1>13
  <2>3. /\ LSendRequestSessionList'[t] = Append(LSendRequestSessionList[t], s)
        /\ LSendRequestFailedSessionList'[t] = LSendRequestFailedSessionList[t]
        /\ \A u \in IoThread \ {t} :
             /\ LSendRequestSessionList'[u] = LSendRequestSessionList[u]
             /\ LSendRequestFailedSessionList'[u] = LSendRequestFailedSessionList[u]
    BY <1>1, <1>3, <1>4, <1>13
  <2>4. ASSUME NEW r \in Session
        PROVE  /\ Counted(t, r) \in Nat
               /\ Counted(t, r)' = Counted(t, r) + (IF r = s THEN 1 ELSE 0)
    <3>1. PICK q \in Seq(Session) : q = LSendRequestSessionList[t]
      BY <1>4
    <3>2. /\ Count(q, r) \in Nat
          /\ Count(Append(q, s), r) = Count(q, r) + (IF s = r THEN 1 ELSE 0)
      BY <3>1, CountAppend
    <3>3. PICK f \in Nat : f = Count(LSendRequestFailedSessionList[t], r)
      BY <1>4, CountAppend
    <3>4. Counted(t, r) = Count(q, r) + f /\ Counted(t, r)' = Count(Append(q, s), r) + f
      BY <2>3, <3>1, <3>3 DEF Counted
    <3> QED
      BY <3>2, <3>3, <3>4
  <2>5. Local(t, s, "commit", "preRecv")
    <3>1. ASSUME NEW r \in Session \ {s} PROVE Counted(t, r)' = Counted(t, r)
      BY <2>4
    <3>2. \A r \in Session \ {s} : Unmoved(r)
      BY <1>3, <1>13, <2>2 DEF Unmoved
    <3> QED
      BY <1>3, <1>13, <2>1, <2>3, <3>1, <3>2 DEF Local
  <2>6. SendGood(s)'
    BY <1>2, <1>3, <1>13, <2>1, <2>2, StoreSend
  <2>7. ListedOK(s)'
    <3>1. PICK g, h : g = "commit" /\ h = "preRecv"
      OBVIOUS
    <3>2. Local(t, s, g, h)
      BY <2>5, <3>1
    <3>3. /\ g \notin {"flush", "flushLocked"} /\ g \notin Sending
          /\ h \notin {"flush", "flushLocked"} /\ h \notin Sending
          /\ g \notin Ending /\ h \notin Ending
      BY <1>5, <1>6, <3>1 DEF Sending
    <3>4. PICK c \in Nat : c = Counted(t, s) /\ c + 1 = Counted(t, s)'
      BY <2>4
    <3>5. Number(t, s) = c + 0 + 0 /\ Number(t, s)' = c + 1 + 0 + 0
      <4>1. /\ Number(t, s) = Counted(t, s) + (IF g \in {"flush", "flushLocked"} THEN 1 ELSE 0)
                                 + (IF g \in Sending THEN transferred[t] ELSE 0)
            /\ Number(t, s)' = Counted(t, s)' + (IF h \in {"flush", "flushLocked"} THEN 1 ELSE 0)
                                  + (IF h \in Sending THEN transferred'[t] ELSE 0)
        BY <1>2, <3>2, NumberFacts
      <4> QED
        BY <3>3, <3>4, <4>1
    <3>6. PICK w1 \in Nat, x \in Nat : w1 = Cardinality(Waiting(s)) /\ x = Cardinality(Waiting(s)')
      BY <1>2, WaitingFacts, WaitingFactsStep DEF WaitingCounted
    <3>7. x <= w1 + 1
      BY <1>2, <1>3, <2>2, <3>6, WaitingOneMore
    <3>8. Cardinality(Waiting(s)') - Number(t, s)' <= Cardinality(Waiting(s)) - Number(t, s)
      BY <3>4, <3>5, <3>6, <3>7
    <3>9. mConnected'[s] = mConnected[s]
      BY <1>3
    <3> QED
      BY <1>2, <3>2, <3>3, <3>8, <3>9, ListedKept
  <2>8. Len(sends'[s]) + Weight("preRecv") - mRefCount'[s]
          <= Len(sends[s]) + Weight("commit") - mRefCount[s]
    BY <1>7, <1>9, <1>13
  <2>9. "preRecv" \in Receiving
    BY DEF Receiving
  <2>10. mRefCount[s] >= 1
    BY <1>10, <2>1
  <2> QED
    BY <1>2, <1>3, <1>5, <1>6, <2>5, <2>6, <2>7, <2>8, <2>9, <2>10, HeldKeeps
<1> QED
  BY <1>11, <1>12, <1>13, RequestSteps DEF Base

\* A session whose lock is free and whose sends are completed: no thread has a send of it.
LEMMA NoneHandles ==
  ASSUME TypeOK, LockInv, PendingInv, NEW s \in Session, mSendBufferLock[s] = NoThread,
         mSendPendingCount[s] = 0
  PROVE  sends[s] = << >> /\ Threads(s, Sent) = {} /\ Threads(s, Handling) = {}
<1>1. /\ Len(sends[s]) \in Nat /\ sends[s] \in Seq(Nat \ {0})
  BY TypedSession DEF Typed
<1>2. PICK k \in Nat : k = Cardinality(Threads(s, Sent))
  BY ThreadsFinite
<1>3. Len(sends[s]) = 0 /\ k = 0
  <2>1. Len(sends[s]) + k <= 0
    BY <1>2 DEF PendingInv
  <2> QED
    BY <1>1, <1>2, <2>1
<1>4. sends[s] = << >>
  BY <1>1, <1>3
<1>5. Threads(s, Sent) = {}
  BY <1>2, <1>3, ThreadsFinite, FS_EmptySet
<1>6. ASSUME NEW t \in Threads(s, Sending) PROVE FALSE
  <2>1. t \in IoThread /\ at[t] = s /\ stage(t) \in Sending
    BY <1>6 DEF Threads
  <2>2. stage(t) \in Locking
    BY <2>1 DEF Sending, Locking
  <2>3. mSendBufferLock[s] = t
    BY <2>1, <2>2 DEF LockInv
  <2> QED
    BY <2>1, <2>3, ThreadAssumption
<1>7. Threads(s, Handling) = {}
  BY <1>5, <1>6 DEF Threads, Handling
<1> QED
  BY <1>4, <1>5, <1>7

\* A flush makes a context for stored packets that nobody has under way.
LEMMA PostSend ==
  ASSUME Base, NEW t \in IoThread, NEW s \in Session, Steps(t, s, "flushLocked", "post"),
         SendGood(s), mSendBufferLock[s] = NoThread, mSendPendingCount[s] = 0,
         mSendBuffer[s] # << >>, mSendBuffer'[s] = mSendBuffer[s],
         received'[s] = received[s], sends'[s] = sends[s], handed'[s] = handed[s],
         posted'[s] = posted[s]
  PROVE  SendGood(s)'
<1>1. sends[s] = << >> /\ Threads(s, Sent) = {} /\ Threads(s, Handling) = {}
  BY NoneHandles DEF Base
<1>2. at \in [IoThread -> Session]
  BY DEF Base, TypeOK
<1>3. EarlyOK(s) /\ OrderOK(s) /\ FlightOK(s) /\ ~Early(s)
  BY DEF SendGood, EarlyOK
<1>4. "flushLocked" \notin Sent /\ "post" \notin Sent
  BY DEF Sent
<1>5. Threads(s, {"commit"})' = Threads(s, {"commit"})
  BY <1>2, StageSets, SameThreads
<1>6. Threads(s, {"accept"})' = Threads(s, {"accept"})
  BY <1>2, StageSets, SameThreads
<1>7. Threads(s, Sent)' = {}
  <2>1. Threads(s, Sent)' = Threads(s, Sent)
    BY <1>2, <1>4, StageSets, SameThreads
  <2> QED
    BY <1>1, <2>1
<1>8. \A u \in Threads(s, Handling)' : u = t
  <2>1. \A u \in IoThread : u \in Threads(s, Handling)' <=>
                (u # t /\ u \in Threads(s, Handling)) \/ (u = t /\ "post" \in Handling)
    BY <1>2, StageSets, ThreadsStep
  <2>2. Threads(s, Handling)' \subseteq IoThread
    BY DEF Threads
  <2> QED
    BY <1>1, <2>1, <2>2
<1>9. ~Early(s)' /\ Seen(s)' = Seen(s)
  BY <1>3, <1>5 DEF Early, Seen
<1>10. EarlyOK(s)'
  BY <1>3, <1>5, <1>6, <1>9 DEF EarlyOK
<1>11. SendOK(s)'
  BY <1>1, <1>8 DEF SendOK
<1>12. OrderOK(s)'
  BY <1>3, <1>9 DEF OrderOK
<1>13. FlightOK(s)'
  <2>1. Ordered(s, 0)
    <3>1. ~Blocked(s)
      BY DEF Blocked
    <3> QED
      BY <1>1, <1>3, <3>1 DEF FlightOK
  <2>2. Ordered(s, 0)'
    BY <2>1 DEF Ordered
  <2> QED
    BY <1>1, <1>7, <2>2 DEF FlightOK
<1> QED
  BY <1>10, <1>11, <1>12, <1>13 DEF SendGood

\* FlushSend with the lock makes a context, leaves the session to the next turn, or has
\* nothing to send.
LEMMA StoredGood ==
  ASSUME Base, Base', Good, NEW t \in IoThread, FlushStored(t), ~strayed'
  PROVE  Good'
<1>1. PICK s \in Session : s = at[t]
  BY StoredSteps DEF Base
<1>2. /\ TypeOK /\ TypeOK' /\ SendGood(s) /\ ListedOK(s)
      /\ at \in [IoThread -> Session] /\ ~crashed /\ Typed(s)
  BY GoodParts, TypedSession DEF Base, TypeOK
<1>3. /\ UNCHANGED <<mConnected, mSendPendingCount, mSendBuffer, received, sends, posted, handed,
                     mFreeSessionList, LSendRequestSessionList, crashed>>
      /\ UNCHANGED kernel
      /\ \A r : InPool(r)' <=> InPool(r)
  BY DEF FlushStored, kernel, pool, InPool
<1>4. /\ mRefCount \in [Session -> Int]
      /\ LSendRequestSessionList \in [IoThread -> Seq(Session)]
      /\ LSendRequestFailedSessionList \in [IoThread -> Seq(Session)]
      /\ transferred \in [IoThread -> Nat]
  BY <1>2 DEF TypeOK
<1>5. /\ "flushLocked" \notin Ending /\ "flushLocked" \notin Sending
      /\ "flushLocked" \in {"flush", "flushLocked"}
      /\ "job" \notin Ending /\ "job" \notin Sending /\ "job" \notin {"flush", "flushLocked"}
      /\ "post" \notin Ending /\ "post" \in Sending /\ "post" \notin {"flush", "flushLocked"}
  BY DEF Ending, Sending
<1>6. Calm("flushLocked", "job")
  BY DEF Calm, Weight, Refs, TwoRefs, Receiving, Strange, Returning, Handling, Sending, Sent, Ending
<1>7. mConnected'[s] = mConnected[s] /\ Waiting(s)' = Waiting(s)
  BY <1>3 DEF Waiting
<1>8. CASE /\ mSendPendingCount[at[t]] > 0
           /\ Steps(t, at[t], "flushLocked", "job")
           /\ LSendRequestFailedSessionList' =
                [LSendRequestFailedSessionList EXCEPT ![t] = Append(@, at[t])]
           /\ UNCHANGED <<mRefCount, mSendBufferLock, transferred, strayed>>
  <2>1. Steps(t, s, "flushLocked", "job")
    BY <1>1, <1>8
  <2>2. Still
    BY <1>2, <1>3, <1>8 DEF Still
  <2>3. /\ LSendRequestFailedSessionList'[t] = Append(LSendRequestFailedSessionList[t], s)
        /\ LSendRequestSessionList'[t] = LSendRequestSessionList[t]
        /\ \A u \in IoThread \ {t} :
             /\ LSendRequestSessionList'[u] = LSendRequestSessionList[u]
             /\ LSendRequestFailedSessionList'[u] = LSendRequestFailedSessionList[u]
    BY <1>1, <1>3, <1>4, <1>8
  <2>4. ASSUME NEW r \in Session
        PROVE  /\ Counted(t, r) \in Nat
               /\ Counted(t, r)' = Counted(t, r) + (IF r = s THEN 1 ELSE 0)
    <3>1. PICK q \in Seq(Session) : q = LSendRequestFailedSessionList[t]
      BY <1>4
    <3>2. /\ Count(q, r) \in Nat
          /\ Count(Append(q, s), r) = Count(q, r) + (IF s = r THEN 1 ELSE 0)
      BY <3>1, CountAppend
    <3>3. PICK f \in Nat : f = Count(LSendRequestSessionList[t], r)
      BY <1>4, CountAppend
    <3>4. Counted(t, r) = f + Count(q, r) /\ Counted(t, r)' = f + Count(Append(q, s), r)
      BY <2>3, <3>1, <3>3 DEF Counted
    <3> QED
      BY <3>2, <3>3, <3>4
  <2>5. Local(t, s, "flushLocked", "job")
    <3>1. ASSUME NEW r \in Session \ {s} PROVE Counted(t, r)' = Counted(t, r)
      BY <2>4
    <3>2. \A r \in Session \ {s} : Unmoved(r)
      BY <2>2 DEF Unmoved, Still, kernel
    <3> QED
      BY <1>3, <1>8, <2>1, <2>3, <3>1, <3>2 DEF Local
  <2>6. ListedOK(s)'
    <3>1. PICK g, h : g = "flushLocked" /\ h = "job"
      OBVIOUS
    <3>2. /\ Local(t, s, g, h) /\ g \in {"flush", "flushLocked"} /\ g \notin Sending
          /\ h \notin {"flush", "flushLocked"} /\ h \notin Sending /\ g \notin Ending
      BY <1>5, <2>5, <3>1
    <3>3. PICK c \in Nat : c = Counted(t, s) /\ c + 1 = Counted(t, s)'
      BY <2>4
    <3>4. Number(t, s) = c + 1 + 0 /\ Number(t, s)' = c + 1 + 0 + 0
      <4>1. /\ Number(t, s) = Counted(t, s) + (IF g \in {"flush", "flushLocked"} THEN 1 ELSE 0)
                                 + (IF g \in Sending THEN transferred[t] ELSE 0)
            /\ Number(t, s)' = Counted(t, s)' + (IF h \in {"flush", "flushLocked"} THEN 1 ELSE 0)
                                  + (IF h \in Sending THEN transferred'[t] ELSE 0)
        BY <1>2, <3>2, NumberFacts
      <4> QED
        BY <3>2, <3>3, <4>1
    <3>5. PICK x \in Nat : x = Cardinality(Waiting(s)) /\ x = Cardinality(Waiting(s)')
      BY <1>2, <1>7, WaitingFacts
    <3>6. Cardinality(Waiting(s)') - Number(t, s)' <= Cardinality(Waiting(s)) - Number(t, s)
      BY <3>3, <3>4, <3>5
    <3> QED
      BY <1>2, <1>7, <3>2, <3>6, ListedKept
  <2> QED
    BY <1>2, <1>6, <2>2, <2>5, <2>6, StillGood
<1>9. CASE /\ mSendPendingCount[at[t]] = 0 /\ mSendBuffer[at[t]] = << >>
           /\ Steps(t, at[t], "flushLocked", "job")
           /\ UNCHANGED <<mRefCount, mSendBufferLock, transferred, strayed,
                          LSendRequestFailedSessionList>>
  <2>1. Steps(t, s, "flushLocked", "job")
    BY <1>1, <1>9
  <2>2. Still
    BY <1>2, <1>3, <1>9 DEF Still
  <2>3. Local(t, s, "flushLocked", "job")
    <3>1. \A r \in Session \ {s} : Unmoved(r)
      BY <2>2 DEF Unmoved, Still, kernel
    <3> QED
      BY <1>3, <1>9, <2>1, <3>1, LocalAlone
  <2>4. ListedOK(s)'
    BY <1>1, <1>2, <1>3, <1>9, ListedEmpty
  <2> QED
    BY <1>2, <1>6, <2>2, <2>3, <2>4, StillGood
<1>10. CASE /\ mSendPendingCount[at[t]] = 0 /\ mSendBuffer[at[t]] # << >>
            /\ Steps(t, at[t], "flushLocked", "post")
            /\ NewSendContext(t, mSendBuffer[at[t]])
            /\ strayed' = (strayed \/ mRefCount[at[t]] = 0)
            /\ UNCHANGED LSendRequestFailedSessionList
  <2>1. Steps(t, s, "flushLocked", "post") /\ mSendPendingCount[s] = 0 /\ mSendBuffer[s] # << >>
    BY <1>1, <1>10
  <2>2. /\ mRefCount'[s] = mRefCount[s] + 1
        /\ \A r \in Session \ {s} : mRefCount'[r] = mRefCount[r]
    BY <1>1, <1>4, <1>10 DEF NewSendContext, AddRef
  <2>3. PICK n \in 1 .. Len(mSendBuffer[s]) : transferred' = [transferred EXCEPT ![t] = n]
    BY <1>1, <1>10 DEF NewSendContext
  <2>4. /\ n \in Nat /\ n >= 1 /\ transferred'[t] = n
        /\ \A u \in IoThread \ {t} : transferred'[u] = transferred[u]
    BY <1>4, <2>3
  <2>5. Local(t, s, "flushLocked", "post") /\ Counted(t, s)' = Counted(t, s)
    <3>1. \A r \in Session \ {s} : Unmoved(r)
      BY <1>3, <2>2 DEF Unmoved
    <3> QED
      BY <1>3, <1>10, <2>1, <2>4, <3>1, LocalAlone
  <2>6. SendGood(s)'
    <3>1. mSendBufferLock[s] = NoThread
      BY <1>1, StoredSteps DEF Base
    <3> QED
      BY <1>2, <1>3, <2>1, <3>1, PostSend
  <2>7. ListedOK(s)'
    <3>1. PICK g, h : g = "flushLocked" /\ h = "post"
      OBVIOUS
    <3>2. /\ Local(t, s, g, h) /\ g \in {"flush", "flushLocked"} /\ g \notin Sending
          /\ h \notin {"flush", "flushLocked"} /\ h \in Sending /\ g \notin Ending
      BY <1>5, <2>5, <3>1
    <3>3. PICK c \in Nat : c = Counted(t, s) /\ c = Counted(t, s)'
      BY <1>2, <2>5, CountedType
    <3>4. Number(t, s) = c + 1 + 0 /\ Number(t, s)' = c + 0 + n
      <4>1. /\ Number(t, s) = Counted(t, s) + (IF g \in {"flush", "flushLocked"} THEN 1 ELSE 0)
                                 + (IF g \in Sending THEN transferred[t] ELSE 0)
            /\ Number(t, s)' = Counted(t, s)' + (IF h \in {"flush", "flushLocked"} THEN 1 ELSE 0)
                                  + (IF h \in Sending THEN transferred'[t] ELSE 0)
        BY <1>2, <3>2, NumberFacts
      <4> QED
        BY <2>4, <3>2, <3>3, <4>1
    <3>5. PICK x \in Nat : x = Cardinality(Waiting(s)) /\ x = Cardinality(Waiting(s)')
      BY <1>2, <1>7, WaitingFacts
    <3>6. Cardinality(Waiting(s)') - Number(t, s)' <= Cardinality(Waiting(s)) - Number(t, s)
      BY <2>4, <3>3, <3>4, <3>5
    <3> QED
      BY <1>2, <1>7, <3>2, <3>6, ListedKept
  <2>8. mRefCount[s] >= 1
    <3>1. RefOK(s) /\ mRefCount[s] # 0
      BY <1>1, <1>10, GoodParts
    <3>2. Booked(posted[s]) + Len(sends[s]) + mConnected[s] + Weight("flushLocked") <= mRefCount[s]
      BY <1>2, <2>1, <3>1, NeedFacts
    <3>3. PICK v \in Nat : v = Weight("flushLocked")
      BY DEF Weight
    <3>4. Booked(posted[s]) + Len(sends[s]) + mConnected[s] + v <= mRefCount[s]
      BY <3>2, <3>3
    <3> QED
      BY <1>2, <3>1, <3>4, SMTT(30) DEF Typed
  <2>9. Len(sends'[s]) + Weight("post") - mRefCount'[s] <=
          Len(sends[s]) + Weight("flushLocked") - mRefCount[s]
    <3>1. PICK v, w : v = Weight("flushLocked") /\ w = Weight("post") /\ v = 0 /\ w = 1
      BY DEF Weight, Refs, TwoRefs
    <3>2. PICK l \in Nat, m \in Int : l = Len(sends[s]) /\ l = Len(sends'[s]) /\ m = mRefCount[s]
      BY <1>2, <1>3 DEF Typed
    <3>3. Len(sends'[s]) + w - mRefCount'[s] <= Len(sends[s]) + v - mRefCount[s]
      BY <2>2, <3>1, <3>2
    <3> QED
      BY <3>1, <3>3
  <2>10. /\ "post" \notin Receiving /\ "post" # "accept" /\ "post" \notin Strange
         /\ "post" \notin Returning
    BY DEF Receiving, Strange, Returning
  <2> QED
    BY <1>2, <1>3, <2>2, <2>5, <2>6, <2>7, <2>8, <2>9, <2>10, HeldKeeps
<1> QED
  BY <1>8, <1>9, <1>10, StoredSteps DEF Base

\* The thread that handles a send is the only one to handle the connection's packets.
LEMMA HandlerAlone ==
  ASSUME NEW t \in IoThread, NEW s \in Session, NEW g \in Handling, NEW h,
         at \in [IoThread -> Session], Steps(t, s, g, h), SendGood(s)
  PROVE  sends[s] = << >> /\ Threads(s, Handling) = {t} /\ ~Early(s)
<1>1. t \in Threads(s, Handling)
  BY StageSets, ThreadsStep
<1> QED
  BY <1>1 DEF SendGood, SendOK, EarlyOK

\* What the end of a send leaves.
LEMMA HandlerDone ==
  ASSUME NEW t \in IoThread, NEW s \in Session, NEW g \in Handling, NEW h,
         at \in [IoThread -> Session], Steps(t, s, g, h), SendGood(s),
         h \notin Handling, h # "commit", h # "accept", received'[s] = received[s]
  PROVE  /\ Threads(s, Handling)' = {} /\ Threads(s, Sent)' = {}
         /\ Threads(s, {"commit"})' = Threads(s, {"commit"})
         /\ Threads(s, {"accept"})' = Threads(s, {"accept"})
         /\ ~Early(s)' /\ Seen(s)' = Seen(s)
<1>1. g # "commit" /\ g # "accept"
  BY DEF Handling, Sending, Sent
<1>2. Threads(s, Handling) = {t} /\ ~Early(s)
  BY HandlerAlone
<1>3. Threads(s, {"commit"})' = Threads(s, {"commit"})
  BY <1>1, StageSets, SameThreads
<1>4. Threads(s, {"accept"})' = Threads(s, {"accept"})
  BY <1>1, StageSets, SameThreads
<1>5. Threads(s, Handling)' = {}
  <2>1. \A u \in IoThread : u \in Threads(s, Handling)' <=>
                (u # t /\ u \in Threads(s, Handling)) \/ (u = t /\ h \in Handling)
    BY StageSets, ThreadsStep
  <2>2. Threads(s, Handling)' \subseteq IoThread
    BY DEF Threads
  <2> QED
    BY <1>2, <2>1, <2>2
<1>6. Threads(s, Sent)' = {}
  BY <1>5 DEF Threads, Handling
<1>7. ~Early(s)' /\ Seen(s)' = Seen(s)
  BY <1>2, <1>3 DEF Early, Seen
<1> QED
  BY <1>3, <1>4, <1>5, <1>6, <1>7

\* What the thread knows that is about to post a send.
LEMMA PosterAlone ==
  ASSUME Base, NEW t \in IoThread, NEW s \in Session, NEW g \in Sending, NEW h,
         Steps(t, s, g, h), SendGood(s)
  PROVE  /\ sends[s] = << >> /\ Ordered(s, 0) /\ transferred[t] \in 1 .. Len(mSendBuffer[s])
         /\ g \in Handling /\ at \in [IoThread -> Session]
<1>1. at \in [IoThread -> Session]
  BY DEF Base, TypeOK
<1>2. g \in Handling /\ g \notin Sent /\ g \notin Resting
  BY DEF Handling, Sending, Sent, Resting
<1>3. sends[s] = << >> /\ Threads(s, Handling) = {t} /\ ~Early(s)
  BY <1>1, <1>2, HandlerAlone
<1>4. t \notin Threads(s, Sent)
  BY <1>1, <1>2, StageSets, ThreadsStep
<1>5. Threads(s, Sent) \subseteq Threads(s, Handling)
  BY DEF Threads, Handling
<1>6. Ordered(s, 0)
  BY <1>3, <1>4, <1>5 DEF SendGood, FlightOK, Blocked
<1>7. at[t] = s /\ stage(t) = g
  BY <1>1, <1>2 DEF Steps, Moves
<1>8. transferred[t] \in 1 .. Len(mSendBuffer[s])
  BY <1>7 DEF Base, LengthInv
<1> QED
  BY <1>1, <1>2, <1>3, <1>6, <1>8

\* The send that goes out.
LEMMA SentSend ==
  ASSUME Base, NEW t \in IoThread, NEW s \in Session, NEW g \in Sending, NEW h,
         Steps(t, s, g, h), SendGood(s), h \notin Handling, h # "commit", h # "accept",
         received'[s] = received[s], posted'[s] = posted[s], mSendBuffer'[s] = mSendBuffer[s],
         sends'[s] = Append(sends[s], transferred[t]),
         handed'[s] = handed[s] \o SubSeq(mSendBuffer[s], 1, transferred[t])
  PROVE  SendGood(s)'
<1>1. PICK n \in 1 .. Len(mSendBuffer[s]) : n = transferred[t]
  BY PosterAlone
<1>2. sends[s] = << >> /\ Ordered(s, 0)
  BY PosterAlone
<1>3. /\ Threads(s, Handling)' = {} /\ Threads(s, Sent)' = {}
      /\ Threads(s, {"commit"})' = Threads(s, {"commit"})
      /\ Threads(s, {"accept"})' = Threads(s, {"accept"})
      /\ ~Early(s)' /\ Seen(s)' = Seen(s)
  BY PosterAlone, HandlerDone
<1>4. EarlyOK(s) /\ OrderOK(s) /\ Typed(s)
  BY TypedSession DEF SendGood, Base
<1>5. mSendBuffer[s] \in Seq(1 .. MaxRequest) /\ handed[s] \in Seq(1 .. MaxRequest)
  BY <1>4 DEF Typed
<1>6. /\ OrderedBy(mSendBuffer[s], handed'[s], n) /\ Rising(handed'[s])
  <2>1. OrderedBy(mSendBuffer[s], handed[s], 0) /\ Rising(mSendBuffer[s]) /\ Rising(handed[s])
    BY <1>2, <1>4 DEF Ordered, OrderOK
  <2> QED
    BY <1>1, <1>5, <2>1, OrderedSend
<1>7. sends'[s] # << >> /\ Len(sends'[s]) = 1 /\ Head(sends'[s]) = n
  <2>1. PICK q : q = Append(<< >>, n)
    OBVIOUS
  <2>2. q # << >> /\ Len(q) = 1 /\ Head(q) = n
    BY <2>1
  <2>3. sends'[s] = q
    BY <1>1, <1>2, <2>1
  <2> QED
    BY <2>2, <2>3
<1>8. EarlyOK(s)'
  BY <1>3, <1>4 DEF EarlyOK
<1>9. SendOK(s)'
  BY <1>3, <1>7 DEF SendOK
<1>10. OrderOK(s)'
  <2>1. /\ Len(handed'[s]) = Len(handed[s]) + n /\ Len(handed[s]) \in Nat /\ n \in Nat
        /\ Len(mSendBuffer[s]) \in Nat /\ n <= Len(mSendBuffer[s])
        /\ \A i \in 1 .. Len(handed[s]) : handed'[s][i] = handed[s][i]
        /\ \A i \in 1 .. n : handed'[s][Len(handed[s]) + i] = mSendBuffer[s][i]
    <3>1. PICK q : q = handed[s] \o SubSeq(mSendBuffer[s], 1, n)
      OBVIOUS
    <3>2. handed'[s] = q
      BY <1>1, <3>1
    <3>3. /\ Len(q) = Len(handed[s]) + n /\ Len(handed[s]) \in Nat /\ Len(mSendBuffer[s]) \in Nat
          /\ \A i \in 1 .. Len(handed[s]) : q[i] = handed[s][i]
          /\ \A i \in 1 .. n : q[Len(handed[s]) + i] = mSendBuffer[s][i]
      BY <1>5, <3>1, Joined, SMTT(30)
    <3>4. n \in Nat /\ n <= Len(mSendBuffer[s])
      BY <3>3
    <3> QED
      BY <3>2, <3>3, <3>4
  <2>2. PICK top : top = Seen(s)
    OBVIOUS
  <2>3. /\ \A i \in 1 .. Len(mSendBuffer[s]) : mSendBuffer[s][i] <= top
        /\ \A i \in 1 .. Len(handed[s]) : handed[s][i] <= top
    BY <1>4, <2>2 DEF OrderOK
  <2>4. ASSUME NEW i \in 1 .. Len(handed[s]) + n PROVE handed'[s][i] <= top
    <3>1. CASE i <= Len(handed[s])
      <4>1. i \in 1 .. Len(handed[s])
        BY <2>1, <3>1
      <4> QED
        BY <2>1, <2>3, <4>1
    <3>2. CASE ~(i <= Len(handed[s]))
      <4>1. /\ i - Len(handed[s]) \in 1 .. n /\ i - Len(handed[s]) \in 1 .. Len(mSendBuffer[s])
            /\ Len(handed[s]) + (i - Len(handed[s])) = i
        BY <2>1, <3>2, SMTT(30)
      <4>2. handed'[s][i] = mSendBuffer[s][i - Len(handed[s])]
        BY <2>1, <4>1
      <4> QED
        BY <2>3, <4>1, <4>2
    <3> QED
      BY <3>1, <3>2
  <2>5. Rising(mSendBuffer'[s]) /\ Rising(handed'[s])
    BY <1>4, <1>6 DEF OrderOK
  <2>6. /\ \A i \in 1 .. Len(mSendBuffer'[s]) : mSendBuffer'[s][i] <= top
        /\ \A i \in 1 .. Len(handed'[s]) : handed'[s][i] <= top
        /\ top = Seen(s)'
    BY <1>3, <2>1, <2>2, <2>3, <2>4
  <2> QED
    BY <2>5, <2>6 DEF OrderOK, Rising
<1>11. FlightOK(s)'
  <2>1. OrderedBy(mSendBuffer'[s], handed'[s], Head(sends'[s]))
    BY <1>6, <1>7, SMTT(20)
  <2>2. Ordered(s, Head(sends[s]))'
    BY <2>1 DEF Ordered, OrderedBy
  <2> QED
    BY <1>3, <1>7, <2>2 DEF FlightOK
<1> QED
  BY <1>8, <1>9, <1>10, <1>11 DEF SendGood

\* The n packets at the start of the buffer are as many that no longer wait.
LEMMA WaitingLess ==
  ASSUME TypeOK, TypeOK', NEW s \in Session, NEW n \in 1 .. Len(mSendBuffer[s]),
         OrderOK(s), Ordered(s, 0), mSendBuffer'[s] = mSendBuffer[s],
         handed'[s] = handed[s] \o SubSeq(mSendBuffer[s], 1, n)
  PROVE  Cardinality(Waiting(s)') <= Cardinality(Waiting(s)) - n
<1>1. mSendBuffer[s] \in Seq(1 .. MaxRequest) /\ handed[s] \in Seq(1 .. MaxRequest)
  BY TypedSession DEF Typed
<1>2. PICK q : q = mSendBuffer[s] /\ q \in Seq(1 .. MaxRequest)
  BY <1>1
<1>3. PICK p : p = handed[s] /\ p \in Seq(1 .. MaxRequest)
  BY <1>1
<1>4. /\ DOMAIN q = 1 .. Len(q) /\ Len(q) \in Nat /\ \A i \in 1 .. Len(q) : q[i] \in Nat
      /\ DOMAIN p = 1 .. Len(p) /\ Len(p) \in Nat /\ \A i \in 1 .. Len(p) : p[i] \in Nat
      /\ n \in Nat /\ n <= Len(q)
  BY <1>2, <1>3, Packets
<1>5. PICK r : r = p \o SubSeq(q, 1, n) /\ r = handed'[s]
  BY <1>2, <1>3
<1>6. /\ DOMAIN r = 1 .. Len(p) + n
      /\ \A i \in 1 .. Len(p) : r[i] = p[i]
      /\ \A i \in 1 .. n : r[Len(p) + i] = q[i]
  <2>1. /\ r \in Seq(1 .. MaxRequest) /\ Len(r) = Len(p) + n
        /\ \A i \in 1 .. Len(p) : r[i] = p[i]
        /\ \A i \in 1 .. n : r[Len(p) + i] = q[i]
    BY <1>2, <1>3, <1>5, Joined
  <2>2. DOMAIN r = 1 .. Len(r)
    BY <2>1
  <2> QED
    BY <2>1, <2>2
<1> DEFINE D == {q[j] : j \in 1 .. n}
<1>7. \A i \in 1 .. Len(p) : \A j \in 1 .. Len(q) : p[i] < q[j]
  <2>1. \A i \in 1 .. Len(p) - 0 : \A j \in 1 .. Len(q) : p[i] < q[j]
    BY <1>2, <1>3 DEF Ordered, OrderedBy
  <2> QED
    BY <1>4, <2>1
<1>8. \A i, j \in 1 .. Len(q) : i < j => q[i] < q[j]
  BY <1>2, <1>4 DEF OrderOK, Rising
<1>9. Waiting(s) = {k \in {q[i] : i \in 1 .. Len(q)} : k \notin {p[i] : i \in 1 .. Len(p)}}
  BY <1>2, <1>3, <1>4 DEF Waiting, ToSet
<1>10. Waiting(s)' = {k \in {q[i] : i \in 1 .. Len(q)} : k \notin {r[i] : i \in 1 .. Len(p) + n}}
  <2>1. ToSet(mSendBuffer'[s]) = {q[i] : i \in 1 .. Len(q)}
    BY <1>2, <1>4 DEF ToSet
  <2>2. ToSet(handed'[s]) = {r[i] : i \in 1 .. Len(p) + n}
    BY <1>5, <1>6 DEF ToSet
  <2> QED
    BY <2>1, <2>2 DEF Waiting
<1>11. \A j \in 1 .. n : j \in 1 .. Len(q) /\ Len(p) + j \in 1 .. Len(p) + n
  BY <1>4
<1>12. \A i \in 1 .. Len(p) : i \in 1 .. Len(p) + n
  BY <1>4
<1>13. D \subseteq Waiting(s)
  <2> SUFFICES ASSUME NEW j \in 1 .. n PROVE q[j] \in Waiting(s)
    OBVIOUS
  <2>1. j \in 1 .. Len(q)
    BY <1>11
  <2>2. ASSUME NEW i \in 1 .. Len(p) PROVE p[i] # q[j]
    BY <1>4, <1>7, <2>1
  <2> QED
    BY <1>9, <2>1, <2>2
<1>14. Waiting(s)' \subseteq Waiting(s) \ D
  <2> SUFFICES ASSUME NEW k \in Waiting(s)' PROVE k \in Waiting(s) /\ k \notin D
    OBVIOUS
  <2>1. k \in {q[i] : i \in 1 .. Len(q)} /\ \A i \in 1 .. Len(p) + n : r[i] # k
    BY <1>10
  <2>2. \A i \in 1 .. Len(p) : p[i] # k
    BY <1>6, <1>12, <2>1
  <2>3. \A j \in 1 .. n : q[j] # k
    BY <1>6, <1>11, <2>1
  <2> QED
    BY <1>9, <2>1, <2>2, <2>3
<1>15. IsFiniteSet(D) /\ Cardinality(D) = n
  <2> DEFINE f == [j \in 1 .. n |-> q[j]]
  <2>1. f \in [1 .. n -> D]
    OBVIOUS
  <2>2. \A i, j \in 1 .. n : f[i] = f[j] => i = j
    <3> SUFFICES ASSUME NEW i \in 1 .. n, NEW j \in 1 .. n, q[i] = q[j] PROVE i = j
      OBVIOUS
    <3>1. i \in 1 .. Len(q) /\ j \in 1 .. Len(q) /\ q[i] \in Nat /\ q[j] \in Nat
      BY <1>4, <1>11
    <3>2. ~(i < j) /\ ~(j < i)
      BY <1>8, <3>1
    <3> QED
      BY <3>1, <3>2
  <2>3. \A k \in D : \E i \in 1 .. n : f[i] = k
    OBVIOUS
  <2>4. f \in Bijection(1 .. n, D)
    BY <2>1, <2>2, <2>3, Fun_IsBij
  <2>5. IsFiniteSet(1 .. n) /\ Cardinality(1 .. n) = n
    <3>1. 1 \in Int /\ n \in Int
      BY <1>4
    <3>2. IsFiniteSet(1 .. n) /\ Cardinality(1 .. n) = IF 1 > n THEN 0 ELSE n - 1 + 1
      BY <3>1, FS_Interval
    <3>3. n >= 1
      BY <1>4
    <3> QED
      BY <1>4, <3>2, <3>3
  <2> QED
    BY <2>4, <2>5, FS_Bijection, Fun_ExistsBij
<1> HIDE DEF D
<1>16. IsFiniteSet(Waiting(s)) /\ Cardinality(Waiting(s)) \in Nat
  BY WaitingFacts
<1>17. PICK W : W = Waiting(s)
  OBVIOUS
<1>18. /\ IsFiniteSet(W \ D) /\ Cardinality(W \ D) = Cardinality(W) - n
  <2>1. W \cap D = D
    BY <1>13, <1>17
  <2>2. IsFiniteSet(W \ D) /\ Cardinality(W \ D) = Cardinality(W) - Cardinality(W \cap D)
    BY <1>16, <1>17, FS_Difference
  <2> QED
    BY <1>15, <2>1, <2>2
<1>19. Cardinality(Waiting(s)') <= Cardinality(W \ D)
  BY <1>14, <1>17, <1>18, FS_Subset
<1> QED
  BY <1>17, <1>18, <1>19

\* A send that fails leaves the buffer, and what was handed over, as they were.
LEMMA FailedSend ==
  ASSUME Base, NEW t \in IoThread, NEW s \in Session, NEW g \in Sending, NEW h,
         Steps(t, s, g, h), SendGood(s), h \notin Handling, h # "commit", h # "accept",
         received'[s] = received[s], posted'[s] = posted[s], mSendBuffer'[s] = mSendBuffer[s],
         sends'[s] = sends[s], handed'[s] = handed[s]
  PROVE  SendGood(s)'
<1>1. sends[s] = << >> /\ Ordered(s, 0)
  BY PosterAlone
<1>2. /\ Threads(s, Handling)' = {} /\ Threads(s, Sent)' = {}
      /\ Threads(s, {"commit"})' = Threads(s, {"commit"})
      /\ Threads(s, {"accept"})' = Threads(s, {"accept"})
      /\ ~Early(s)' /\ Seen(s)' = Seen(s)
  BY PosterAlone, HandlerDone
<1>3. EarlyOK(s) /\ OrderOK(s)
  BY DEF SendGood
<1>4. EarlyOK(s)'
  BY <1>2, <1>3 DEF EarlyOK
<1>5. SendOK(s)'
  <2>1. Len(sends'[s]) = 0
    BY <1>1
  <2> QED
    BY <1>2, <2>1 DEF SendOK
<1>6. OrderOK(s)'
  BY <1>2, <1>3 DEF OrderOK
<1>7. FlightOK(s)'
  <2>1. Ordered(s, 0)'
    BY <1>1 DEF Ordered
  <2> QED
    BY <1>1, <1>2, <2>1 DEF FlightOK
<1> QED
  BY <1>4, <1>5, <1>6, <1>7 DEF SendGood

\* WSASend hands over the packets at the start of the buffer, or the connection ends.
LEMMA WSASendGood ==
  ASSUME Base, Base', Good, NEW t \in IoThread, WSASend(t)
  PROVE  Good'
<1>1. PICK s \in Session : s = at[t]
  BY WSASendSteps DEF Base
<1>2. /\ TypeOK /\ TypeOK' /\ RefOK(s) /\ SendGood(s) /\ ListedOK(s)
      /\ at \in [IoThread -> Session] /\ ~crashed /\ Typed(s)
  BY GoodParts, TypedSession DEF Base, TypeOK
<1>3. /\ UNCHANGED <<mConnected, mRefCount, mSendBuffer, received, posted, mFreeSessionList,
                     LSendRequestSessionList, LSendRequestFailedSessionList, transferred, crashed>>
  BY DEF WSASend, pool, lists
<1>4. /\ sends \in [Session -> Seq(Nat \ {0})] /\ handed \in [Session -> Seq(1 .. MaxRequest)]
      /\ mSendPendingCount \in [Session -> Nat]
  BY <1>2 DEF TypeOK
<1>5. ASSUME NEW g \in Sending, NEW h, Steps(t, s, g, h),
             \A r \in Session \ {s} : Unmoved(r)
      PROVE  /\ Local(t, s, g, h) /\ Counted(t, s)' = Counted(t, s) /\ mRefCount[s] >= 1
  <2>1. Local(t, s, g, h) /\ Counted(t, s)' = Counted(t, s)
    BY <1>3, <1>5, LocalAlone
  <2>2. g \in Refs
    BY DEF Sending, Refs, TwoRefs
  <2> QED
    BY <1>2, <1>5, <2>1, <2>2, Referenced
<1>6. CASE /\ Steps(t, at[t], "key", "preRecv") \/ Steps(t, at[t], "post", "job")
           /\ sends' = [sends EXCEPT ![at[t]] = Append(@, transferred[t])]
           /\ handed' = [handed EXCEPT ![at[t]] =
                           @ \o SubSeq(mSendBuffer[at[t]], 1, transferred[t])]
           /\ mSendPendingCount' = [mSendPendingCount EXCEPT ![at[t]] = @ + 1]
           /\ mSendBufferLock' = [mSendBufferLock EXCEPT ![at[t]] = NoThread]
  <2>1. PICK g, h : /\ g \in Sending /\ Steps(t, s, g, h)
                    /\ <<g, h>> \in {<<"key", "preRecv">>, <<"post", "job">>}
    <3>1. "key" \in Sending /\ "post" \in Sending
      BY DEF Sending
    <3> QED
      BY <1>1, <1>6, <3>1
  <2>2. /\ sends'[s] = Append(sends[s], transferred[t])
        /\ handed'[s] = handed[s] \o SubSeq(mSendBuffer[s], 1, transferred[t])
        /\ \A r \in Session \ {s} : /\ sends'[r] = sends[r] /\ handed'[r] = handed[r]
                                    /\ mSendPendingCount'[r] = mSendPendingCount[r]
    BY <1>1, <1>4, <1>6
  <2>3. \A r \in Session \ {s} : Unmoved(r)
    BY <1>3, <2>2 DEF Unmoved
  <2>4. Local(t, s, g, h) /\ Counted(t, s)' = Counted(t, s) /\ mRefCount[s] >= 1
    BY <1>5, <2>1, <2>3
  <2>5. /\ g \notin Ending /\ g \notin {"flush", "flushLocked"}
        /\ h \notin Sending /\ h \notin {"flush", "flushLocked"} /\ h \notin Handling
        /\ h # "commit" /\ h # "accept" /\ h \notin Strange /\ h \notin Returning
        /\ (h \in Receiving => g \in Receiving) /\ h \notin Ending
    BY <2>1 DEF Ending, Sending, Sent, Handling, Strange, Returning, Receiving
  <2>6. SendGood(s)'
    BY <1>2, <1>3, <2>1, <2>2, <2>5, SentSend
  <2>7. PICK n \in 1 .. Len(mSendBuffer[s]) : n = transferred[t]
    BY <1>2, <2>1, PosterAlone
  <2>8. sends[s] = << >> /\ Ordered(s, 0) /\ n \in Nat
    BY <1>2, <2>1, <2>7, PosterAlone DEF Typed
  <2>9. ListedOK(s)'
    <3>1. PICK c \in Nat : c = Counted(t, s) /\ c = Counted(t, s)'
      BY <1>2, <2>4, CountedType
    <3>2. Number(t, s) = c + 0 + n /\ Number(t, s)' = c + 0 + 0
      <4>1. /\ Number(t, s) = Counted(t, s) + (IF g \in {"flush", "flushLocked"} THEN 1 ELSE 0)
                                 + (IF g \in Sending THEN transferred[t] ELSE 0)
            /\ Number(t, s)' = Counted(t, s)' + (IF h \in {"flush", "flushLocked"} THEN 1 ELSE 0)
                                  + (IF h \in Sending THEN transferred'[t] ELSE 0)
        BY <1>2, <2>4, NumberFacts
      <4> QED
        BY <2>1, <2>5, <2>7, <3>1, <4>1
    <3>3. PICK w \in Nat, x \in Nat : w = Cardinality(Waiting(s)) /\ x = Cardinality(Waiting(s)')
      BY <1>2, WaitingFacts, WaitingFactsStep DEF WaitingCounted
    <3>4. x <= w - n
      <4>1. OrderOK(s) /\ mSendBuffer'[s] = mSendBuffer[s]
        BY <1>2, <1>3 DEF SendGood
      <4>2. handed'[s] = handed[s] \o SubSeq(mSendBuffer[s], 1, n)
        BY <2>2, <2>7
      <4>3. Cardinality(Waiting(s)') <= Cardinality(Waiting(s)) - n
        BY <1>2, <2>8, <4>1, <4>2, WaitingLess
      <4> QED
        BY <3>3, <4>3
    <3>5. Cardinality(Waiting(s)') - Number(t, s)' <= Cardinality(Waiting(s)) - Number(t, s)
      BY <2>8, <3>1, <3>2, <3>3, <3>4
    <3>6. mConnected'[s] = mConnected[s]
      BY <1>3
    <3> QED
      BY <1>2, <2>4, <2>5, <3>5, <3>6, ListedKept
  <2>10. Len(sends'[s]) + Weight(h) - mRefCount'[s] <= Len(sends[s]) + Weight(g) - mRefCount[s]
    <3>1. Weight(h) + 1 = Weight(g) /\ Weight(h) \in Nat
      BY <2>1 DEF Weight, Refs, TwoRefs
    <3>2. Len(sends[s]) = 0 /\ Len(sends'[s]) = 1
      BY <2>2, <2>8
    <3>3. PICK m \in Int : m = mRefCount[s] /\ m = mRefCount'[s]
      BY <1>2, <1>3 DEF Typed
    <3> QED
      BY <3>1, <3>2, <3>3
  <2>11. mFreeSessionList' = mFreeSessionList /\ ~crashed' /\ mConnected'[s] = mConnected[s]
         /\ posted'[s] = posted[s]
    BY <1>2, <1>3
  <2> QED
    BY <1>2, <2>4, <2>5, <2>6, <2>9, <2>10, <2>11, HeldKeeps
<1>7. CASE /\ Steps(t, at[t], "key", "keyFail") \/ Steps(t, at[t], "post", "postFail")
           /\ UNCHANGED <<sends, handed, mSendPendingCount, mSendBufferLock>>
  <2>1. PICK g, h : /\ g \in Sending /\ Steps(t, s, g, h)
                    /\ <<g, h>> \in {<<"key", "keyFail">>, <<"post", "postFail">>}
    <3>1. "key" \in Sending /\ "post" \in Sending
      BY DEF Sending
    <3> QED
      BY <1>1, <1>7, <3>1
  <2>2. \A r \in Session : Unmoved(r)
    BY <1>3, <1>7 DEF Unmoved
  <2>3. Local(t, s, g, h) /\ Counted(t, s)' = Counted(t, s) /\ mRefCount[s] >= 1
    BY <1>5, <2>1, <2>2
  <2>4. /\ h \notin Handling /\ h # "commit" /\ h # "accept" /\ h \notin Strange
        /\ h \notin Returning
        /\ (h \in Receiving => g \in Receiving) /\ h \in Ending
    BY <2>1 DEF Ending, Sending, Sent, Handling, Strange, Returning, Receiving
  <2>5. SendGood(s)'
    BY <1>2, <1>3, <1>7, <2>1, <2>4, FailedSend
  <2>6. ListedOK(s)'
    BY <1>2, <2>3, <2>4, ListedKept
  <2>7. Len(sends'[s]) + Weight(h) - mRefCount'[s] <= Len(sends[s]) + Weight(g) - mRefCount[s]
    <3>1. PICK v \in Nat : v = Weight(h) /\ v = Weight(g)
      BY <2>1 DEF Weight, Refs, TwoRefs
    <3>2. PICK l \in Nat, m \in Int : /\ l = Len(sends[s]) /\ l = Len(sends'[s])
                                     /\ m = mRefCount[s] /\ m = mRefCount'[s]
      BY <1>2, <1>3, <1>7 DEF Typed
    <3> QED
      BY <3>1, <3>2
  <2>8. mFreeSessionList' = mFreeSessionList /\ ~crashed' /\ mConnected'[s] = mConnected[s]
         /\ posted'[s] = posted[s]
    BY <1>2, <1>3
  <2> QED
    BY <1>2, <2>3, <2>4, <2>5, <2>6, <2>7, <2>8, HeldKeeps
<1> QED
  BY <1>6, <1>7, WSASendSteps DEF Base

\* A completed send takes its packets out of the buffer.
LEMMA CompletionSend ==
  ASSUME TypeOK, NEW t \in IoThread, NEW s \in Session, NEW g \in Sent, NEW h,
         Steps(t, s, g, h), SendGood(s), h \notin Handling, h # "commit", h # "accept",
         received'[s] = received[s], posted'[s] = posted[s], sends'[s] = sends[s],
         handed'[s] = handed[s],
         mSendBuffer'[s] = SubSeq(mSendBuffer[s], transferred[t] + 1, Len(mSendBuffer[s]))
  PROVE  SendGood(s)'
<1>1. g \in Handling /\ at \in [IoThread -> Session] /\ transferred[t] \in Nat
  BY DEF Handling, TypeOK
<1>2. sends[s] = << >>
  BY <1>1, HandlerAlone
<1>3. /\ Threads(s, Handling)' = {} /\ Threads(s, Sent)' = {}
      /\ Threads(s, {"commit"})' = Threads(s, {"commit"})
      /\ Threads(s, {"accept"})' = Threads(s, {"accept"})
      /\ ~Early(s)' /\ Seen(s)' = Seen(s)
  BY <1>1, HandlerDone
<1>4. PICK n \in Nat : n = transferred[t]
  BY <1>1
<1>5. Ordered(s, n)
  <2>1. t \in Threads(s, Sent)
    BY <1>1, StageSets, ThreadsStep, ZenonT(30)
  <2> QED
    BY <1>4, <2>1 DEF SendGood, FlightOK
<1>6. EarlyOK(s) /\ OrderOK(s) /\ Typed(s)
  BY TypedSession DEF SendGood
<1>7. PICK q : q = SubSeq(mSendBuffer[s], n + 1, Len(mSendBuffer[s])) /\ q = mSendBuffer'[s]
  BY <1>4
<1>8. /\ OrderedBy(q, handed[s], 0) /\ Rising(q)
      /\ Len(q) = Len(mSendBuffer[s]) - n
      /\ \A i \in 1 .. Len(mSendBuffer[s]) - n :
           q[i] = mSendBuffer[s][n + i] /\ n + i \in 1 .. Len(mSendBuffer[s])
  <2>1. mSendBuffer[s] \in Seq(1 .. MaxRequest) /\ handed[s] \in Seq(1 .. MaxRequest)
    BY <1>6 DEF Typed
  <2>2. OrderedBy(mSendBuffer[s], handed[s], n) /\ Rising(mSendBuffer[s])
    BY <1>5, <1>6 DEF Ordered, OrderOK
  <2> QED
    BY <1>7, <2>1, <2>2, OrderedRest
<1>9. EarlyOK(s)'
  BY <1>3, <1>6 DEF EarlyOK
<1>10. SendOK(s)'
  <2>1. Len(sends'[s]) = 0
    BY <1>2
  <2> QED
    BY <1>3, <2>1 DEF SendOK
<1>11. OrderOK(s)'
  <2>1. Rising(mSendBuffer'[s]) /\ Rising(handed'[s])
    BY <1>6, <1>7, <1>8 DEF OrderOK
  <2>2. \A i \in 1 .. Len(mSendBuffer'[s]) : mSendBuffer'[s][i] <= Seen(s)
    BY <1>6, <1>7, <1>8 DEF OrderOK
  <2>3. \A i \in 1 .. Len(handed'[s]) : handed'[s][i] <= Seen(s)
    BY <1>6 DEF OrderOK
  <2> QED
    BY <1>3, <2>1, <2>2, <2>3 DEF OrderOK, Rising
<1>12. FlightOK(s)'
  <2>1. OrderedBy(mSendBuffer'[s], handed'[s], 0)
    BY <1>7, <1>8
  <2>2. Ordered(s, 0)'
    BY <2>1 DEF Ordered, OrderedBy
  <2> QED
    BY <1>2, <1>3, <2>2 DEF FlightOK
<1> QED
  BY <1>9, <1>10, <1>11, <1>12 DEF SendGood

LEMMA CompletionGood ==
  ASSUME Base, Base', Good, NEW t \in IoThread, SendCompletion(t)
  PROVE  Good'
<1>1. PICK s \in Session : s = at[t]
  BY CompletionSteps DEF Base
<1>2. /\ TypeOK /\ TypeOK' /\ RefOK(s) /\ SendGood(s) /\ ListedOK(s)
      /\ at \in [IoThread -> Session] /\ ~crashed /\ Typed(s)
      /\ mSendBuffer \in [Session -> Seq(1 .. MaxRequest)]
      /\ mSendPendingCount \in [Session -> Nat]
  BY GoodParts, TypedSession DEF Base, TypeOK
<1>3. /\ UNCHANGED <<mConnected, mRefCount, received, sends, posted, handed, mFreeSessionList,
                     LSendRequestSessionList, LSendRequestFailedSessionList, transferred, crashed>>
  BY DEF SendCompletion, kernel, pool, lists
<1>4. /\ mSendBuffer'[s] = SubSeq(mSendBuffer[s], transferred[t] + 1, Len(mSendBuffer[s]))
      /\ \A r \in Session \ {s} : /\ mSendBuffer'[r] = mSendBuffer[r]
                                  /\ mSendPendingCount'[r] = mSendPendingCount[r]
  BY <1>1, <1>2 DEF SendCompletion
<1>5. PICK g, h : /\ g \in Sent /\ Steps(t, s, g, h)
                  /\ <<g, h>> \in {<<"sent", "delete">>, <<"sentEnd", "end">>}
  <2>1. "sent" \in Sent /\ "sentEnd" \in Sent
    BY DEF Sent
  <2> QED
    BY <1>1, <2>1, CompletionSteps DEF Base
<1>6. Local(t, s, g, h) /\ Counted(t, s)' = Counted(t, s)
  <2>1. \A r \in Session \ {s} : Unmoved(r)
    BY <1>3, <1>4 DEF Unmoved
  <2> QED
    BY <1>3, <1>5, <2>1, LocalAlone
<1>7. /\ g \notin Sending /\ g \notin {"flush", "flushLocked"} /\ g \in Refs
      /\ h \notin Sending /\ h \notin {"flush", "flushLocked"} /\ h \notin Handling
      /\ h # "commit" /\ h # "accept" /\ h \notin Strange /\ h \notin Returning
      /\ h \notin Receiving /\ (h \notin Ending => g \notin Ending)
  BY <1>5 DEF Ending, Sending, Sent, Handling, Strange, Returning, Receiving, Refs
<1>8. SendGood(s)'
  BY <1>2, <1>3, <1>4, <1>5, <1>7, CompletionSend
<1>9. mRefCount[s] >= 1
  BY <1>2, <1>5, <1>7, Referenced
<1>10. ListedOK(s)'
  <2>1. PICK c \in Nat : c = Counted(t, s) /\ c = Counted(t, s)'
    BY <1>2, <1>6, CountedType
  <2>2. Number(t, s) = c + 0 + 0 /\ Number(t, s)' = c + 0 + 0
    <3>1. /\ Number(t, s) = Counted(t, s) + (IF g \in {"flush", "flushLocked"} THEN 1 ELSE 0)
                               + (IF g \in Sending THEN transferred[t] ELSE 0)
          /\ Number(t, s)' = Counted(t, s)' + (IF h \in {"flush", "flushLocked"} THEN 1 ELSE 0)
                                + (IF h \in Sending THEN transferred'[t] ELSE 0)
      BY <1>2, <1>6, NumberFacts
    <3> QED
      BY <1>7, <2>1, <3>1
  <2>3. Waiting(s)' \subseteq Waiting(s)
    <3>1. PICK n \in Nat : n = transferred[t]
      BY <1>2 DEF TypeOK
    <3>2. PICK q \in Seq(1 .. MaxRequest) : q = mSendBuffer[s]
      BY <1>2
    <3>3. PICK r : r = SubSeq(q, n + 1, Len(q)) /\ r = mSendBuffer'[s]
      BY <1>4, <3>1, <3>2
    <3>4. \A i \in DOMAIN r : \E j \in DOMAIN q : q[j] = r[i]
      <4>1. /\ r \in Seq(1 .. MaxRequest) /\ Len(q) \in Nat
            /\ Len(r) = IF n + 1 <= Len(q) THEN Len(q) - (n + 1) + 1 ELSE 0
            /\ \A i \in 1 .. Len(q) - (n + 1) + 1 : r[i] = q[n + 1 + i - 1]
        <5>1. PICK m \in Nat \ {0}, k \in Nat : m = n + 1 /\ k = Len(q)
          OBVIOUS
        <5>2. k <= Len(q) /\ q \in Seq(1 .. MaxRequest)
          BY <5>1
        <5>3. /\ SubSeq(q, m, k) \in Seq(1 .. MaxRequest)
              /\ Len(SubSeq(q, m, k)) = IF m <= k THEN k - m + 1 ELSE 0
              /\ \A i \in 1 .. k - m + 1 : SubSeq(q, m, k)[i] = q[m + i - 1]
          BY <5>2, PacketPieces
        <5>4. r = SubSeq(q, m, k)
          BY <3>3, <5>1
        <5> QED
          BY <5>1, <5>3, <5>4
      <4>2. DOMAIN r = 1 .. Len(r) /\ DOMAIN q = 1 .. Len(q)
        BY <4>1
      <4> SUFFICES ASSUME NEW i \in 1 .. Len(r) PROVE \E j \in 1 .. Len(q) : q[j] = r[i]
        BY <4>2
      <4>3. i \in 1 .. Len(q) - (n + 1) + 1 /\ n + 1 + i - 1 \in 1 .. Len(q)
        BY <4>1
      <4> QED
        BY <4>1, <4>3
    <3>5. \A k : k \in Waiting(s)' => k \notin ToSet(handed[s]) /\ \E i \in DOMAIN r : r[i] = k
      BY <1>3, <3>3 DEF Waiting, ToSet
    <3>6. \A k : k \notin ToSet(handed[s]) /\ (\E i \in DOMAIN q : q[i] = k) => k \in Waiting(s)
      BY <3>2 DEF Waiting, ToSet
    <3> QED
      BY <3>4, <3>5, <3>6
  <2>4. PICK w \in Nat, x \in Nat : w = Cardinality(Waiting(s)) /\ x = Cardinality(Waiting(s)')
    BY <1>2, WaitingFacts, WaitingFactsStep DEF WaitingCounted
  <2>5. x <= w
    <3>1. IsFiniteSet(Waiting(s))
      BY <1>2, WaitingFacts
    <3> QED
      BY <2>3, <2>4, <3>1, FS_Subset
  <2>6. Cardinality(Waiting(s)') - Number(t, s)' <= Cardinality(Waiting(s)) - Number(t, s)
    BY <2>1, <2>2, <2>4, <2>5
  <2>7. mConnected'[s] = mConnected[s]
    BY <1>3
  <2> QED
    BY <1>2, <1>6, <1>7, <2>6, <2>7, ListedKept
<1>11. Len(sends'[s]) + Weight(h) - mRefCount'[s] <= Len(sends[s]) + Weight(g) - mRefCount[s]
  <2>1. PICK v \in Nat : v = Weight(h) /\ v = Weight(g)
    BY <1>5 DEF Weight, Refs, TwoRefs
  <2>2. PICK l \in Nat, m \in Int : /\ l = Len(sends[s]) /\ l = Len(sends'[s])
                                   /\ m = mRefCount[s] /\ m = mRefCount'[s]
    BY <1>2, <1>3 DEF Typed
  <2> QED
    BY <2>1, <2>2
<1>12. /\ mFreeSessionList' = mFreeSessionList /\ ~crashed' /\ mConnected'[s] = mConnected[s]
       /\ posted'[s] = posted[s]
  BY <1>2, <1>3
<1> QED
  BY <1>2, <1>6, <1>7, <1>8, <1>9, <1>10, <1>11, <1>12, HeldKeeps

\* The connection's one send is completed, and one thread takes the completion.
LEMMA TakenSend ==
  ASSUME Base, NEW t \in IoThread, NEW s \in Session, NEW h \in Sent \cup {"end"},
         Steps(t, s, "idle", h), SendGood(s), sends[s] # << >>, sends'[s] = Tail(sends[s]),
         received'[s] = received[s], posted'[s] = posted[s], mSendBuffer'[s] = mSendBuffer[s],
         mSendPendingCount'[s] = mSendPendingCount[s], Rising(handed'[s]),
         \A i \in 1 .. Len(handed'[s]) : handed'[s][i] <= Seen(s),
         h \in Sent => OrderedBy(mSendBuffer[s], handed'[s], transferred'[t])
  PROVE  SendGood(s)' /\ Len(sends[s]) = 1 /\ Len(sends'[s]) = 0
<1>1. at \in [IoThread -> Session] /\ Typed(s)
  BY TypedSession DEF Base, TypeOK
<1>2. EarlyOK(s) /\ SendOK(s) /\ OrderOK(s) /\ ~Early(s) /\ Threads(s, Handling) = {}
  BY DEF SendGood, SendOK, EarlyOK
<1>3. Len(sends[s]) = 1 /\ sends'[s] = << >>
  <2>1. PICK q \in Seq(Nat \ {0}) : q = sends[s]
    BY <1>1 DEF Typed
  <2>2. Len(q) <= 1 /\ q # << >>
    BY <1>2, <2>1 DEF SendOK
  <2>3. Len(q) = 1
    BY <2>2, SMTT(30)
  <2>4. PICK r : r = Tail(q)
    OBVIOUS
  <2>5. r \in Seq(Nat \ {0}) /\ Len(r) = 0
    <3>1. Tail(q) \in Seq(Nat \ {0}) /\ Len(Tail(q)) = Len(q) - 1
      BY <2>2, HeadTailProperties
    <3> QED
      BY <2>3, <2>4, <3>1
  <2>6. r = << >>
    BY <2>5
  <2> QED
    BY <2>1, <2>3, <2>4, <2>6
<1>4. h # "commit" /\ h # "accept"
  BY DEF Sent
<1>5. Threads(s, {"commit"})' = Threads(s, {"commit"})
  BY <1>1, <1>4, StageSets, SameThreads
<1>6. Threads(s, {"accept"})' = Threads(s, {"accept"})
  BY <1>1, <1>4, StageSets, SameThreads
<1>7. /\ \A u \in Threads(s, Handling)' : u = t
      /\ h = "end" => Threads(s, Handling)' = {}
  <2>1. \A u \in IoThread : u \in Threads(s, Handling)' <=>
                (u # t /\ u \in Threads(s, Handling)) \/ (u = t /\ h \in Handling)
    BY <1>1, StageSets, ThreadsStep
  <2>2. Threads(s, Handling)' \subseteq IoThread
    BY DEF Threads
  <2>3. "end" \notin Handling
    BY DEF Handling, Sending, Sent
  <2> QED
    BY <1>2, <2>1, <2>2, <2>3
<1>8. /\ \A u \in Threads(s, Sent)' : u = t /\ h \in Sent
      /\ h \in Sent => Threads(s, Sent)' # {}
  <2>1. \A u \in IoThread : u \in Threads(s, Sent)' <=>
                (u # t /\ u \in Threads(s, Sent)) \/ (u = t /\ h \in Sent)
    BY <1>1, StageSets, ThreadsStep
  <2>2. Threads(s, Sent)' \subseteq IoThread
    BY DEF Threads
  <2>3. Threads(s, Sent) = {}
    BY <1>2 DEF Threads, Handling
  <2> QED
    BY <2>1, <2>2, <2>3
<1>9. ~Early(s)' /\ Seen(s)' = Seen(s)
  BY <1>2, <1>5 DEF Early, Seen
<1>10. EarlyOK(s)'
  BY <1>2, <1>5, <1>6, <1>9 DEF EarlyOK
<1>11. Len(sends'[s]) = 0
  BY <1>3
<1>12. SendOK(s)'
  <2>1. \A u, v \in Threads(s, Handling)' : u = v
    BY <1>7
  <2>2. Len(sends'[s]) <= 1
    <3>1. PICK l : l = Len(sends'[s])
      OBVIOUS
    <3>2. l = 0
      BY <1>11, <3>1, Zenon
    <3>3. l <= 1
      BY <3>2
    <3> QED
      BY <3>1, <3>3, Zenon
  <2> QED
    BY <1>3, <2>1, <2>2 DEF SendOK
<1>13. OrderOK(s)'
  <2>1. PICK top : top = Seen(s) /\ top = Seen(s)'
    BY <1>9
  <2>2. Rising(mSendBuffer'[s])
    BY <1>2 DEF OrderOK
  <2>3. /\ \A i \in 1 .. Len(mSendBuffer'[s]) : mSendBuffer'[s][i] <= top
        /\ \A i \in 1 .. Len(handed'[s]) : handed'[s][i] <= top
    BY <1>2, <2>1 DEF OrderOK
  <2> QED
    BY <2>1, <2>2, <2>3 DEF OrderOK, Rising
<1>14. FlightOK(s)'
  <2>1. CASE h \in Sent
    <3>1. OrderedBy(mSendBuffer'[s], handed'[s], transferred'[t])
      BY <2>1
    <3>2. \A u \in Threads(s, Sent)' : OrderedBy(mSendBuffer'[s], handed'[s], transferred'[u])
      BY <1>8, <3>1
    <3>3. \A u \in Threads(s, Sent)' : Ordered(s, transferred[u])'
      BY <3>2 DEF Ordered, OrderedBy
    <3> QED
      BY <1>3, <1>8, <2>1, <3>3 DEF FlightOK
  <2>2. CASE h = "end"
    <3>1. Threads(s, Sent)' = {}
      BY <1>8, <2>2 DEF Sent
    <3>2. mSendPendingCount'[s] > 0
      <4>1. PICK k \in Nat : k = Cardinality(Threads(s, Sent))
        BY ThreadsFinite
      <4>2. 1 + k <= mSendPendingCount[s]
        BY <1>3, <4>1 DEF Base, PendingInv
      <4> QED
        BY <1>1, <4>1, <4>2 DEF Typed
    <3>3. Blocked(s)'
      BY <1>7, <1>9, <2>2, <3>2 DEF Blocked
    <3> QED
      BY <1>3, <3>1, <3>3 DEF FlightOK
  <2> QED
    BY <2>1, <2>2
<1> QED
  BY <1>3, <1>10, <1>11, <1>12, <1>13, <1>14 DEF SendGood

LEMMA GetSendGood ==
  ASSUME Base, Base', Good, NEW t \in IoThread, NEW s \in Session, GetSendCompletion(t, s)
  PROVE  Good'
<1>1. sends[s] # << >> /\ sends' = [sends EXCEPT ![s] = Tail(@)]
  BY GetSendSteps DEF Base
<1>2. /\ TypeOK /\ TypeOK' /\ RefOK(s) /\ SendGood(s) /\ ListedOK(s) /\ OrderOK(s) /\ FlightOK(s)
      /\ at \in [IoThread -> Session] /\ ~crashed /\ Typed(s)
      /\ sends \in [Session -> Seq(Nat \ {0})] /\ handed \in [Session -> Seq(1 .. MaxRequest)]
      /\ transferred \in [IoThread -> Nat]
  BY GoodParts, TypedSession DEF Base, TypeOK, SendGood
<1>3. /\ UNCHANGED <<mConnected, mRefCount, mSendPendingCount, mSendBuffer, received, posted,
                     mFreeSessionList, LSendRequestSessionList, LSendRequestFailedSessionList,
                     crashed>>
  BY DEF GetSendCompletion, session, pool, lists
<1>4. /\ sends'[s] = Tail(sends[s])
      /\ \A r \in Session \ {s} : sends'[r] = sends[r]
  BY <1>1, <1>2
<1>5. PICK n \in Nat \ {0} : n = Head(sends[s]) /\ Ordered(s, n)
  <2>1. sends[s] \in Seq(Nat \ {0})
    BY <1>2
  <2>2. Head(sends[s]) \in Nat \ {0}
    BY <1>1, <2>1
  <2> QED
    BY <1>1, <1>2, <2>2 DEF FlightOK
<1>6. mSendBuffer[s] \in Seq(1 .. MaxRequest) /\ handed[s] \in Seq(1 .. MaxRequest)
  BY <1>2 DEF Typed
<1>7. PICK h \in Sent \cup {"end"} :
        /\ Steps(t, s, "idle", h)
        /\ \A r \in Session \ {s} : handed'[r] = handed[r]
        /\ \A u \in IoThread \ {t} : transferred'[u] = transferred[u]
        /\ h = "sentEnd" \/ handed'[s] = handed[s]
        /\ Rising(handed'[s])
        /\ \A i \in 1 .. Len(handed'[s]) : handed'[s][i] <= Seen(s)
        /\ h \in Sent => OrderedBy(mSendBuffer[s], handed'[s], transferred'[t])
  <2>1. OrderedBy(mSendBuffer[s], handed[s], n) /\ Rising(handed[s])
        /\ \A i \in 1 .. Len(handed[s]) : handed[s][i] <= Seen(s)
    BY <1>2, <1>5 DEF Ordered, OrderOK
  <2>2. CASE /\ Steps(t, s, "idle", "sent")
             /\ transferred' = [transferred EXCEPT ![t] = Head(sends[s])]
             /\ UNCHANGED handed
    <3>1. transferred'[t] = n /\ \A u \in IoThread \ {t} : transferred'[u] = transferred[u]
      BY <1>2, <1>5, <2>2
    <3>2. "sent" \in Sent
      BY DEF Sent
    <3> QED
      BY <2>1, <2>2, <3>1, <3>2
  <2>3. CASE \E unsent \in 1 .. Head(sends[s]) - 1 :
               /\ Steps(t, s, "idle", "sentEnd")
               /\ transferred' = [transferred EXCEPT ![t] = Head(sends[s]) - unsent]
               /\ handed' = [handed EXCEPT ![s] = SubSeq(@, 1, Len(@) - unsent)]
    <3>1. PICK k \in 1 .. n - 1 :
               /\ Steps(t, s, "idle", "sentEnd")
               /\ transferred' = [transferred EXCEPT ![t] = n - k]
               /\ handed' = [handed EXCEPT ![s] = SubSeq(@, 1, Len(@) - k)]
      BY <1>5, <2>3
    <3>2. k \in Nat /\ k <= n
      OBVIOUS
    <3>3. transferred'[t] = n - k /\ \A u \in IoThread \ {t} : transferred'[u] = transferred[u]
      BY <1>2, <3>1
    <3>4. /\ handed'[s] = SubSeq(handed[s], 1, Len(handed[s]) - k)
          /\ \A r \in Session \ {s} : handed'[r] = handed[r]
      BY <1>2, <3>1
    <3>5. PICK q : q = SubSeq(handed[s], 1, Len(handed[s]) - k)
      OBVIOUS
    <3>6. /\ OrderedBy(mSendBuffer[s], q, n - k) /\ Rising(q)
          /\ Len(q) = Len(handed[s]) - k
          /\ \A i \in 1 .. Len(handed[s]) - k : q[i] = handed[s][i]
      <4>1. PICK p, buffer : p = handed[s] /\ buffer = mSendBuffer[s]
        OBVIOUS
      <4>2. /\ p \in Seq(1 .. MaxRequest) /\ buffer \in Seq(1 .. MaxRequest)
            /\ OrderedBy(buffer, p, n) /\ Rising(p)
        BY <1>6, <2>1, <4>1
      <4>3. /\ OrderedBy(buffer, SubSeq(p, 1, Len(p) - k), n - k)
            /\ Rising(SubSeq(p, 1, Len(p) - k))
            /\ Len(SubSeq(p, 1, Len(p) - k)) = Len(p) - k
            /\ \A i \in 1 .. Len(p) - k : SubSeq(p, 1, Len(p) - k)[i] = p[i]
        <5>1. n \in Nat
          OBVIOUS
        <5> QED
          BY <3>2, <4>2, <5>1, OrderedPart
      <4>4. q = SubSeq(p, 1, Len(p) - k)
        BY <3>5, <4>1
      <4> QED
        BY <4>1, <4>3, <4>4
    <3>7. \A i \in 1 .. Len(q) : q[i] <= Seen(s)
      <4>1. Len(handed[s]) \in Nat
        BY <1>6
      <4>2. \A i \in 1 .. Len(q) : i \in 1 .. Len(handed[s]) /\ q[i] = handed[s][i]
        BY <3>2, <3>6, <4>1
      <4> QED
        BY <2>1, <4>2
    <3>8. "sentEnd" \in Sent
      BY DEF Sent
    <3> QED
      BY <3>1, <3>3, <3>4, <3>5, <3>6, <3>7, <3>8
  <2>4. CASE Steps(t, s, "idle", "end") /\ UNCHANGED <<transferred, handed>>
    <3>1. "end" \notin Sent
      BY DEF Sent
    <3> QED
      BY <2>1, <2>4, <3>1
  <2> QED
    BY <2>2, <2>3, <2>4, GetSendSteps DEF Base
<1>8. Local(t, s, "idle", h) /\ Counted(t, s)' = Counted(t, s)
  <2>1. \A r \in Session \ {s} : Unmoved(r)
    BY <1>3, <1>4, <1>7 DEF Unmoved
  <2> QED
    BY <1>3, <1>7, <2>1, LocalAlone
<1>9. SendGood(s)' /\ Len(sends[s]) = 1 /\ Len(sends'[s]) = 0
  BY <1>1, <1>2, <1>3, <1>4, <1>7, TakenSend
<1>10. mRefCount[s] >= 1
  BY <1>1, <1>2, <1>7, Referenced
<1>11. /\ "idle" \notin Ending /\ "idle" \notin {"flush", "flushLocked"} /\ "idle" \notin Sending
       /\ h # "accept" /\ h \notin Strange /\ h \notin Returning /\ h \notin Receiving
       /\ h = "sent" \/ h \in Ending
  BY <1>7 DEF Ending, Sending, Sent, Strange, Returning, Receiving
<1>12. ListedOK(s)'
  <2>1. CASE h \in Ending
    BY <1>2, <1>8, <2>1, ListedKept
  <2>2. CASE h = "sent"
    BY <1>2, <1>3, <1>7, <1>8, <1>11, <2>2, ListedSame
  <2> QED
    BY <1>11, <2>1, <2>2
<1>13. Len(sends'[s]) + Weight(h) - mRefCount'[s]
         <= Len(sends[s]) + Weight("idle") - mRefCount[s]
  <2>1. PICK v : v = Weight("idle") /\ v = 0
    BY DEF Weight, Refs, TwoRefs
  <2>2. Weight(h) = 1
    BY DEF Weight, Refs, TwoRefs, Sent
  <2>3. PICK m \in Int : m = mRefCount[s] /\ m = mRefCount'[s]
    BY <1>2, <1>3 DEF Typed
  <2> QED
    BY <1>9, <2>1, <2>2, <2>3
<1>14. /\ mFreeSessionList' = mFreeSessionList /\ ~crashed' /\ mConnected'[s] = mConnected[s]
       /\ posted'[s] = posted[s]
  BY <1>2, <1>3
<1> QED
  BY <1>2, <1>8, <1>9, <1>10, <1>11, <1>12, <1>13, <1>14, HeldKeeps

-----------------------------------------------------------------------------
(* The steps of no thread.                                                 *)
LEMMA ThreadsStay ==
  ASSUME UNCHANGED <<todo, at>>, NEW s, NEW G
  PROVE  Threads(s, G)' = Threads(s, G)
BY DEF Threads, stage

\* A session that nobody touches, while no thread moves.
LEMMA SessionStays ==
  ASSUME UNCHANGED thread, UNCHANGED lists, NEW r \in Session, Unmoved(r),
         InPool(r)' => InPool(r), GoodAt(r)
  PROVE  GoodAt(r)'
<1>1. UNCHANGED <<todo, at, transferred, LSendRequestSessionList, LSendRequestFailedSessionList>>
  BY DEF thread, lists
<1>2. /\ Threads(r, Refs)' = Threads(r, Refs) /\ Threads(r, TwoRefs)' = Threads(r, TwoRefs)
      /\ Threads(r, {"accept"})' = Threads(r, {"accept"})
      /\ Threads(r, Receiving)' = Threads(r, Receiving)
      /\ Threads(r, Strange)' = Threads(r, Strange)
      /\ Threads(r, Returning)' = Threads(r, Returning)
      /\ Threads(r, {"commit"})' = Threads(r, {"commit"})
      /\ Threads(r, Handling)' = Threads(r, Handling)
      /\ Threads(r, Sent)' = Threads(r, Sent)
      /\ Threads(r, Ending)' = Threads(r, Ending)
  BY <1>1, ThreadsStay
<1>3. RefOK(r)'
  BY <1>2 DEF GoodAt, RefOK, Need, Held, Unmoved
<1>4. StageOK(r)' /\ TokenOK(r)'
  BY <1>2 DEF GoodAt, StageOK, TokenOK, Unmoved
<1>5. PoolOK(r)'
  BY <1>2 DEF GoodAt, PoolOK, Unmoved
<1>6. EarlyOK(r)' /\ SendOK(r)' /\ Early(r)' = Early(r)
  BY <1>2 DEF GoodAt, EarlyOK, SendOK, Early, Unmoved
<1>7. OrderOK(r)'
  BY <1>2 DEF GoodAt, OrderOK, Seen, Unmoved
<1>8. FlightOK(r)'
  <2>1. \A n : Ordered(r, n)' = Ordered(r, n)
    BY DEF Ordered, Unmoved
  <2>2. \A u : Ordered(r, transferred[u])' = Ordered(r, transferred[u])
    BY <1>1 DEF Ordered, Unmoved
  <2>3. Blocked(r)' <=> Blocked(r)
    BY <1>2, <1>6 DEF Blocked, Unmoved
  <2> QED
    BY <1>2, <2>1, <2>2, <2>3 DEF GoodAt, FlightOK, Unmoved
<1>9. ListedOK(r)'
  <2>1. Waiting(r)' = Waiting(r)
    BY DEF Waiting, Unmoved
  <2>2. SpotsOf(r)' = SpotsOf(r)
    BY <1>1 DEF SpotsOf, Flushing, Posted, stage
  <2>3. Listed(r)' = Listed(r)
    BY <2>2 DEF Listed
  <2> QED
    BY <1>2, <2>1, <2>3 DEF GoodAt, ListedOK, Unmoved
<1> QED
  BY <1>3, <1>4, <1>5, <1>6, <1>7, <1>8, <1>9 DEF GoodAt

\* What a session without references has none of.
LEMMA Unreferenced ==
  ASSUME TypeOK, NEW s \in Session, RefOK(s), mRefCount[s] = 0
  PROVE  /\ mConnected[s] = 0 /\ sends[s] = << >> /\ posted[s] = {}
         /\ Threads(s, Refs) = {} /\ Threads(s, TwoRefs) = {}
<1>1. /\ Booked(posted[s]) \in Nat /\ mConnected[s] \in 0 .. 1 /\ mRefCount[s] \in Int
      /\ Len(sends[s]) \in Nat /\ sends[s] \in Seq(Nat \ {0})
      /\ posted[s] \in SUBSET {"accept", "receive", "disconnect"}
  BY TypedSession DEF Typed
<1>2. PICK a \in Nat, b \in Nat :
        a = Cardinality(Threads(s, Refs)) /\ b = Cardinality(Threads(s, TwoRefs))
  BY ThreadsFinite
<1>3. Booked(posted[s]) + Len(sends[s]) + mConnected[s] + (a + b) <= mRefCount[s]
  BY <1>2 DEF RefOK, Need, Held
<1>4. Booked(posted[s]) = 0 /\ Len(sends[s]) = 0 /\ mConnected[s] = 0 /\ a = 0 /\ b = 0
  BY <1>1, <1>3
<1>5. sends[s] = << >>
  BY <1>1, <1>4
<1>6. posted[s] = {}
  BY <1>1, <1>4, BookedAdd
<1>7. Threads(s, Refs) = {} /\ Threads(s, TwoRefs) = {}
  BY <1>2, <1>4, ThreadsFinite, FS_EmptySet
<1> QED
  BY <1>4, <1>5, <1>6, <1>7

\* AcceptClientSessions issues a session that nobody uses.
LEMMA IssueGood ==
  ASSUME Base, Base', Good, AcceptClientSessions
  PROVE  Good'
<1>1. /\ TypeOK /\ TypeOK' /\ ~crashed /\ PoolOnce /\ mFreeSessionList \in Seq(Session)
      /\ mFreeSessionList # << >>
      /\ mRefCount \in [Session -> Int]
      /\ posted \in [Session -> SUBSET {"accept", "receive", "disconnect"}]
  BY DEF Base, Good, AcceptClientSessions, TypeOK
<1>2. PICK n \in Nat \ {0} : n = Len(mFreeSessionList)
  BY <1>1
<1>3. PICK s \in Session : s = mFreeSessionList[n]
  BY <1>1, <1>2
<1>4. /\ mFreeSessionList' = SubSeq(mFreeSessionList, 1, n - 1)
      /\ UNCHANGED <<mConnected, mSendPendingCount, mSendBuffer, received, sends, handed, crashed>>
      /\ UNCHANGED thread /\ UNCHANGED lists
  BY <1>2 DEF AcceptClientSessions
<1>5. \/ /\ posted' = [posted EXCEPT ![s] = @ \cup {"accept"}]
         /\ mRefCount' = [mRefCount EXCEPT ![s] = @ + 2]
      \/ /\ mRefCount' = [mRefCount EXCEPT ![s] = @ + 1]
         /\ posted' = posted
  BY <1>2, <1>3 DEF AcceptClientSessions, AddRef
<1>6. \A r \in Session \ {s} : Unmoved(r)
  BY <1>1, <1>4, <1>5 DEF Unmoved
<1>7. /\ Len(mFreeSessionList') = n - 1
      /\ \A i \in 1 .. n - 1 : mFreeSessionList'[i] = mFreeSessionList[i]
      /\ DOMAIN mFreeSessionList' = 1 .. n - 1 /\ DOMAIN mFreeSessionList = 1 .. n
  <2>1. PICK q : q = mFreeSessionList /\ q \in Seq(Session) /\ Len(q) = n
    BY <1>1, <1>2
  <2>2. PICK m \in Nat : m = n - 1
    OBVIOUS
  <2>3. m <= Len(q) /\ 1 \in Nat \ {0}
    BY <2>1, <2>2
  <2>4. /\ SubSeq(q, 1, m) \in Seq(Session)
        /\ Len(SubSeq(q, 1, m)) = IF 1 <= m THEN m - 1 + 1 ELSE 0
        /\ \A i \in 1 .. m - 1 + 1 : SubSeq(q, 1, m)[i] = q[1 + i - 1]
    BY <2>1, <2>3, Pieces
  <2>5. PICK p : p = SubSeq(q, 1, m)
    OBVIOUS
  <2>6. Len(p) = m /\ DOMAIN p = 1 .. m /\ \A i \in 1 .. m : p[i] = q[i]
    <3>1. Len(p) = m
      BY <2>4, <2>5
    <3>2. p \in Seq(Session)
      BY <2>4, <2>5
    <3>3. DOMAIN p = 1 .. m
      BY <3>1, <3>2
    <3>4. \A i \in 1 .. m : 1 + i - 1 = i /\ i \in 1 .. m - 1 + 1
      OBVIOUS
    <3> QED
      BY <2>4, <2>5, <3>1, <3>3, <3>4
  <2>7. DOMAIN q = 1 .. n
    BY <2>1
  <2>8. mFreeSessionList' = p
    BY <1>4, <2>1, <2>2, <2>5
  <2> QED
    BY <2>1, <2>2, <2>6, <2>7, <2>8
<1>8. \A r \in Session : InPool(r)' => InPool(r)
  BY <1>7 DEF InPool
<1>9. InPool(s) /\ ~InPool(s)'
  <2>1. n \in 1 .. n
    OBVIOUS
  <2>2. InPool(s)
    BY <1>3, <1>7, <2>1 DEF InPool
  <2>3. ASSUME NEW i \in 1 .. n - 1, mFreeSessionList'[i] = s PROVE FALSE
    <3>1. i \in 1 .. n /\ i # n
      OBVIOUS
    <3>2. mFreeSessionList[i] = mFreeSessionList[n]
      BY <1>3, <1>7, <2>3
    <3> QED
      BY <1>1, <1>7, <2>1, <3>1, <3>2 DEF PoolOnce
  <2> QED
    BY <1>7, <2>2, <2>3 DEF InPool
<1>10. PoolOnce'
  <2>1. \A i \in 1 .. n - 1 : i \in 1 .. n
    OBVIOUS
  <2> QED
    BY <1>1, <1>7, <2>1 DEF PoolOnce
<1>11. GoodAt(s)
  BY DEF Good
<1>12. /\ mRefCount[s] = 0 /\ received[s] = 0 /\ Threads(s, Returning) = {}
       /\ mConnected[s] = 0 /\ sends[s] = << >> /\ posted[s] = {}
       /\ Threads(s, Refs) = {} /\ Threads(s, TwoRefs) = {}
  <2>1. /\ mRefCount[s] = 0 /\ received[s] = 0 /\ Threads(s, Returning) = {} /\ RefOK(s)
    BY <1>9, <1>11 DEF GoodAt, PoolOK
  <2> QED
    BY <1>1, <2>1, Unreferenced
<1>13. \A G : Threads(s, G)' = Threads(s, G)
  BY <1>4, ThreadsStay DEF thread
<1>14. /\ Threads(s, Receiving) = {} /\ Threads(s, {"accept"}) = {}
  BY <1>12 DEF Threads, Receiving, Refs, TwoRefs
<1>15. \/ posted'[s] = {"accept"} /\ mRefCount'[s] = 2
       \/ posted'[s] = {} /\ mRefCount'[s] = 1
  BY <1>1, <1>5, <1>12
<1>16. RefOK(s)'
  <2>1. Held(s)' = 0
    <3>1. Cardinality(Threads(s, Refs)') = 0 /\ Cardinality(Threads(s, TwoRefs)') = 0
      BY <1>12, <1>13, FS_EmptySet
    <3> QED
      BY <3>1 DEF Held
  <2>2. Booked({}) = 0 /\ Booked({"accept"}) = 2
    <3>1. {} \cap StageIo = {} /\ {"accept"} \cap StageIo = {"accept"}
      BY DEF StageIo
    <3>2. Cardinality({}) = 0
      BY FS_EmptySet
    <3>3. Cardinality({"accept"}) = 1
      BY FS_Singleton
    <3> QED
      BY <3>1, <3>2, <3>3 DEF Booked
  <2>3. Booked(posted'[s]) <= mRefCount'[s] /\ mRefCount'[s] \in Nat /\ Booked(posted'[s]) \in Nat
    BY <1>15, <2>2
  <2>4. Len(sends'[s]) = 0 /\ mConnected'[s] = 0
    BY <1>4, <1>12
  <2>5. Need(s)' = Booked(posted'[s]) + Len(sends'[s]) + mConnected'[s] + Held(s)'
    BY DEF Need, Booked
  <2>6. Need(s)' <= mRefCount'[s]
    BY <2>1, <2>3, <2>4, <2>5
  <2> QED
    BY <2>6 DEF RefOK
<1>17. StageOK(s)' /\ TokenOK(s)'
  <2>1. mConnected'[s] = 0 /\ "disconnect" \notin posted'[s] /\ "receive" \notin posted'[s]
    BY <1>4, <1>12, <1>15
  <2>2. Threads(s, Receiving)' = {} /\ Threads(s, {"accept"})' = {}
    BY <1>13, <1>14
  <2>3. StageOK(s)'
    BY <2>1, <2>2 DEF StageOK
  <2>4. TokenOK(s)'
    BY <2>1, <2>2 DEF TokenOK
  <2> QED
    BY <2>3, <2>4
<1>18. PoolOK(s)'
  <2>1. Threads(s, Strange)' = {} /\ Threads(s, Returning)' = {}
    BY <1>11, <1>12, <1>13 DEF GoodAt, PoolOK
  <2> QED
    BY <1>9, <2>1 DEF PoolOK
<1>19. EarlyOK(s)' /\ SendOK(s)' /\ (Early(s)' <=> Early(s))
  <2>1. /\ Threads(s, {"commit"})' = Threads(s, {"commit"})
        /\ Threads(s, {"accept"})' = Threads(s, {"accept"})
        /\ Threads(s, Handling)' = Threads(s, Handling)
    BY <1>13
  <2>2. Early(s)' <=> Early(s)
    BY <1>4, <2>1 DEF Early
  <2>3. EarlyOK(s)'
    BY <1>4, <1>11, <1>12, <2>1, <2>2 DEF EarlyOK, GoodAt
  <2>4. SendOK(s)'
    BY <1>4, <1>11, <2>1 DEF SendOK, GoodAt
  <2> QED
    BY <2>2, <2>3, <2>4
<1>20. OrderOK(s)'
  <2>1. Threads(s, {"commit"})' = Threads(s, {"commit"})
    BY <1>13
  <2> QED
    BY <1>4, <1>11, <2>1 DEF OrderOK, Seen, GoodAt
<1>21. FlightOK(s)'
  <2>1. \A k : Ordered(s, k)' = Ordered(s, k)
    BY <1>4 DEF Ordered
  <2>2. \A u : Ordered(s, transferred[u])' = Ordered(s, transferred[u])
    BY <1>4 DEF Ordered, thread
  <2>3. /\ Threads(s, Sent)' = Threads(s, Sent) /\ Threads(s, Handling)' = Threads(s, Handling)
    BY <1>13
  <2>4. Blocked(s)' <=> Blocked(s)
    BY <1>4, <1>19, <2>3 DEF Blocked
  <2> QED
    BY <1>4, <1>11, <2>1, <2>2, <2>3, <2>4 DEF FlightOK, GoodAt
<1>22. ListedOK(s)'
  <2>1. mConnected'[s] # 1
    BY <1>4, <1>12
  <2> QED
    BY <2>1, ListedClosed
<1>23. GoodAt(s)'
  BY <1>16, <1>17, <1>18, <1>19, <1>20, <1>21, <1>22 DEF GoodAt
<1>24. ASSUME NEW r \in Session, r # s PROVE GoodAt(r)'
  <2>1. GoodAt(r) /\ Unmoved(r) /\ (InPool(r)' => InPool(r))
    BY <1>6, <1>8, <1>24 DEF Good
  <2> QED
    BY <1>4, <2>1, SessionStays
<1>25. ~crashed'
  BY <1>1, <1>4
<1> QED
  BY <1>10, <1>23, <1>24, <1>25 DEF Good

LEMMA StutterGood ==
  ASSUME Good, UNCHANGED vars
  PROVE  Good'
<1>1. /\ UNCHANGED session /\ UNCHANGED kernel /\ UNCHANGED pool /\ UNCHANGED lists
      /\ UNCHANGED thread /\ UNCHANGED crashed
  BY DEF vars
<1>2. ASSUME NEW r \in Session PROVE GoodAt(r)'
  <2>1. Unmoved(r)
    BY <1>1 DEF Unmoved, session, kernel
  <2>2. InPool(r)' => InPool(r)
    BY <1>1 DEF InPool, pool
  <2> QED
    BY <1>1, <2>1, <2>2, SessionStays DEF Good
<1>3. PoolOnce'
  BY <1>1 DEF Good, PoolOnce, pool
<1> QED
  BY <1>1, <1>2, <1>3 DEF Good

\* What strays stays strayed.
LEMMA StrayedStays ==
  ASSUME [Next]_vars, strayed
  PROVE  strayed'
<1>1. CASE UNCHANGED vars
  BY <1>1 DEF vars
<1>2. CASE AcceptClientSessions
  BY <1>2 DEF AcceptClientSessions
<1>3. ASSUME NEW t \in IoThread, Proceed(t) PROVE strayed'
  <2>1. CASE FlushStored(t)
    BY <2>1 DEF FlushStored
  <2>2. CASE ~FlushStored(t)
    BY <1>3, <2>2, ZenonT(30)
    DEF Proceed, ReturnClientSession, SessionReset, SendBufferReset, ReleaseRef, DisconnectRequest,
        TimeOut, AcceptCompletion, RecvCompletion, PreRecv, SendRequest, DoSendJob, FlushSend,
        WSASend, Unlock, SendCompletion
  <2> QED
    BY <2>1, <2>2
<1>4. ASSUME NEW t \in IoThread, NEW s \in Session,
             GetCompletion(t, s) \/ GetSendCompletion(t, s)
      PROVE  strayed'
  BY <1>4 DEF GetCompletion, GetSendCompletion
<1> QED
  BY <1>1, <1>2, <1>3, <1>4 DEF Next

\* Good is kept by every step that does not stray.
LEMMA GoodNext ==
  ASSUME Base, Base', Good, [Next]_vars, ~strayed'
  PROVE  Good'
<1>1. CASE AcceptClientSessions
  BY <1>1, IssueGood
<1>2. CASE UNCHANGED vars
  BY <1>2, StutterGood
<1>3. ASSUME NEW t \in IoThread, Proceed(t) PROVE Good'
  BY <1>3, ReturnGood, ResetGood, BufferResetGood, ReleaseGood, DisconnectGood, TimeOutGood,
     AcceptGood, ReceiveGood, PreRecvGood, RequestGood, SendJobGood, FlushGood, StoredGood,
     WSASendGood, UnlockGood, CompletionGood
  DEF Proceed
<1>4. ASSUME NEW t \in IoThread, NEW s \in Session,
             GetCompletion(t, s) \/ GetSendCompletion(t, s)
      PROVE  Good'
  BY <1>4, GetGood, GetSendGood
<1> QED
  BY <1>1, <1>2, <1>3, <1>4 DEF Next

\* The invariant is inductive.
LEMMA IInvStep ==
  ASSUME IInv, [Next]_vars
  PROVE  IInv'
<1>1. Base'
  BY BaseStep DEF IInv
<1>2. ASSUME ~strayed' PROVE Good'
  <2>1. ~strayed
    BY <1>2, StrayedStays
  <2> QED
    BY <1>1, <1>2, <2>1, GoodNext DEF IInv
<1> QED
  BY <1>1, <1>2 DEF IInv

\* All threads are idle at first.
LEMMA InitThreads ==
  ASSUME Init
  PROVE  /\ Controlled /\ \A t \in IoThread : stage(t) = "idle"
         /\ \A s, G : G \cap Resting = {} => Threads(s, G) = {}
<1>1. "idle" \in Stages /\ Plan("idle") = << >>
  BY DEF Stages, Plan
<1>2. ASSUME NEW t \in IoThread PROVE stage(t) = "idle"
  <2>1. todo[t] = << >>
    BY DEF Init
  <2> QED
    BY <1>1, <2>1, StageOfPlan DEF stage
<1>3. Controlled
  BY <1>1 DEF Controlled, Init
<1>4. "idle" \in Resting
  BY DEF Resting
<1> QED
  BY <1>2, <1>3, <1>4 DEF Threads

\* The invariant holds at first.
LEMMA InitBase ==
  ASSUME Init
  PROVE  Base
<1>1. Controlled /\ \A t \in IoThread : stage(t) = "idle"
  BY InitThreads
<1>2. TypeOK
  <2>1. /\ << >> \in Seq(1 .. MaxRequest) /\ << >> \in Seq(Nat \ {0}) /\ << >> \in Seq(Session)
        /\ 0 \in 0 .. MaxRequest /\ 0 \in 0 .. MaxIssue /\ 0 \in 0 .. 1
    BY BoundAssumption
  <2>2. mFreeSessionList \in Seq(Session)
    <3>1. PICK n \in Nat : n = Cardinality(Session)
      BY SessionAssumption, FS_CardinalityType
    <3>2. mFreeSessionList \in [1 .. n -> Session]
      BY <3>1 DEF Init
    <3> QED
      BY <3>2
  <2>3. todo \in [IoThread -> Seq(Call)]
    BY <1>1, ControlledType
  <2>4. /\ mConnected \in [Session -> 0 .. 1] /\ mRefCount \in [Session -> Int]
        /\ mSendPendingCount \in [Session -> Nat]
        /\ mSendBuffer \in [Session -> Seq(1 .. MaxRequest)]
        /\ mSendBufferLock \in [Session -> IoThread \cup {NoThread}]
        /\ received \in [Session -> 0 .. MaxRequest]
    BY <2>1 DEF Init
  <2>5. /\ sends \in [Session -> Seq(Nat \ {0})]
        /\ posted \in [Session -> SUBSET {"accept", "receive", "disconnect"}]
        /\ mCurrentIssueCount \in 0 .. MaxIssue /\ mLock \in IoThread \cup {NoThread}
        /\ accepting \in BOOLEAN /\ crashed \in BOOLEAN /\ strayed \in BOOLEAN
        /\ handed \in [Session -> Seq(1 .. MaxRequest)]
    BY <2>1 DEF Init
  <2>6. /\ at \in [IoThread -> Session] /\ transferred \in [IoThread -> Nat]
        /\ LSendRequestSessionList \in [IoThread -> Seq(Session)]
        /\ LSendRequestFailedSessionList \in [IoThread -> Seq(Session)]
    BY <2>1 DEF Init
  <2> QED
    BY <2>2, <2>3, <2>4, <2>5, <2>6 DEF TypeOK
<1>3. LockInv /\ LengthInv
  BY <1>1 DEF LockInv, LengthInv, Locking, Sending, Sent
<1>4. PendingInv
  <2> SUFFICES ASSUME NEW s \in Session
               PROVE  Len(sends[s]) + Cardinality(Threads(s, Sent)) <= mSendPendingCount[s]
    BY DEF PendingInv
  <2>1. Threads(s, Sent) = {}
    BY InitThreads, StageSets
  <2>2. Cardinality(Threads(s, Sent)) = 0
    BY <2>1, FS_EmptySet
  <2>3. Len(sends[s]) = 0 /\ mSendPendingCount[s] = 0
    BY DEF Init
  <2> QED
    BY <2>2, <2>3
<1> QED
  BY <1>1, <1>2, <1>3, <1>4 DEF Base

LEMMA InitIInv ==
  ASSUME Init
  PROVE  IInv
<1>1. PoolOnce
  <2>1. PICK n \in Nat : n = Cardinality(Session)
    BY SessionAssumption, FS_CardinalityType
  <2>2. mFreeSessionList \in Surjection(1 .. n, Session)
    <3>1. /\ mFreeSessionList \in [1 .. n -> Session]
          /\ \A s \in Session : \E i \in 1 .. n : mFreeSessionList[i] = s
      BY <2>1 DEF Init
    <3> QED
      BY <3>1, Fun_IsSurj
  <2>3. IsFiniteSet(1 .. n) /\ Cardinality(1 .. n) = n
    <3>1. 1 \in Int /\ n \in Int
      OBVIOUS
    <3>2. IsFiniteSet(1 .. n) /\ Cardinality(1 .. n) = IF 1 > n THEN 0 ELSE n - 1 + 1
      BY <3>1, FS_Interval
    <3> QED
      BY <3>2
  <2>4. mFreeSessionList \in Injection(1 .. n, Session)
    BY <2>1, <2>2, <2>3, FS_SurjSameCardinalityImpliesInj
  <2> QED
    BY <2>4, Fun_InjectionProperties DEF PoolOnce
<1>2. ASSUME NEW s \in Session PROVE GoodAt(s)
  <2>1. /\ mConnected[s] = 0 /\ mRefCount[s] = 0 /\ mSendPendingCount[s] = 0
        /\ mSendBuffer[s] = << >> /\ received[s] = 0 /\ sends[s] = << >> /\ posted[s] = {}
        /\ handed[s] = << >>
    BY DEF Init
  <2>2. /\ Threads(s, Refs) = {} /\ Threads(s, TwoRefs) = {} /\ Threads(s, {"accept"}) = {}
        /\ Threads(s, Receiving) = {} /\ Threads(s, Strange) = {} /\ Threads(s, Returning) = {}
        /\ Threads(s, {"commit"}) = {} /\ Threads(s, Handling) = {} /\ Threads(s, Sent) = {}
    BY InitThreads, StageSets
  <2>3. RefOK(s)
    <3>1. Cardinality({}) = 0 /\ {} \cap StageIo = {}
      BY FS_EmptySet
    <3>2. Booked(posted[s]) = 0 /\ Held(s) = 0
      BY <2>1, <2>2, <3>1 DEF Booked, Held
    <3>3. Len(sends[s]) = 0
      BY <2>1
    <3> QED
      BY <2>1, <3>2, <3>3 DEF RefOK, Need
  <2>4. StageOK(s) /\ TokenOK(s) /\ PoolOK(s)
    BY <2>1, <2>2 DEF StageOK, TokenOK, PoolOK
  <2>5. EarlyOK(s)
    BY <2>1, <2>2 DEF EarlyOK
  <2>6. SendOK(s) /\ OrderOK(s)
    BY <2>1, <2>2 DEF SendOK, OrderOK, Rising
  <2>7. FlightOK(s)
    BY <2>1, <2>2 DEF FlightOK, Ordered, OrderedBy
  <2>8. ListedOK(s)
    BY <2>1 DEF ListedOK
  <2> QED
    BY <2>3, <2>4, <2>5, <2>6, <2>7, <2>8 DEF GoodAt
<1>3. ~crashed
  BY DEF Init
<1> QED
  BY <1>1, <1>2, <1>3, InitBase DEF IInv, Good

-----------------------------------------------------------------------------
(* The invariant in the terms of the properties.                           *)

\* What a thread calls next tells its stage.
LEMMA CallingStages ==
  ASSUME NEW t \in IoThread, Controlled
  PROVE  /\ (Calling(t, "wsaSend") <=> stage(t) \in Sending)
         /\ (Calling(t, "sent") <=> stage(t) \in Sent)
         /\ (Calling(t, "flush") \/ Calling(t, "flushLocked")
               <=> stage(t) \in {"flush", "flushLocked"})
<1> PICK g \in Stages : g = stage(t)
  BY StageType
<1>1. todo[t] = Plan(g)
  BY StageType
<1>2. "idle" \notin Sending /\ "idle" \notin Sent /\ "idle" \notin {"flush", "flushLocked"}
  BY DEF Sending, Sent
<1>3. CASE g = "idle"
  <2>1. todo[t] = << >>
    BY <1>1, <1>3, IdlePlan
  <2> QED
    BY <1>2, <1>3, <2>1 DEF Calling
<1>4. CASE g # "idle"
  <2>1. Plan(g) # << >>
    BY <1>4, IdlePlan
  <2>2. /\ (Head(Plan(g)) = "wsaSend" <=> g \in {"key", "post"})
        /\ (Head(Plan(g)) = "sent" <=> g \in {"sent", "sentEnd"})
        /\ (Head(Plan(g)) = "flush" <=> g \in {"flush"})
        /\ (Head(Plan(g)) = "flushLocked" <=> g \in {"flushLocked"})
    BY <2>1, Heads
  <2>3. /\ (Calling(t, "wsaSend") <=> g \in {"key", "post"})
        /\ (Calling(t, "sent") <=> g \in {"sent", "sentEnd"})
        /\ (Calling(t, "flush") <=> g \in {"flush"})
        /\ (Calling(t, "flushLocked") <=> g \in {"flushLocked"})
    BY <1>1, <2>1, <2>2 DEF Calling
  <2> QED
    BY <2>3 DEF Sending, Sent
<1> QED
  BY <1>3, <1>4

\* Who posts a send or completes one is handling it.
LEMMA HandlingThreads ==
  ASSUME NEW s, Controlled
  PROVE  Posting(s) \cup Completing(s) = Threads(s, Handling)
BY CallingStages DEF Posting, Completing, Threads, Handling

\* Who ends the connection will call DisconnectRequest.
LEMMA EndingPlans ==
  ASSUME NEW g \in Ending
  PROVE  g \in Stages /\ "disconnect" \in ToSet(Plan(g))
<1>1. g \in Stages
  BY DEF Ending, Stages
<1>2. \A q : \A i \in DOMAIN q : q[i] \in ToSet(q)
  BY DEF ToSet
<1>3. CASE g \in {"end", "keyDisc", "flushDisc", "postDisc"}
  <2>1. 1 \in DOMAIN Plan(g) /\ Plan(g)[1] = "disconnect"
    <3>1. CASE g = "end"
      BY <3>1 DEF Plan
    <3>2. CASE g = "keyDisc"
      BY <3>2 DEF Plan
    <3>3. CASE g = "flushDisc"
      BY <3>3 DEF Plan
    <3>4. CASE g = "postDisc"
      BY <3>4 DEF Plan
    <3> QED
      BY <3>1, <3>2, <3>3, <3>4, <1>3
  <2> QED
    BY <1>1, <1>2, <2>1
<1>4. CASE g \notin {"end", "keyDisc", "flushDisc", "postDisc"}
  <2>1. 2 \in DOMAIN Plan(g) /\ Plan(g)[2] = "disconnect"
    <3>1. CASE g = "sentEnd"
      BY <3>1 DEF Plan
    <3>2. CASE g = "keyFail"
      BY <3>2 DEF Plan
    <3>3. CASE g = "postFail"
      BY <3>3 DEF Plan
    <3>4. CASE g = "postReturn"
      BY <3>4 DEF Plan
    <3>5. CASE g = "postReset"
      BY <3>5 DEF Plan
    <3>6. CASE g = "postBufReset"
      BY <3>6 DEF Plan
    <3>7. CASE g = "keyReturn"
      BY <3>7 DEF Plan
    <3>8. CASE g = "keyReset"
      BY <3>8 DEF Plan
    <3>9. CASE g = "keyBufReset"
      BY <3>9 DEF Plan
    <3> QED
      BY <3>1, <3>2, <3>3, <3>4, <3>5, <3>6, <3>7, <3>8, <3>9, <1>4 DEF Ending
  <2> QED
    BY <1>1, <1>2, <2>1
<1> QED
  BY <1>3, <1>4

\* Nobody is about to end an open connection.
LEMMA OpenIsKept ==
  ASSUME NEW s, Controlled, Open(s)
  PROVE  mConnected[s] = 1 /\ Threads(s, Ending) = {}
<1>1. ASSUME NEW t \in IoThread, at[t] = s PROVE stage(t) \notin Ending
  BY <1>1, StageType, EndingPlans DEF Open
<1> QED
  BY <1>1 DEF Open, Threads

\* The places the property counts are those of the invariant.
LEMMA ListingsListed ==
  ASSUME NEW s, Base
  PROVE  Listings(s) = Listed(s)
<1>1. ASSUME NEW t \in IoThread PROVE Places(t, s) = SpotsOf(s)[t]
  <2> DEFINE request == LSendRequestSessionList[t]
             failed == LSendRequestFailedSessionList[t]
  <2>1. request \in Seq(Session) /\ failed \in Seq(Session) /\ transferred[t] \in Nat
    BY DEF Base, TypeOK
  <2>2. /\ {i \in DOMAIN request : request[i] = s} = Entries(request, s)
        /\ {i \in DOMAIN failed : failed[i] = s} = Entries(failed, s)
    BY <2>1 DEF Entries
  <2>3. {p \in {<<"flush", 1>>} : at[t] = s /\ (Calling(t, "flush") \/ Calling(t, "flushLocked"))}
          = {"flush"} \X (1 .. Flushing(t, s))
    <3>1. CASE at[t] = s /\ stage(t) \in {"flush", "flushLocked"}
      <4>1. Calling(t, "flush") \/ Calling(t, "flushLocked")
        BY <3>1, CallingStages DEF Base
      <4>2. 1 .. Flushing(t, s) = {1}
        BY <3>1 DEF Flushing
      <4>3. {"flush"} \X {1} = {<<"flush", 1>>}
        OBVIOUS
      <4> QED
        BY <3>1, <4>1, <4>2, <4>3
    <3>2. CASE ~(at[t] = s /\ stage(t) \in {"flush", "flushLocked"})
      <4>1. ~(at[t] = s /\ (Calling(t, "flush") \/ Calling(t, "flushLocked")))
        BY <3>2, CallingStages DEF Base
      <4>2. 1 .. Flushing(t, s) = {}
        BY <3>2 DEF Flushing
      <4> QED
        BY <4>1, <4>2
    <3> QED
      BY <3>1, <3>2
  <2>4. {p \in {"send"} \X (1 .. transferred[t]) : at[t] = s /\ Calling(t, "wsaSend")}
          = {"send"} \X (1 .. Posted(t, s))
    <3>1. CASE at[t] = s /\ stage(t) \in Sending
      <4>1. Calling(t, "wsaSend")
        BY <3>1, CallingStages DEF Base
      <4>2. Posted(t, s) = transferred[t]
        BY <3>1 DEF Posted
      <4> QED
        BY <3>1, <4>1, <4>2
    <3>2. CASE ~(at[t] = s /\ stage(t) \in Sending)
      <4>1. ~(at[t] = s /\ Calling(t, "wsaSend"))
        BY <3>2, CallingStages DEF Base
      <4>2. 1 .. Posted(t, s) = {}
        BY <3>2 DEF Posted
      <4> QED
        BY <4>1, <4>2
    <3> QED
      BY <3>1, <3>2
  <2>5. SpotsOf(s)[t] = Spots(request, failed, s, Flushing(t, s), Posted(t, s))
    BY DEF SpotsOf
  <2>6. Places(t, s) = ({"request"} \X Entries(request, s)) \cup ({"failed"} \X Entries(failed, s))
                         \cup ({"flush"} \X (1 .. Flushing(t, s)))
                         \cup ({"send"} \X (1 .. Posted(t, s)))
    BY <2>2, <2>3, <2>4, Zenon DEF Places
  <2> QED
    BY <2>5, <2>6, Zenon DEF Spots
<1>2. DOMAIN SpotsOf(s) = IoThread
  BY DEF SpotsOf
<1> QED
  BY <1>1, <1>2 DEF Listings, Listed, Union

\* What the invariant says of the four properties.
LEMMA IInvSends ==
  ASSUME IInv
  PROVE  AssertsHold /\ OneSendAtATime /\ SentInOrder /\ WaitingIsListed
<1>1. CASE strayed
  BY <1>1 DEF AssertsHold, OneSendAtATime, SentInOrder, WaitingIsListed
<1>2. CASE ~strayed
  <2>1. Good /\ Base /\ TypeOK /\ Controlled
    BY <1>2 DEF IInv, Base
  <2>2. AssertsHold
    BY <2>1 DEF AssertsHold, Good
  <2>3. OneSendAtATime
    <3> SUFFICES ASSUME NEW s \in Session
                 PROVE  Len(sends[s]) + Cardinality(Posting(s) \cup Completing(s)) <= 1
      BY DEF OneSendAtATime
    <3>1. Posting(s) \cup Completing(s) = Threads(s, Handling)
      BY <2>1, HandlingThreads
    <3>2. SendOK(s)
      BY <2>1 DEF Good, GoodAt
    <3>3. sends[s] \in Seq(Nat \ {0})
      BY <2>1 DEF TypeOK
    <3>4. Len(sends[s]) \in Nat /\ (Len(sends[s]) = 0 <=> sends[s] = << >>) /\ Len(sends[s]) <= 1
      BY <3>2, <3>3 DEF SendOK
    <3>5. CASE Threads(s, Handling) = {}
      <4>1. Cardinality(Threads(s, Handling)) = 0
        BY <3>5, FS_EmptySet
      <4>2. Cardinality(Posting(s) \cup Completing(s)) = 0
        BY <3>1, <4>1
      <4> QED
        BY <3>4, <4>2
    <3>6. CASE Threads(s, Handling) # {}
      <4>1. PICK t : Threads(s, Handling) = {t}
        BY <3>2, <3>6 DEF SendOK
      <4>2. Cardinality(Threads(s, Handling)) = 1
        BY <4>1, FS_Singleton
      <4>3. Cardinality(Posting(s) \cup Completing(s)) = 1
        BY <3>1, <4>2
      <4>4. Len(sends[s]) = 0
        BY <3>2, <3>4, <3>6 DEF SendOK
      <4> QED
        BY <4>3, <4>4
    <3> QED
      BY <3>5, <3>6
  <2>4. SentInOrder
    BY <2>1 DEF SentInOrder, Good, GoodAt, OrderOK, Rising
  <2>5. WaitingIsListed
    <3> SUFFICES ASSUME NEW s \in Session, Open(s)
                 PROVE  Cardinality(Waiting(s)) <= Cardinality(Listings(s))
      BY DEF WaitingIsListed
    <3>1. mConnected[s] = 1 /\ Threads(s, Ending) = {}
      BY <2>1, OpenIsKept
    <3>2. Listings(s) = Listed(s)
      BY <2>1, ListingsListed
    <3> QED
      BY <2>1, <3>1, <3>2 DEF Good, GoodAt, ListedOK
  <2> QED
    BY <2>2, <2>3, <2>4, <2>5
<1> QED
  BY <1>1, <1>2

-----------------------------------------------------------------------------
\* Every variable keeps its range, also after a flush strayed: what is decremented in
\* SendCompletion was incremented by a WSASend, so mSendPendingCount never falls below 0; and
\* no send is empty.
THEOREM TypeCorrect == Spec => []TypeOK
<1>1. Base /\ [Next]_vars => Base'
  BY BaseStep
<1>2. Init => Base
  BY InitBase
<1>3. Base => TypeOK
  BY DEF Base
<1> QED
  BY <1>1, <1>2, <1>3, PTL DEF Spec

LEMMA IInvAlways == Spec => []IInv
<1>1. IInv /\ [Next]_vars => IInv'
  BY IInvStep
<1>2. Init => IInv
  BY InitIInv
<1> QED
  BY <1>1, <1>2, PTL DEF Spec

\* However many threads handle packets, flush, end connections and return sessions, and
\* although a list of sessions to be flushed holds no reference: until a flush makes a context
\* for a session that nobody holds, no CRASH_ASSERT of the send path fails, neither
\* that of AcceptCompletion nor those of ReleaseRef and ReturnClientSession.
THEOREM AssertionsHold == Spec => []AssertsHold
<1>1. IInv => AssertsHold
  BY IInvSends
<1> QED
  BY <1>1, IInvAlways, PTL

\* The test of mSendPendingCount in FlushSend, made under the lock, keeps a connection to
\* one WSASend, in the kernel, about to be called, or being completed by any thread; the
\* key exchange, which makes no such test, included.
THEOREM OneSend == Spec => []OneSendAtATime
<1>1. IInv => OneSendAtATime
  BY IInvSends
<1> QED
  BY <1>1, IInvAlways, PTL

\* The replies a connection hands to the kernel are those of ever later requests, none
\* twice, also after a partial or a failed send, and whichever threads flush.
THEOREM RepliesInOrder == Spec => []SentInOrder
<1>1. IInv => SentInOrder
  BY IInvSends
<1> QED
  BY <1>1, IInvAlways, PTL

\* A reply that is stored and not sent is not forgotten: while nobody is about to end its
\* connection, the session stands on the lists of the threads, or in a flush, at least as
\* often as it has such replies.
THEOREM WaitingListed == Spec => []WaitingIsListed
<1>1. IInv => WaitingIsListed
  BY IInvSends
<1> QED
  BY <1>1, IInvAlways, PTL
=============================================================================
