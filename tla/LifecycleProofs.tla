-------------------------- MODULE LifecycleProofs --------------------------
(***************************************************************************)
(* Proofs about Lifecycle: events leave a thread in the order of its       *)
(* steps, and nothing of a thread is behind its exit event.                *)
(***************************************************************************)
EXTENDS Lifecycle, SequenceTheorems, FiniteSetTheorems, TLAPS

-----------------------------------------------------------------------------
(* Events and the log. *)

(* The elements of a sequence and of what it grows into. *)
LEMMA ToSetAppend ==
  ASSUME NEW S, NEW s \in Seq(S), NEW e \in S
  PROVE  ToSet(Append(s, e)) = ToSet(s) \cup {e}
<1>1. /\ DOMAIN s = 1 .. Len(s) /\ Len(s) \in Nat
      /\ DOMAIN Append(s, e) = 1 .. Len(s) + 1
      /\ \A i \in 1 .. Len(s) : Append(s, e)[i] = s[i]
      /\ Append(s, e)[Len(s) + 1] = e
  BY AppendProperties, LenProperties
<1>2. 1 .. Len(s) + 1 = (1 .. Len(s)) \cup {Len(s) + 1}
  BY <1>1
<1>3. QED
  BY <1>1, <1>2 DEF ToSet

(* The elements of two sequences, one behind the other. *)
LEMMA ToSetConcat ==
  ASSUME NEW S, NEW r \in Seq(S), NEW s \in Seq(S)
  PROVE  ToSet(r \o s) = ToSet(r) \cup ToSet(s)
<1>1. /\ r \o s \in Seq(S) /\ Len(r \o s) = Len(r) + Len(s)
      /\ \A i \in 1 .. Len(r) + Len(s) :
           (r \o s)[i] = IF i <= Len(r) THEN r[i] ELSE s[i - Len(r)]
  BY ConcatProperties
<1>2. /\ DOMAIN r = 1 .. Len(r) /\ Len(r) \in Nat
      /\ DOMAIN s = 1 .. Len(s) /\ Len(s) \in Nat
      /\ DOMAIN (r \o s) = 1 .. Len(r) + Len(s)
  BY <1>1, LenProperties
<1>3. ASSUME NEW i \in DOMAIN (r \o s)
      PROVE  (r \o s)[i] \in ToSet(r) \cup ToSet(s)
  <2>1. \/ i \in DOMAIN r /\ (r \o s)[i] = r[i]
        \/ i - Len(r) \in DOMAIN s /\ (r \o s)[i] = s[i - Len(r)]
    BY <1>1, <1>2
  <2>2. QED
    BY <2>1, Zenon DEF ToSet
<1>4. ASSUME NEW i \in DOMAIN r
      PROVE  r[i] \in ToSet(r \o s)
  <2>1. i \in DOMAIN (r \o s) /\ (r \o s)[i] = r[i]
    BY <1>1, <1>2
  <2>2. QED
    BY <2>1, Zenon DEF ToSet
<1>5. ASSUME NEW i \in DOMAIN s
      PROVE  s[i] \in ToSet(r \o s)
  <2>1. i + Len(r) \in DOMAIN (r \o s) /\ (r \o s)[i + Len(r)] = s[i]
    BY <1>1, <1>2
  <2>2. QED
    BY <2>1, Zenon DEF ToSet
<1>6. /\ \A x \in ToSet(r \o s) : \E i \in DOMAIN (r \o s) : x = (r \o s)[i]
      /\ \A x \in ToSet(r) : \E i \in DOMAIN r : x = r[i]
      /\ \A x \in ToSet(s) : \E i \in DOMAIN s : x = s[i]
  BY Zenon DEF ToSet
<1>7. QED
  BY <1>3, <1>4, <1>5, <1>6

(* A sequence is its first element and the others. *)
LEMMA HeadAndTail ==
  ASSUME NEW S, NEW s \in Seq(S), s # <<>>
  PROVE  /\ s = <<Head(s)>> \o Tail(s)
         /\ Head(s) \in S /\ Tail(s) \in Seq(S) /\ <<Head(s)>> \in Seq(S)
<1>1. /\ Head(s) \in S /\ Tail(s) \in Seq(S) /\ Head(s) = s[1]
      /\ Len(s) \in Nat \ {0}
  BY HeadTailProperties, EmptySeq
<1>2. 1 \in 1 .. Len(s) /\ Len(s) \in 1 .. Len(s)
  BY <1>1
<1>3. SubSeq(s, 1, Len(s)) = <<s[1]>> \o SubSeq(s, 1 + 1, Len(s))
  BY <1>2, SubSeqRecursiveFirst
<1>4. SubSeq(s, 1, Len(s)) = s /\ Tail(s) = SubSeq(s, 2, Len(s))
  BY SubSeqFull, TailIsSubSeq
<1>5. QED
  BY <1>1, <1>3, <1>4

(* The elements of a sequence, its first and the others. *)
LEMMA ToSetTail ==
  ASSUME NEW S, NEW s \in Seq(S), s # <<>>
  PROVE  ToSet(s) = {Head(s)} \cup ToSet(Tail(s))
<1>1. /\ s = <<Head(s)>> \o Tail(s)
      /\ Tail(s) \in Seq(S) /\ <<Head(s)>> \in Seq(S)
  BY HeadAndTail
<1>2. ToSet(<<Head(s)>> \o Tail(s)) = ToSet(<<Head(s)>>) \cup ToSet(Tail(s))
  BY <1>1, ToSetConcat, ZenonT(60)
<1>3. ToSet(<<Head(s)>>) = {Head(s)}
  BY DEF ToSet
<1>4. QED
  BY <1>1, <1>2, <1>3, Zenon

(* The first element of the second sequence, put behind the first one.     *)
LEMMA MoveHead ==
  ASSUME NEW S, NEW r \in Seq(S), NEW s \in Seq(S), s # <<>>
  PROVE  Append(r, Head(s)) \o Tail(s) = r \o s
<1>1. /\ s = <<Head(s)>> \o Tail(s)
      /\ Head(s) \in S /\ Tail(s) \in Seq(S) /\ <<Head(s)>> \in Seq(S)
  BY HeadAndTail
<1>2. Append(r, Head(s)) = r \o <<Head(s)>>
  BY <1>1, AppendIsConcat
<1>3. (r \o <<Head(s)>>) \o Tail(s) = r \o (<<Head(s)>> \o Tail(s))
  BY <1>1, ConcatAssociative
<1>4. QED
  BY <1>1, <1>2, <1>3, Zenon

(* The first element of the second sequence, removed: where the others are.*)
LEMMA DropHead ==
  ASSUME NEW S, NEW r \in Seq(S), NEW s \in Seq(S), s # <<>>,
         NEW i \in DOMAIN (r \o Tail(s))
  PROVE  /\ i \in Nat
         /\ i <= Len(r) => i \in DOMAIN (r \o s) /\ (r \o Tail(s))[i] = (r \o s)[i]
         /\ i > Len(r) => i + 1 \in DOMAIN (r \o s) /\ (r \o Tail(s))[i] = (r \o s)[i + 1]
<1> DEFINE t == Tail(s)
<1>1. /\ t \in Seq(S) /\ Len(s) \in Nat /\ Len(t) \in Nat /\ Len(r) \in Nat
      /\ Len(s) = Len(t) + 1
      /\ \A k \in 1 .. Len(t) : t[k] = s[k + 1]
  BY HeadTailProperties, EmptySeq, LenProperties
<1>2. /\ r \o t \in Seq(S) /\ Len(r \o t) = Len(r) + Len(t)
      /\ \A k \in 1 .. Len(r) + Len(t) :
           (r \o t)[k] = IF k <= Len(r) THEN r[k] ELSE t[k - Len(r)]
  BY <1>1, ConcatProperties
<1>3. /\ r \o s \in Seq(S) /\ Len(r \o s) = Len(r) + Len(s)
      /\ \A k \in 1 .. Len(r) + Len(s) :
           (r \o s)[k] = IF k <= Len(r) THEN r[k] ELSE s[k - Len(r)]
  BY ConcatProperties
<1>4. /\ DOMAIN (r \o t) = 1 .. Len(r) + Len(t)
      /\ DOMAIN (r \o s) = 1 .. Len(r) + Len(s)
  BY <1>2, <1>3, LenProperties
<1>5. i \in 1 .. Len(r) + Len(t)
  BY <1>4
<1> HIDE DEF t
<1>6. i \in Nat
  BY <1>1, <1>5
<1>7. ASSUME i <= Len(r)
      PROVE  i \in DOMAIN (r \o s) /\ (r \o t)[i] = (r \o s)[i]
  <2>1. i \in 1 .. Len(r) + Len(s)
    BY <1>1, <1>5
  <2>2. (r \o t)[i] = r[i] /\ (r \o s)[i] = r[i]
    BY <1>2, <1>3, <1>5, <1>7, <2>1
  <2>3. QED
    BY <1>4, <2>1, <2>2
<1>8. ASSUME i > Len(r)
      PROVE  i + 1 \in DOMAIN (r \o s) /\ (r \o t)[i] = (r \o s)[i + 1]
  <2>1. i + 1 \in 1 .. Len(r) + Len(s) /\ ~(i <= Len(r)) /\ ~(i + 1 <= Len(r))
    BY <1>1, <1>5, <1>8
  <2>2. i - Len(r) \in 1 .. Len(t) /\ (i + 1) - Len(r) = (i - Len(r)) + 1
    BY <1>1, <1>5, <1>8
  <2>3. (r \o t)[i] = t[i - Len(r)]
    BY <1>2, <1>5, <2>1
  <2>4. (r \o s)[i + 1] = s[(i + 1) - Len(r)]
    BY <1>3, <2>1
  <2>5. t[i - Len(r)] = s[(i - Len(r)) + 1]
    BY <1>1, <2>2
  <2>6. QED
    BY <1>4, <2>1, <2>2, <2>3, <2>4, <2>5
<1>9. QED
  BY <1>6, <1>7, <1>8 DEF t

(* Which events there are, and that they are told apart by their fields.   *)
LEMMA Events ==
  /\ \A t \in Threads : /\ Ordinary(t) \in Event /\ Error(t) \in Event /\ Exited(t) \in Event
                        /\ Ordinary(t).source = t /\ Error(t).source = t
                        /\ Exited(t).source = t
                        /\ Ordinary(t).type = "ordinary" /\ Error(t).type = "error"
                        /\ Exited(t).type = "exited"
  /\ Shutdown \in Event /\ Shutdown.type = "shutdown" /\ Shutdown.source = Main
  /\ \A e \in Event : /\ e.source = Main <=> e = Shutdown
                      /\ e.source # Main => e.source \in Threads
                      /\ e.type = "exited" => e.source \in Threads /\ e = Exited(e.source)
  /\ Main \notin Threads
BY DEF Event, Ordinary, Error, Exited, Shutdown, Main, Threads

(* The log is a sequence of events. *)
LEMMA LogTyped ==
  ASSUME TypeOK
  PROVE  /\ Log \in Seq(Event) /\ DOMAIN Log = 1 .. Len(Log) /\ Len(Log) \in Nat
         /\ ToSet(Log) = ToSet(rendered) \cup ToSet(events)
<1>1. rendered \in Seq(Event) /\ events \in Seq(Event)
  BY DEF TypeOK
<1>2. Log \in Seq(Event)
  BY <1>1, ConcatProperties DEF Log
<1>3. QED
  BY <1>1, <1>2, ToSetConcat, LenProperties DEF Log

(* A push extends the log. *)
LEMMA PushLog ==
  ASSUME TypeOK, NEW e \in Event, Push(e), rendered' = rendered
  PROVE  /\ Log' = Append(Log, e)
         /\ events' \in Seq(Event)
         /\ DOMAIN Log' = 1 .. Len(Log) + 1
         /\ \A i \in DOMAIN Log : Log'[i] = Log[i]
         /\ Log'[Len(Log) + 1] = e
         /\ ToSet(Log') = ToSet(Log) \cup {e}
<1>1. /\ rendered \in Seq(Event) /\ events \in Seq(Event)
      /\ events' = Append(events, e)
  BY DEF TypeOK, Push
<1>2. /\ <<e>> \in Seq(Event)
      /\ Append(events, e) = events \o <<e>>
      /\ Append(Log, e) = Log \o <<e>>
  BY <1>1, LogTyped, AppendIsConcat
<1>3. (rendered \o events) \o <<e>> = rendered \o (events \o <<e>>)
  BY <1>1, <1>2, ConcatAssociative
<1>4. Log' = Append(Log, e)
  BY <1>1, <1>2, <1>3 DEF Log
<1>5. events' \in Seq(Event)
  BY <1>1, AppendProperties
<1>6. /\ Append(Log, e) \in Seq(Event) /\ Len(Append(Log, e)) = Len(Log) + 1
      /\ \A i \in 1 .. Len(Log) : Append(Log, e)[i] = Log[i]
      /\ Append(Log, e)[Len(Log) + 1] = e
  BY LogTyped, AppendProperties
<1>7. DOMAIN Append(Log, e) = 1 .. Len(Log) + 1
  BY <1>6, LenProperties
<1>8. ToSet(Append(Log, e)) = ToSet(Log) \cup {e}
  BY LogTyped, ToSetAppend
<1>9. QED
  BY <1>4, <1>5, <1>6, <1>7, <1>8, LogTyped

(* Rendering an event leaves the log as it is. *)
LEMMA RenderLog ==
  ASSUME TypeOK, events # <<>>, events' = Tail(events),
         rendered' = Append(rendered, Head(events))
  PROVE  /\ Log' = Log
         /\ events' \in Seq(Event) /\ rendered' \in Seq(Event)
         /\ Head(events) \in Event
         /\ ToSet(rendered') = ToSet(rendered) \cup {Head(events)}
<1>1. rendered \in Seq(Event) /\ events \in Seq(Event)
  BY DEF TypeOK
<1>2. Head(events) \in Event /\ Tail(events) \in Seq(Event)
  BY <1>1, HeadTailProperties
<1>3. Append(rendered, Head(events)) \o Tail(events) = rendered \o events
  BY <1>1, MoveHead
<1>4. /\ Append(rendered, Head(events)) \in Seq(Event)
      /\ ToSet(Append(rendered, Head(events))) = ToSet(rendered) \cup {Head(events)}
  BY <1>1, <1>2, AppendProperties, ToSetAppend
<1>5. QED
  BY <1>2, <1>3, <1>4, Zenon DEF Log

(* A leftover that is dropped leaves the others in their order. *)
LEMMA DropLog ==
  ASSUME TypeOK, events # <<>>, events' = Tail(events), rendered' = rendered
  PROVE  /\ events' \in Seq(Event) /\ Head(events) \in Event
         /\ ToSet(events) = {Head(events)} \cup ToSet(events')
         /\ ToSet(Log) = {Head(events)} \cup ToSet(Log')
         /\ Len(rendered) \in Nat
         /\ \A i \in DOMAIN Log' :
              /\ i \in Nat
              /\ i <= Len(rendered) => i \in DOMAIN Log /\ Log'[i] = Log[i]
              /\ i > Len(rendered) => i + 1 \in DOMAIN Log /\ Log'[i] = Log[i + 1]
<1>1. rendered \in Seq(Event) /\ events \in Seq(Event)
  BY DEF TypeOK
<1>2. Head(events) \in Event /\ Tail(events) \in Seq(Event) /\ Len(rendered) \in Nat
  BY <1>1, HeadTailProperties, LenProperties
<1>3. Log' = rendered \o Tail(events)
  BY Zenon DEF Log
<1>4. ToSet(events) = {Head(events)} \cup ToSet(Tail(events))
  BY <1>1, ToSetTail
<1>5. ToSet(Log) = {Head(events)} \cup ToSet(Log')
  <2>1. /\ ToSet(rendered \o events) = ToSet(rendered) \cup ToSet(events)
        /\ ToSet(rendered \o Tail(events)) = ToSet(rendered) \cup ToSet(Tail(events))
    BY <1>1, <1>2, ToSetConcat, ZenonT(60)
  <2>2. /\ ToSet(Log) = ToSet(rendered) \cup ToSet(events)
        /\ ToSet(Log') = ToSet(rendered) \cup ToSet(Tail(events))
    BY <1>3, <2>1, Zenon DEF Log
  <2>3. QED
    BY <1>4, <2>2
<1>6. \A i \in DOMAIN (rendered \o Tail(events)) :
        /\ i \in Nat
        /\ i <= Len(rendered) =>
             i \in DOMAIN (rendered \o events)
             /\ (rendered \o Tail(events))[i] = (rendered \o events)[i]
        /\ i > Len(rendered) =>
             i + 1 \in DOMAIN (rendered \o events)
             /\ (rendered \o Tail(events))[i] = (rendered \o events)[i + 1]
  BY <1>1, DropHead
<1>7. QED
  BY <1>2, <1>3, <1>4, <1>5, <1>6, Zenon DEF Log

-----------------------------------------------------------------------------
(* The order of the log. *)

(* Every entry of the log is an event in it. *)
LEMMA LogEntry ==
  ASSUME TypeOK, NEW i \in DOMAIN Log
  PROVE  Log[i] \in Event /\ Log[i] \in ToSet(Log)
<1>1. Log[i] \in Event
  BY LogTyped, ElementOfSeq
<1>2. Log[i] \in ToSet(Log)
  BY Zenon DEF ToSet
<1>3. QED
  BY <1>1, <1>2

(* Nobody who has announced its exit pushes (main.cpp 531-555).            *)
LEMMA PushOrder ==
  ASSUME TypeOK, ExitIsLast, NEW e \in Event, Push(e), rendered' = rendered,
         e.source \in Threads => Exited(e.source) \notin ToSet(Log)
  PROVE  ExitIsLast'
<1>1. SUFFICES ASSUME NEW i \in DOMAIN Log', NEW j \in DOMAIN Log',
                      Log'[i].type = "exited", Log'[j].source = Log'[i].source
               PROVE  j <= i
  BY Zenon DEF ExitIsLast
<1>2. /\ DOMAIN Log = 1 .. Len(Log) /\ Len(Log) \in Nat
      /\ DOMAIN Log' = 1 .. Len(Log) + 1
      /\ \A k \in DOMAIN Log : Log'[k] = Log[k]
      /\ Log'[Len(Log) + 1] = e
  BY PushLog, LogTyped
<1>3. CASE i = Len(Log) + 1
  BY <1>2, <1>3
<1>4. CASE i \in DOMAIN Log /\ j \in DOMAIN Log
  BY <1>1, <1>2, <1>4 DEF ExitIsLast
<1>5. CASE i \in DOMAIN Log /\ j = Len(Log) + 1
  <2>1. Log[i].type = "exited" /\ Log[i].source = e.source
    BY <1>1, <1>2, <1>5
  <2>2. Log[i] \in Event /\ Log[i] \in ToSet(Log)
    BY <1>5, LogEntry
  <2>3. e.source \in Threads /\ Log[i] = Exited(e.source)
    BY <2>1, <2>2, Events
  <2>4. QED
    BY <2>2, <2>3
<1>6. QED
  BY <1>2, <1>3, <1>4, <1>5

(* The shutdown is pushed at most once. *)
LEMMA PushOnce ==
  ASSUME TypeOK, ShutdownOnce, NEW e \in Event, Push(e), rendered' = rendered,
         e = Shutdown => Shutdown \notin ToSet(Log)
  PROVE  ShutdownOnce'
<1>1. SUFFICES ASSUME NEW i \in DOMAIN Log', NEW j \in DOMAIN Log',
                      Log'[i] = Shutdown, Log'[j] = Shutdown
               PROVE  i = j
  BY Zenon DEF ShutdownOnce
<1>2. /\ DOMAIN Log = 1 .. Len(Log) /\ Len(Log) \in Nat
      /\ DOMAIN Log' = 1 .. Len(Log) + 1
      /\ \A k \in DOMAIN Log : Log'[k] = Log[k]
      /\ Log'[Len(Log) + 1] = e
  BY PushLog, LogTyped
<1>3. \A k \in DOMAIN Log : Log[k] \in ToSet(Log)
  BY LogEntry
<1>4. i \in DOMAIN Log \/ i = Len(Log) + 1
  BY <1>2
<1>5. j \in DOMAIN Log \/ j = Len(Log) + 1
  BY <1>2
<1>6. CASE i \in DOMAIN Log /\ j \in DOMAIN Log
  BY <1>1, <1>2, <1>6 DEF ShutdownOnce
<1>7. CASE e # Shutdown
  BY <1>1, <1>2, <1>4, <1>5, <1>6, <1>7
<1>8. CASE e = Shutdown
  BY <1>1, <1>2, <1>3, <1>4, <1>5, <1>8
<1>9. QED
  BY <1>7, <1>8

(* Dropping a leftover changes the order of nothing (main.cpp 990-1001).   *)
LEMMA DropOrder ==
  ASSUME TypeOK, ExitIsLast, ShutdownOnce,
         events # <<>>, events' = Tail(events), rendered' = rendered
  PROVE  ExitIsLast' /\ ShutdownOnce'
<1> DEFINE L == Len(rendered)
<1>1. /\ L \in Nat
      /\ \A i \in DOMAIN Log' :
           /\ i \in Nat
           /\ i <= L => i \in DOMAIN Log /\ Log'[i] = Log[i]
           /\ i > L => i + 1 \in DOMAIN Log /\ Log'[i] = Log[i + 1]
  BY DropLog
<1> HIDE DEF L
<1>2. ASSUME NEW i \in DOMAIN Log', NEW j \in DOMAIN Log',
             Log'[i].type = "exited", Log'[j].source = Log'[i].source
      PROVE  j <= i
  <2>1. i \in Nat /\ j \in Nat
    BY <1>1
  <2>2. CASE i <= L /\ j <= L
    BY <1>1, <1>2, <2>2 DEF ExitIsLast
  <2>3. CASE i <= L /\ j > L
    <3>1. j + 1 <= i
      BY <1>1, <1>2, <2>3 DEF ExitIsLast
    <3>2. QED
      BY <2>1, <3>1
  <2>4. CASE i > L /\ j > L
    <3>1. j + 1 <= i + 1
      BY <1>1, <1>2, <2>4 DEF ExitIsLast
    <3>2. QED
      BY <2>1, <3>1
  <2>5. CASE i > L /\ j <= L
    BY <1>1, <2>1, <2>5
  <2>6. QED
    BY <1>1, <2>1, <2>2, <2>3, <2>4, <2>5
<1>3. ASSUME NEW i \in DOMAIN Log', NEW j \in DOMAIN Log',
             Log'[i] = Shutdown, Log'[j] = Shutdown
      PROVE  i = j
  <2>1. i \in Nat /\ j \in Nat
    BY <1>1
  <2>2. CASE i <= L /\ j <= L
    BY <1>1, <1>3, <2>2 DEF ShutdownOnce
  <2>3. CASE i <= L /\ j > L
    <3>1. i = j + 1
      BY <1>1, <1>3, <2>3 DEF ShutdownOnce
    <3>2. QED
      BY <1>1, <2>1, <2>3, <3>1
  <2>4. CASE i > L /\ j <= L
    <3>1. i + 1 = j
      BY <1>1, <1>3, <2>4 DEF ShutdownOnce
    <3>2. QED
      BY <1>1, <2>1, <2>4, <3>1
  <2>5. CASE i > L /\ j > L
    <3>1. i + 1 = j + 1
      BY <1>1, <1>3, <2>5 DEF ShutdownOnce
    <3>2. QED
      BY <2>1, <3>1
  <2>6. QED
    BY <1>1, <2>1, <2>2, <2>3, <2>4, <2>5
<1>4. ExitIsLast'
  BY <1>2, Zenon DEF ExitIsLast
<1>5. ShutdownOnce'
  BY <1>3, Zenon DEF ShutdownOnce
<1>6. QED
  BY <1>4, <1>5

-----------------------------------------------------------------------------
(* What a step changes. *)

(* The actions that neither push nor pop. *)
Quiet ==
  \/ \E t \in Threads : Throw(t) \/ Record(t) \/ Obey(t)
  \/ Signal \/ LoopHead \/ StopControl \/ StopWorker \/ PopTimeout \/ UnwindStop
  \/ JoinWorker \/ JoinControl \/ LeftoverDone \/ Return
  \/ (SigintCheck \/ ErrorCheck) /\ UNCHANGED events
  \/ UNCHANGED vars

(* A check that asks for the shutdown. *)
Announce == (SigintCheck \/ ErrorCheck) /\ ~UNCHANGED events

(* Every step is of one of these kinds. *)
LEMMA StepKinds ==
  ASSUME [Next]_vars
  PROVE  \/ Quiet
         \/ \E t \in Threads : PushOrdinary(t) \/ Report(t) \/ Exit(t)
         \/ Announce
         \/ PopRender \/ RenderFails \/ Leftover
BY Zenon DEF Next, Thread, MainStep, Ended, Quiet, Announce

(* A quiet step leaves the log alone. *)
LEMMA QuietStep ==
  ASSUME Quiet
  PROVE  UNCHANGED <<events, rendered>> /\ Log' = Log
<1>1. UNCHANGED <<events, rendered>>
  BY DEF Quiet, Throw, Record, Obey, Signal, LoopHead, StopControl, StopWorker,
         PopTimeout, UnwindStop, JoinWorker, JoinControl, LeftoverDone, Return,
         SigintCheck, ErrorCheck, vars, mainVars
<1>2. QED
  BY <1>1, Zenon DEF Log

(* The shutdown is announced where it is decided (main.cpp 953-970). *)
LEMMA AnnounceStep ==
  ASSUME Announce
  PROVE  /\ Push(Shutdown) /\ ~stop_requested /\ stop_requested' = TRUE
         /\ \/ mpc = "sigint" /\ mpc' = "sigint_control"
            \/ mpc = "error" /\ mpc' = "error_control"
         /\ UNCHANGED <<sigint, threadVars, first_error, stop, exited_seen, exit_code, rendered>>
BY DEF Announce, SigintCheck, ErrorCheck, threadsOnly

(* Every variable keeps its type. *)
LEMMA TypeStep ==
  ASSUME TypeOK, [Next]_vars
  PROVE  TypeOK'
<1>1. events' \in Seq(Event) /\ rendered' \in Seq(Event)
  <2>0. events \in Seq(Event) /\ rendered \in Seq(Event)
    BY DEF TypeOK
  <2>1. CASE Quiet
    BY <2>0, <2>1, QuietStep
  <2>2. ASSUME NEW t \in Threads, PushOrdinary(t) \/ Report(t) \/ Exit(t)
        PROVE  events' \in Seq(Event) /\ rendered' \in Seq(Event)
    <3>1. /\ rendered' = rendered
          /\ \E e \in {Ordinary(t), Error(t), Exited(t)} : Push(e)
      BY <2>2 DEF PushOrdinary, Report, Exit, mainVars
    <3>2. {Ordinary(t), Error(t), Exited(t)} \subseteq Event
      BY Events
    <3>3. QED
      BY <2>0, <3>1, <3>2, PushLog
  <2>3. CASE Announce
    BY <2>0, <2>3, AnnounceStep, Events, PushLog
  <2>4. CASE PopRender \/ RenderFails
    BY <2>4, RenderLog DEF PopRender, RenderFails
  <2>5. CASE Leftover
    <3>1. events # <<>> /\ events' = Tail(events)
      BY <2>5 DEF Leftover
    <3>2. Head(events) \in Event /\ Tail(events) \in Seq(Event)
      BY <2>0, <3>1, HeadTailProperties
    <3>3. rendered' = Append(rendered, Head(events)) \/ rendered' = rendered
      BY <2>5 DEF Leftover
    <3>4. Append(rendered, Head(events)) \in Seq(Event)
      BY <2>0, <3>2, AppendProperties
    <3>5. QED
      BY <2>0, <3>1, <3>2, <3>3, <3>4
  <2>6. QED
    BY <2>1, <2>2, <2>3, <2>4, <2>5, StepKinds
<1>2. sigint' \in BOOLEAN
  BY DEF TypeOK, Next, Thread, MainStep, Ended, vars, mainVars, threadsOnly, PushOrdinary,
         Throw, Record, Report, Obey, Exit, Signal, LoopHead, SigintCheck, ErrorCheck,
         StopControl, StopWorker, PopTimeout, PopRender, RenderFails, UnwindStop,
         JoinWorker, JoinControl, Leftover, LeftoverDone, Return
<1>3. stop_requested' \in BOOLEAN
  BY DEF TypeOK, Next, Thread, MainStep, Ended, vars, mainVars, threadsOnly, PushOrdinary,
         Throw, Record, Report, Obey, Exit, Signal, LoopHead, SigintCheck, ErrorCheck,
         StopControl, StopWorker, PopTimeout, PopRender, RenderFails, UnwindStop,
         JoinWorker, JoinControl, Leftover, LeftoverDone, Return
<1>4. stop' \in [Threads -> BOOLEAN]
  BY DEF TypeOK, Next, Thread, MainStep, Ended, vars, mainVars, threadsOnly, PushOrdinary,
         Throw, Record, Report, Obey, Exit, Signal, LoopHead, SigintCheck, ErrorCheck,
         StopControl, StopWorker, PopTimeout, PopRender, RenderFails, UnwindStop, RequestStop,
         JoinWorker, JoinControl, Leftover, LeftoverDone, Return
<1>5. first_error' \in Threads \cup {"none"} /\ threw' \subseteq Threads
  BY DEF TypeOK, Next, Thread, MainStep, Ended, vars, mainVars, threadVars, threadsOnly,
         PushOrdinary, Throw, Record, Report, Obey, Exit, Signal, LoopHead, SigintCheck,
         ErrorCheck, StopControl, StopWorker, PopTimeout, PopRender, RenderFails,
         UnwindStop, JoinWorker, JoinControl, Leftover, LeftoverDone, Return
<1>6. pc' \in [Threads -> ThreadPCs]
  BY DEF TypeOK, Next, Thread, MainStep, Ended, vars, mainVars, threadVars, threadsOnly,
         PushOrdinary, Throw, Record, Report, Obey, Exit, Signal, LoopHead, SigintCheck,
         ErrorCheck, StopControl, StopWorker, PopTimeout, PopRender, RenderFails,
         UnwindStop, JoinWorker, JoinControl, Leftover, LeftoverDone, Return,
         Goto, ThreadPCs
<1>7. pushed' \in [Threads -> 0 .. MaxEvents]
  <2>1. ASSUME NEW t \in Threads, PushOrdinary(t)
        PROVE  pushed' \in [Threads -> 0 .. MaxEvents]
    <3>1. /\ pushed \in [Threads -> 0 .. MaxEvents] /\ pushed[t] < MaxEvents
          /\ pushed' = [pushed EXCEPT ![t] = @ + 1]
      BY <2>1 DEF TypeOK, PushOrdinary
    <3>2. pushed[t] + 1 \in 0 .. MaxEvents
      BY <3>1, EventsAssumption
    <3>3. QED
      BY <3>1, <3>2
  <2>2. CASE ~\E t \in Threads : PushOrdinary(t)
    BY <2>2
       DEF TypeOK, Next, Thread, MainStep, Ended, vars, mainVars, threadVars, threadsOnly,
         Throw, Record, Report, Obey, Exit, Signal, LoopHead, SigintCheck,
         ErrorCheck, StopControl, StopWorker, PopTimeout, PopRender, RenderFails,
         UnwindStop, JoinWorker, JoinControl, Leftover, LeftoverDone, Return
  <2>3. QED
    BY <2>1, <2>2
<1>8. mpc' \in MainPCs
  BY DEF TypeOK, Next, Thread, MainStep, Ended, vars, mainVars, threadVars, threadsOnly,
         PushOrdinary, Throw, Record, Report, Obey, Exit, Signal, LoopHead, SigintCheck,
         ErrorCheck, StopControl, StopWorker, PopTimeout, PopRender, RenderFails,
         UnwindStop, JoinWorker, JoinControl, Leftover, LeftoverDone, Return, MainPCs
<1>9. exited_seen' \subseteq Threads
  <2>1. CASE PopRender
    <3>1. Head(events) \in Event
      BY <2>1, RenderLog DEF PopRender
    <3>2. Head(events).type = "exited" => Head(events).source \in Threads
      BY <3>1, Events
    <3>3. QED
      BY <2>1, <3>2 DEF TypeOK, PopRender
  <2>2. CASE ~PopRender
    BY <2>2
       DEF TypeOK, Next, Thread, MainStep, Ended, vars, mainVars, threadVars, threadsOnly,
         PushOrdinary, Throw, Record, Report, Obey, Exit, Signal, LoopHead, SigintCheck,
         ErrorCheck, StopControl, StopWorker, PopTimeout, RenderFails,
         UnwindStop, JoinWorker, JoinControl, Leftover, LeftoverDone, Return
  <2>3. QED
    BY <2>1, <2>2
<1>10. exit_code' \in {"none", "0", "1"}
  BY DEF TypeOK, Next, Thread, MainStep, Ended, vars, mainVars, threadVars, threadsOnly,
         PushOrdinary, Throw, Record, Report, Obey, Exit, Signal, LoopHead, SigintCheck,
         ErrorCheck, StopControl, StopWorker, PopTimeout, PopRender, RenderFails,
         UnwindStop, JoinWorker, JoinControl, Leftover, LeftoverDone, Return
<1>11. QED
  BY <1>1, <1>2, <1>3, <1>4, <1>5, <1>6, <1>7, <1>8, <1>9, <1>10 DEF TypeOK

(* A thread records what it threw before it reports it. *)
LEMMA ThreadStep ==
  ASSUME TypeOK, ThreadInv, [Next]_vars
  PROVE  ThreadInv'
<1>0. pc \in [Threads -> ThreadPCs] /\ threw \subseteq Threads /\ "none" \notin Threads
  BY DEF TypeOK, Threads
<1>1. ASSUME NEW t \in Threads, Throw(t)
      PROVE  ThreadInv'
  BY <1>0, <1>1 DEF ThreadInv, Throw, Goto
<1>2. ASSUME NEW t \in Threads, Record(t)
      PROVE  ThreadInv'
  <2>1. /\ pc[t] = "record" /\ pc' = [pc EXCEPT ![t] = "report"] /\ threw' = threw
        /\ t \in threw
        /\ first_error' = IF first_error = "none" THEN t ELSE first_error
    BY <1>0, <1>2 DEF ThreadInv, Record, Goto
  <2>2. first_error' # "none" /\ first_error' \in threw'
    BY <1>0, <2>1 DEF ThreadInv
  <2>3. QED
    BY <1>0, <2>1, <2>2 DEF ThreadInv
<1>3. ASSUME NEW t \in Threads, Report(t) \/ Obey(t) \/ Exit(t)
      PROVE  ThreadInv'
  <2>1. /\ pc[t] \in {"running", "report", "exit"}
        /\ \E p \in {"exit", "ended"} : pc' = [pc EXCEPT ![t] = p]
        /\ UNCHANGED <<threw, first_error>>
    BY <1>3 DEF Report, Obey, Exit, Goto
  <2>2. QED
    BY <1>0, <2>1 DEF ThreadInv
<1>4. ASSUME UNCHANGED <<pc, threw, first_error>>
      PROVE  ThreadInv'
  BY <1>4 DEF ThreadInv
<1>5. CASE ~\E t \in Threads : Throw(t) \/ Record(t) \/ Report(t) \/ Obey(t) \/ Exit(t)
  <2>1. UNCHANGED <<pc, threw, first_error>>
    BY <1>5
       DEF Next, Thread, MainStep, Ended, vars, threadVars, threadsOnly, PushOrdinary,
           Signal, LoopHead, SigintCheck, ErrorCheck, StopControl, StopWorker, PopTimeout,
           PopRender, RenderFails, UnwindStop, JoinWorker, JoinControl, Leftover,
           LeftoverDone, Return
  <2>2. QED
    BY <1>4, <2>1
<1>6. QED
  BY <1>1, <1>2, <1>3, <1>5

(* A dropped leftover is the announcement of the shutdown. *)
LEMMA LeftoverStep ==
  ASSUME TypeOK, MainInv, Leftover
  PROVE  /\ events # <<>> /\ events' = Tail(events) /\ rendered' = rendered
         /\ Head(events) = Shutdown
         /\ ToSet(Log) = {Shutdown} \cup ToSet(Log')
         /\ UNCHANGED <<pc, threw, mpc, stop_requested, exited_seen, exit_code, stop>>
<1>1. mpc = "leftover" /\ events # <<>> /\ events' = Tail(events)
  BY DEF Leftover
<1>2. events \in Seq(Event)
  BY DEF TypeOK
<1>3. 1 \in DOMAIN events /\ Head(events) = events[1]
  BY <1>1, <1>2, HeadTailProperties, EmptySeq, LenProperties
<1>4. Head(events) = Shutdown
  BY <1>1, <1>3 DEF MainInv
<1>5. rendered' = rendered
  BY <1>4, Events DEF Leftover
<1>6. ToSet(Log) = {Shutdown} \cup ToSet(Log')
  BY <1>1, <1>4, <1>5, DropLog
<1>7. QED
  BY <1>1, <1>4, <1>5, <1>6 DEF Leftover, threadsOnly, threadVars

(* Which element the log gains or loses in a step, if any. *)
LEMMA LogSets ==
  ASSUME TypeOK, MainInv, [Next]_vars
  PROVE  \/ Log' = Log /\ (Quiet \/ PopRender \/ RenderFails)
         \/ \E t \in Threads : \/ PushOrdinary(t) /\ ToSet(Log') = ToSet(Log) \cup {Ordinary(t)}
                               \/ Report(t) /\ ToSet(Log') = ToSet(Log) \cup {Error(t)}
                               \/ Exit(t) /\ ToSet(Log') = ToSet(Log) \cup {Exited(t)}
         \/ Announce /\ ToSet(Log') = ToSet(Log) \cup {Shutdown}
         \/ Leftover /\ ToSet(Log) = {Shutdown} \cup ToSet(Log')
<1>1. ASSUME NEW t \in Threads, PushOrdinary(t)
      PROVE  ToSet(Log') = ToSet(Log) \cup {Ordinary(t)}
  BY <1>1, Events, PushLog DEF PushOrdinary, mainVars
<1>2. ASSUME NEW t \in Threads, Report(t)
      PROVE  ToSet(Log') = ToSet(Log) \cup {Error(t)}
  BY <1>2, Events, PushLog DEF Report, mainVars
<1>3. ASSUME NEW t \in Threads, Exit(t)
      PROVE  ToSet(Log') = ToSet(Log) \cup {Exited(t)}
  BY <1>3, Events, PushLog DEF Exit, mainVars
<1>4. CASE Announce
  BY <1>4, Events, AnnounceStep, PushLog
<1>5. CASE PopRender \/ RenderFails
  BY <1>5, RenderLog DEF PopRender, RenderFails
<1>6. CASE Leftover
  BY <1>6, LeftoverStep
<1>7. CASE Quiet
  BY <1>7, QuietStep
<1>8. QED
  BY <1>1, <1>2, <1>3, <1>4, <1>5, <1>6, <1>7, StepKinds, Zenon

(* A thread has ended exactly when its exit event is in the log. *)
LEMMA EndedStep ==
  ASSUME TypeOK, MainInv, [Next]_vars, NEW t \in Threads,
         pc[t] = "ended" <=> Exited(t) \in ToSet(Log)
  PROVE  (pc[t] = "ended" <=> Exited(t) \in ToSet(Log))'
<1>0. pc \in [Threads -> ThreadPCs]
  BY DEF TypeOK
<1>1. \A u \in Threads : /\ Exited(t) # Ordinary(u) /\ Exited(t) # Error(u)
                         /\ Exited(t) # Shutdown
                         /\ Exited(t) = Exited(u) => t = u
  <2>1. TAKE u \in Threads
  <2>2. /\ Exited(t).type = "exited" /\ Exited(t).source = t /\ Exited(u).source = u
        /\ Ordinary(u).type = "ordinary" /\ Error(u).type = "error"
        /\ Shutdown.type = "shutdown"
    BY Events
  <2>3. QED
    BY <2>2
<1>2. CASE Log' = Log /\ (Quiet \/ PopRender \/ RenderFails)
  <2>1. pc'[t] = "ended" <=> pc[t] = "ended"
    BY <1>0, <1>2
       DEF Quiet, PopRender, RenderFails, Throw, Record, Obey, Signal, LoopHead, StopControl,
           StopWorker, PopTimeout, UnwindStop, JoinWorker, JoinControl, LeftoverDone,
           Return, SigintCheck, ErrorCheck, vars, threadVars, threadsOnly, Goto
  <2>2. QED
    BY <1>2, <2>1
<1>3. ASSUME NEW u \in Threads, PushOrdinary(u), ToSet(Log') = ToSet(Log) \cup {Ordinary(u)}
      PROVE  (pc[t] = "ended" <=> Exited(t) \in ToSet(Log))'
  <2>1. pc' = pc
    BY <1>3 DEF PushOrdinary
  <2>2. QED
    BY <1>1, <1>3, <2>1
<1>4. ASSUME NEW u \in Threads, Report(u), ToSet(Log') = ToSet(Log) \cup {Error(u)}
      PROVE  (pc[t] = "ended" <=> Exited(t) \in ToSet(Log))'
  <2>1. pc'[t] = "ended" <=> pc[t] = "ended"
    BY <1>0, <1>4 DEF Report, Goto
  <2>2. QED
    BY <1>1, <1>4, <2>1
<1>5. ASSUME NEW u \in Threads, Exit(u), ToSet(Log') = ToSet(Log) \cup {Exited(u)}
      PROVE  (pc[t] = "ended" <=> Exited(t) \in ToSet(Log))'
  <2>1. /\ t = u => pc'[t] = "ended"
        /\ t # u => pc'[t] = pc[t]
    BY <1>0, <1>5 DEF Exit, Goto
  <2>2. QED
    BY <1>1, <1>5, <2>1
<1>6. CASE Announce /\ ToSet(Log') = ToSet(Log) \cup {Shutdown}
  <2>1. pc' = pc
    BY <1>6, AnnounceStep DEF threadVars
  <2>2. QED
    BY <1>1, <1>6, <2>1
<1>7. CASE Leftover /\ ToSet(Log) = {Shutdown} \cup ToSet(Log')
  <2>1. pc' = pc
    BY <1>7, LeftoverStep
  <2>2. QED
    BY <1>1, <1>7, <2>1
<1>8. QED
  BY <1>2, <1>3, <1>4, <1>5, <1>6, <1>7, LogSets

(* main has seen a thread's exit exactly when it has rendered it (main.cpp *)
(* 939-943).                                                               *)
LEMMA SeenStep ==
  ASSUME TypeOK, MainInv, [Next]_vars,
         exited_seen = {t \in Threads : Exited(t) \in ToSet(rendered)}
  PROVE  (exited_seen = {t \in Threads : Exited(t) \in ToSet(rendered)})'
<1>1. CASE PopRender
  <2>1. /\ Head(events) \in Event
        /\ ToSet(rendered') = ToSet(rendered) \cup {Head(events)}
        /\ exited_seen' = IF Head(events).type = "exited"
                            THEN exited_seen \cup {Head(events).source} ELSE exited_seen
    BY <1>1, RenderLog DEF PopRender
  <2>2. CASE Head(events).type = "exited"
    <3>1. /\ Head(events).source \in Threads
          /\ Head(events) = Exited(Head(events).source)
      BY <2>1, <2>2, Events
    <3>2. \A t \in Threads : Exited(t) = Head(events) <=> t = Head(events).source
      BY <3>1, Events
    <3>3. QED
      BY <2>1, <2>2, <3>1, <3>2
  <2>3. CASE Head(events).type # "exited"
    <3>1. \A t \in Threads : Exited(t) # Head(events)
      BY <2>3, Events
    <3>2. QED
      BY <2>1, <2>3, <3>1
  <2>4. QED
    BY <2>2, <2>3
<1>2. CASE RenderFails
  <2>1. /\ ToSet(rendered') = ToSet(rendered) \cup {Head(events)}
        /\ Head(events) = Ordinary("control") /\ exited_seen' = exited_seen
    BY <1>2, RenderLog DEF RenderFails
  <2>2. \A t \in Threads : Exited(t) # Head(events)
    <3>1. "control" \in Threads
      BY DEF Threads
    <3>2. QED
      BY <2>1, <3>1, Events
  <2>3. QED
    BY <2>1, <2>2
<1>3. ASSUME UNCHANGED <<rendered, exited_seen>>
      PROVE  (exited_seen = {t \in Threads : Exited(t) \in ToSet(rendered)})'
  BY <1>3
<1>4. CASE Quiet
  BY <1>3, <1>4
     DEF Quiet, Throw, Record, Obey, Signal, LoopHead, StopControl, StopWorker, PopTimeout,
         UnwindStop, JoinWorker, JoinControl, LeftoverDone, Return, SigintCheck,
         ErrorCheck, vars, mainVars
<1>5. ASSUME NEW t \in Threads, PushOrdinary(t) \/ Report(t) \/ Exit(t)
      PROVE  (exited_seen = {u \in Threads : Exited(u) \in ToSet(rendered)})'
  BY <1>3, <1>5 DEF PushOrdinary, Report, Exit, mainVars
<1>6. CASE Announce
  BY <1>3, <1>6, AnnounceStep
<1>7. CASE Leftover
  BY <1>3, <1>7, LeftoverStep
<1>8. QED
  BY <1>1, <1>2, <1>4, <1>5, <1>6, <1>7, StepKinds

(* Stops are requested in a shutdown or by main's failure, and main leaves *)
(* its loop when both threads have ended.                                  *)
LEMMA ProtocolStep ==
  ASSUME TypeInv, MainInv, [Next]_vars
  PROVE  ProtocolInv'
<1>0. /\ TypeOK /\ ProtocolInv
      /\ stop \in [Threads -> BOOLEAN] /\ stop_requested \in BOOLEAN
  BY DEF TypeInv, TypeOK
<1>1. \A t \in Threads : (pc[t] = "ended" <=> Exited(t) \in ToSet(Log))'
  <2>1. TAKE t \in Threads
  <2>2. pc[t] = "ended" <=> Exited(t) \in ToSet(Log)
    BY <1>0 DEF ProtocolInv
  <2>3. QED
    BY <1>0, <2>2, EndedStep
<1>2. (exited_seen = {t \in Threads : Exited(t) \in ToSet(rendered)})'
  BY <1>0, SeenStep DEF ProtocolInv
<1>3. (\A t \in Threads : stop[t] => stop_requested \/ Unwinding)'
  <2>1. /\ stop_requested => stop_requested'
        /\ Unwinding => Unwinding'
    BY DEF Unwinding, Next, Thread, MainStep, Ended, vars, mainVars, threadsOnly, PushOrdinary,
         Throw, Record, Report, Obey, Exit, Signal, LoopHead, SigintCheck, ErrorCheck,
         StopControl, StopWorker, PopTimeout, PopRender, RenderFails, UnwindStop,
         JoinWorker, JoinControl, Leftover, LeftoverDone, Return
  <2>2. stop' = stop \/ StopControl \/ StopWorker \/ UnwindStop
    BY DEF Next, Thread, MainStep, Ended, vars, mainVars, threadsOnly, PushOrdinary,
         Throw, Record, Report, Obey, Exit, Signal, LoopHead, SigintCheck, ErrorCheck,
         PopTimeout, PopRender, RenderFails,
         JoinWorker, JoinControl, Leftover, LeftoverDone, Return
  <2>3. CASE stop' = stop
    BY <1>0, <2>1, <2>3 DEF ProtocolInv
  <2>4. CASE StopControl \/ StopWorker
    <3>1. stop_requested
      BY <2>4 DEF StopControl, StopWorker, MainInv
    <3>2. QED
      BY <2>1, <3>1
  <2>5. CASE UnwindStop
    <3>1. Unwinding
      BY <2>5 DEF UnwindStop, Unwinding
    <3>2. QED
      BY <2>1, <3>1
  <2>6. QED
    BY <2>2, <2>3, <2>4, <2>5
<1>4. (mpc \in {"leftover", "rethrow", "ended"} => exited_seen = Threads)'
  BY <1>0 DEF ProtocolInv, Next, Thread, MainStep, Ended, vars, mainVars, threadsOnly,
         PushOrdinary, Throw, Record, Report, Obey, Exit, Signal, LoopHead, SigintCheck,
         ErrorCheck, StopControl, StopWorker, PopTimeout, PopRender, RenderFails, UnwindStop,
         JoinWorker, JoinControl, Leftover, LeftoverDone, Return
<1>5. QED
  BY <1>1, <1>2, <1>3, <1>4, Zenon DEF ProtocolInv

(* What is in the log of a thread stays there, and the order of the log is *)
(* the order of its threads' steps (main.cpp 531-555).                     *)
LEMMA LogStep ==
  ASSUME TypeInv, ThreadInv, LogInv, MainInv, [Next]_vars
  PROVE  LogInv'
<1>0. /\ TypeOK /\ ProtocolInv /\ pc \in [Threads -> ThreadPCs] /\ threw \subseteq Threads
  BY DEF TypeInv, TypeOK
<1>1. ASSUME NEW t \in threw', pc'[t] \in {"exit", "ended"}
      PROVE  Error(t) \in ToSet(Log')
  <2>0. threw' \subseteq Threads
    BY <1>0, TypeStep DEF TypeOK
  <2>1. Error(t) \in ToSet(Log) => Error(t) \in ToSet(Log')
    <3>1. Error(t) # Shutdown
      BY <2>0, Events
    <3>2. QED
      BY <1>0, <3>1, LogSets
  <2>2. CASE \E u \in Threads : Throw(u)
    BY <1>0, <1>1, <2>1, <2>2 DEF Throw, Goto, LogInv
  <2>3. CASE \E u \in Threads : Record(u)
    BY <1>0, <1>1, <2>1, <2>3 DEF Record, Goto, LogInv
  <2>4. ASSUME NEW u \in Threads, Report(u)
        PROVE  Error(t) \in ToSet(Log')
    <3>1. Error(u) \in ToSet(Log')
      BY <1>0, <2>4, Events, PushLog DEF Report, mainVars
    <3>2. t # u => t \in threw /\ pc[t] = pc'[t]
      BY <1>0, <1>1, <2>0, <2>4 DEF Report, Goto
    <3>3. QED
      BY <1>1, <2>1, <3>1, <3>2 DEF LogInv
  <2>5. CASE \E u \in Threads : Obey(u)
    BY <1>0, <1>1, <2>0, <2>1, <2>5 DEF Obey, Goto, LogInv, ThreadInv
  <2>6. CASE \E u \in Threads : Exit(u)
    BY <1>0, <1>1, <2>0, <2>1, <2>6 DEF Exit, Goto, LogInv
  <2>7. CASE ~\E u \in Threads : Throw(u) \/ Record(u) \/ Report(u) \/ Obey(u) \/ Exit(u)
    <3>1. UNCHANGED <<pc, threw>>
      BY <2>7
         DEF Next, Thread, MainStep, Ended, vars, threadVars, threadsOnly, PushOrdinary,
             Signal, LoopHead, SigintCheck, ErrorCheck, StopControl, StopWorker, PopTimeout,
             PopRender, RenderFails, UnwindStop, JoinWorker, JoinControl, Leftover,
             LeftoverDone, Return
    <3>2. QED
      BY <1>1, <2>1, <3>1 DEF LogInv
  <2>8. QED
    BY <2>2, <2>3, <2>4, <2>5, <2>6, <2>7
<1>2. Shutdown \in ToSet(Log') => stop_requested'
  <2>1. stop_requested => stop_requested'
    BY DEF Next, Thread, MainStep, Ended, vars, mainVars, threadsOnly, PushOrdinary,
         Throw, Record, Report, Obey, Exit, Signal, LoopHead, SigintCheck, ErrorCheck,
         StopControl, StopWorker, PopTimeout, PopRender, RenderFails, UnwindStop,
         JoinWorker, JoinControl, Leftover, LeftoverDone, Return
  <2>2. \A t \in Threads : Shutdown # Ordinary(t) /\ Shutdown # Error(t) /\ Shutdown # Exited(t)
    BY Events
  <2>3. Announce \/ (Shutdown \in ToSet(Log') => Shutdown \in ToSet(Log))
    BY <1>0, <2>2, LogSets
  <2>4. QED
    BY <2>1, <2>3, AnnounceStep DEF LogInv
<1>3. ASSUME NEW e \in Event, Push(e), rendered' = rendered,
             e.source \in Threads => pc[e.source] # "ended",
             e = Shutdown => ~stop_requested
      PROVE  ExitIsLast' /\ ShutdownOnce'
  <2>1. e.source \in Threads => Exited(e.source) \notin ToSet(Log)
    BY <1>0, <1>3 DEF ProtocolInv
  <2>2. e = Shutdown => Shutdown \notin ToSet(Log)
    BY <1>3 DEF LogInv
  <2>3. ExitIsLast'
    BY <1>0, <1>3, <2>1, PushOrder DEF LogInv
  <2>4. ShutdownOnce'
    BY <1>0, <1>3, <2>2, PushOnce DEF LogInv
  <2>5. QED
    BY <2>3, <2>4
<1>4. ExitIsLast' /\ ShutdownOnce'
  <2>1. CASE Log' = Log
    BY <2>1 DEF LogInv, ExitIsLast, ShutdownOnce
  <2>2. ASSUME NEW t \in Threads, PushOrdinary(t) \/ Report(t) \/ Exit(t)
        PROVE  ExitIsLast' /\ ShutdownOnce'
    <3>1. /\ rendered' = rendered /\ pc[t] # "ended"
          /\ \E e \in {Ordinary(t), Error(t), Exited(t)} : Push(e)
      BY <2>2 DEF PushOrdinary, Report, Exit, mainVars
    <3>2. \A e \in {Ordinary(t), Error(t), Exited(t)} :
            e \in Event /\ e.source = t /\ e # Shutdown
      BY Events
    <3>3. QED
      BY <1>3, <3>1, <3>2
  <2>3. CASE Announce
    <3>1. Push(Shutdown) /\ rendered' = rendered /\ ~stop_requested
      BY <2>3, AnnounceStep
    <3>2. Shutdown \in Event /\ Shutdown.source \notin Threads
      BY Events
    <3>3. QED
      BY <1>3, <3>1, <3>2
  <2>4. CASE Leftover
    BY <1>0, <2>4, LeftoverStep, DropOrder DEF LogInv
  <2>5. QED
    BY <1>0, <2>1, <2>2, <2>3, <2>4, LogSets
<1>5. QED
  BY <1>1, <1>2, <1>4, Zenon DEF LogInv

(* Once both exits were rendered, the queue holds nothing of a thread      *)
(* (main.cpp 943, 990-1001).                                               *)
LEMMA OnlyShutdownLeft ==
  ASSUME TypeInv, LogInv, exited_seen = Threads
  PROVE  \A i \in DOMAIN events : events[i] = Shutdown
<1>0. /\ TypeOK /\ ProtocolInv /\ rendered \in Seq(Event) /\ events \in Seq(Event)
  BY DEF TypeInv, TypeOK
<1>1. SUFFICES ASSUME NEW i \in DOMAIN events, events[i] # Shutdown
               PROVE  FALSE
  OBVIOUS
<1>2. /\ DOMAIN events = 1 .. Len(events) /\ Len(events) \in Nat
      /\ DOMAIN rendered = 1 .. Len(rendered) /\ Len(rendered) \in Nat
      /\ DOMAIN Log = 1 .. Len(Log)
  BY <1>0, LenProperties, LogTyped
<1>3. events[i] \in Event
  BY <1>0, <1>2, ElementOfSeq
<1>4. PICK t \in Threads : events[i].source = t
  BY <1>1, <1>3, Events
<1>5. Exited(t) \in ToSet(rendered)
  BY <1>0 DEF ProtocolInv
<1>6. PICK k \in DOMAIN rendered : rendered[k] = Exited(t)
  BY <1>5, Zenon DEF ToSet
<1>7. /\ Len(Log) = Len(rendered) + Len(events)
      /\ \A j \in 1 .. Len(rendered) + Len(events) :
           Log[j] = IF j <= Len(rendered) THEN rendered[j] ELSE events[j - Len(rendered)]
  BY <1>0, ConcatProperties DEF Log
<1>8. k \in DOMAIN Log /\ Log[k] = Exited(t)
  BY <1>2, <1>6, <1>7
<1>9. Len(rendered) + i \in DOMAIN Log /\ Log[Len(rendered) + i] = events[i]
  <2>1. /\ Len(rendered) + i \in 1 .. Len(rendered) + Len(events)
        /\ ~(Len(rendered) + i <= Len(rendered))
        /\ (Len(rendered) + i) - Len(rendered) = i
    BY <1>2
  <2>2. Log[Len(rendered) + i] = events[(Len(rendered) + i) - Len(rendered)]
    BY <1>7, <2>1
  <2>3. QED
    BY <1>2, <1>7, <2>1, <2>2
<1>10. Len(rendered) + i <= k
  BY <1>4, <1>8, <1>9, Events DEF LogInv, ExitIsLast
<1>11. QED
  BY <1>2, <1>6, <1>10

(* When main has seen both exits, both threads have ended. *)
LEMMA AllEnded ==
  ASSUME TypeInv, exited_seen = Threads
  PROVE  \A t \in Threads : pc[t] = "ended"
BY LogTyped DEF TypeInv, ProtocolInv

(* An ended thread stays where it is. *)
LEMMA EndedStays ==
  ASSUME TypeOK, [Next]_vars, NEW t \in Threads, pc[t] = "ended"
  PROVE  pc'[t] = "ended"
BY DEF TypeOK, Next, Thread, MainStep, Ended, vars, threadVars, threadsOnly, PushOrdinary,
       Throw, Record, Report, Obey, Exit, Signal, LoopHead, SigintCheck, ErrorCheck,
       StopControl, StopWorker, PopTimeout, PopRender, RenderFails, UnwindStop, JoinWorker,
       JoinControl, Leftover, LeftoverDone, Return, Goto

(* main asks for one shutdown, drops only its announcement and returns     *)
(* what the threads threw (main.cpp 943-1019).                             *)
LEMMA MainInvStep ==
  ASSUME TypeInv, ThreadInv, LogInv, MainInv, [Next]_vars
  PROVE  MainInv'
<1>0. TypeOK /\ ProtocolInv
  BY DEF TypeInv
<1>1. (mpc \in {"sigint_control", "sigint_worker", "error_control", "error_worker"}
         => stop_requested)'
  BY DEF MainInv, Next, Thread, MainStep, Ended, vars, mainVars, threadsOnly, PushOrdinary,
         Throw, Record, Report, Obey, Exit, Signal, LoopHead, SigintCheck, ErrorCheck,
         StopControl, StopWorker, PopTimeout, PopRender, RenderFails, UnwindStop,
         JoinWorker, JoinControl, Leftover, LeftoverDone, Return
<1>2. ASSUME mpc' \in {"leftover", "rethrow", "ended"}
      PROVE  \A i \in DOMAIN events' : events'[i] = Shutdown
  <2>1. exited_seen = Threads /\ (mpc \in {"leftover", "rethrow", "ended"} \/ LoopHead)
    BY <1>0, <1>2
       DEF ProtocolInv, Next, Thread, MainStep, Ended, vars, mainVars, threadsOnly,
         PushOrdinary, Throw, Record, Report, Obey, Exit, Signal, LoopHead, SigintCheck,
         ErrorCheck, StopControl, StopWorker, PopTimeout, PopRender, RenderFails, UnwindStop,
         JoinWorker, JoinControl, Leftover, LeftoverDone, Return
  <2>2. \A i \in DOMAIN events : events[i] = Shutdown
    BY <2>1, OnlyShutdownLeft
  <2>3. CASE events' = events
    BY <2>2, <2>3
  <2>4. CASE Leftover
    <3>1. ToSet(events) = {Head(events)} \cup ToSet(events')
      BY <1>0, <2>4, LeftoverStep, DropLog
    <3>2. \A x \in ToSet(events) : x = Shutdown
      BY <2>2, Zenon DEF ToSet
    <3>3. \A i \in DOMAIN events' : events'[i] \in ToSet(events')
      BY Zenon DEF ToSet
    <3>4. QED
      BY <3>1, <3>2, <3>3
  <2>5. ~\E t \in Threads : PushOrdinary(t) \/ Report(t) \/ Exit(t)
    BY <2>1, AllEnded DEF PushOrdinary, Report, Exit
  <2>6. ~(Announce \/ PopRender \/ RenderFails)
    BY <1>2, AnnounceStep DEF PopRender, RenderFails
  <2>7. QED
    BY <2>3, <2>4, <2>5, <2>6, StepKinds, QuietStep
<1>3. ASSUME mpc' = "ended"
      PROVE  exit_code' = "1" <=> threw' # {}
  <2>1. exited_seen = Threads /\ (mpc = "ended" \/ Return)
    BY <1>0, <1>3
       DEF ProtocolInv, Next, Thread, MainStep, Ended, vars, mainVars, threadsOnly,
         PushOrdinary, Throw, Record, Report, Obey, Exit, Signal, LoopHead, SigintCheck,
         ErrorCheck, StopControl, StopWorker, PopTimeout, PopRender, RenderFails, UnwindStop,
         JoinWorker, JoinControl, Leftover, LeftoverDone, Return
  <2>2. \A t \in Threads : pc[t] = "ended"
    BY <2>1, AllEnded
  <2>3. threw' = threw
    BY <2>2
       DEF Next, Thread, MainStep, Ended, vars, threadVars, threadsOnly, PushOrdinary,
         Throw, Record, Report, Obey, Exit, Signal, LoopHead, SigintCheck, ErrorCheck,
         StopControl, StopWorker, PopTimeout, PopRender, RenderFails, UnwindStop, JoinWorker,
         JoinControl, Leftover, LeftoverDone, Return
  <2>4. CASE Return
    <3>1. first_error # "none" <=> threw # {}
      <4>1. threw \subseteq Threads /\ "none" \notin threw
        BY <1>0 DEF TypeOK, Threads
      <4>2. QED
        BY <2>2, <4>1 DEF ThreadInv
    <3>2. exit_code' = IF first_error = "none" THEN "0" ELSE "1"
      BY <2>4 DEF Return
    <3>3. QED
      BY <2>3, <3>1, <3>2
  <2>5. CASE mpc = "ended" /\ ~Return
    <3>1. exit_code' = exit_code
      BY <2>5
         DEF Next, Thread, MainStep, Ended, vars, mainVars, threadsOnly, PushOrdinary,
           Throw, Record, Report, Obey, Exit, Signal, LoopHead, SigintCheck, ErrorCheck,
           StopControl, StopWorker, PopTimeout, PopRender, RenderFails, UnwindStop,
           JoinWorker, JoinControl, Leftover, LeftoverDone
    <3>2. QED
      BY <2>3, <2>5, <3>1 DEF MainInv
  <2>6. QED
    BY <2>1, <2>4, <2>5
<1>4. ASSUME mpc' \in {"unwind_control", "join_control", "aborted"}
      PROVE  pc'["worker"] = "ended"
  <2>1. pc["worker"] = "ended"
    BY <1>4
       DEF MainInv, Next, Thread, MainStep, Ended, vars, mainVars, threadsOnly,
         PushOrdinary, Throw, Record, Report, Obey, Exit, Signal, LoopHead, SigintCheck,
         ErrorCheck, StopControl, StopWorker, PopTimeout, PopRender, RenderFails, UnwindStop,
         JoinWorker, JoinControl, Leftover, LeftoverDone, Return
  <2>2. QED
    BY <1>0, <2>1, EndedStays DEF Threads
<1>5. ASSUME mpc' = "aborted"
      PROVE  pc'["control"] = "ended"
  <2>1. pc["control"] = "ended"
    BY <1>5
       DEF MainInv, Next, Thread, MainStep, Ended, vars, mainVars, threadsOnly,
         PushOrdinary, Throw, Record, Report, Obey, Exit, Signal, LoopHead, SigintCheck,
         ErrorCheck, StopControl, StopWorker, PopTimeout, PopRender, RenderFails, UnwindStop,
         JoinWorker, JoinControl, Leftover, LeftoverDone, Return
  <2>2. QED
    BY <1>0, <2>1, EndedStays DEF Threads
<1>6. QED
  BY <1>1, <1>2, <1>3, <1>4, <1>5 DEF MainInv

-----------------------------------------------------------------------------
(* The invariant, and the properties it gives. *)

(* The program starts with two running threads and an empty log. *)
LEMMA LifecycleInit == Init => LifecycleInv
<1>1. SUFFICES ASSUME Init PROVE LifecycleInv
  OBVIOUS
<1>2. Log = <<>>
  BY <1>1 DEF Init, Log
<1>3. ToSet(Log) = {} /\ ToSet(rendered) = {} /\ DOMAIN Log = {} /\ DOMAIN events = {}
  BY <1>1, <1>2 DEF Init, ToSet
<1>4. TypeOK
  <2>1. sigint \in BOOLEAN /\ stop_requested \in BOOLEAN
    BY <1>1 DEF Init
  <2>2. stop \in [Threads -> BOOLEAN]
    BY <1>1 DEF Init
  <2>3. events \in Seq(Event) /\ rendered \in Seq(Event)
    BY <1>1, EmptySeq DEF Init
  <2>4. pushed \in [Threads -> 0 .. MaxEvents]
    BY <1>1, EventsAssumption DEF Init
  <2>5. pc \in [Threads -> ThreadPCs] /\ mpc \in MainPCs
    BY <1>1 DEF Init, ThreadPCs, MainPCs
  <2>6. QED
    BY <1>1, <2>1, <2>2, <2>3, <2>4, <2>5 DEF Init, TypeOK
<1>5. ProtocolInv
  BY <1>1, <1>3 DEF Init, ProtocolInv
<1>6. ThreadInv
  BY <1>1 DEF Init, ThreadInv
<1>7. LogInv
  BY <1>1, <1>3 DEF Init, LogInv, ShutdownOnce, ExitIsLast
<1>8. MainInv
  BY <1>1, <1>3 DEF Init, MainInv
<1>9. QED
  BY <1>4, <1>5, <1>6, <1>7, <1>8 DEF LifecycleInv, TypeInv

(* Signals and exceptions in any order, whatever the threads push: each    *)
(* thread records, reports and announces its exit in that order, and main  *)
(* asks for one shutdown (main.cpp 531-555, 943-1019).                     *)
THEOREM LifecycleCorrect == Spec => []LifecycleInv
<1>1. LifecycleInv /\ [Next]_vars => LifecycleInv'
  BY TypeStep, ThreadStep, ProtocolStep, LogStep, MainInvStep DEF LifecycleInv, TypeInv
<1>2. QED
  BY LifecycleInit, <1>1, PTL DEF Spec

(* Nothing of a thread lies behind its exit event (main.cpp 531-555,       *)
(* 890-896, 939-943).                                                      *)
THEOREM ExitsAreLast == Spec => []ExitIsLast
<1>1. LifecycleInv => ExitIsLast
  BY DEF LifecycleInv, LogInv
<1>2. QED
  BY <1>1, LifecycleCorrect, PTL

(* The loop over the leftovers finds at most the announcement of the one   *)
(* shutdown (main.cpp 953-970, 990-1001).                                  *)
THEOREM OnlyShutdownIsLeft == Spec => []LeftoversAreShutdown
<1>1. LifecycleInv => LeftoversAreShutdown
  <2>1. SUFFICES ASSUME LifecycleInv PROVE LeftoversAreShutdown
    OBVIOUS
  <2>2. TypeOK /\ ShutdownOnce /\ MainInv
    BY <2>1 DEF LifecycleInv, TypeInv, LogInv
  <2>3. DEFINE Announcements == {i \in DOMAIN Log : Log[i] = Shutdown}
  <2>4. Announcements = {} \/ \E i : Announcements = {i}
    BY <2>2 DEF ShutdownOnce
  <2>5. Cardinality(Announcements) <= 1
    <3> HIDE DEF Announcements
    <3>1. Cardinality(Announcements) \in {0, 1}
      BY <2>4, FS_EmptySet, FS_Singleton, Zenon
    <3>2. QED
      BY <3>1
  <2>6. QED
    BY <2>2, <2>5 DEF LeftoversAreShutdown, MainInv
<1>2. QED
  BY <1>1, LifecycleCorrect, PTL

(* A program that ends by itself has printed every exception, and its exit *)
(* code says whether there was one; a failure of main has waited for both  *)
(* threads (main.cpp 531-555, 1003-1019).                                  *)
THEOREM ErrorsAreReported == Spec => []ErrorsReported
<1>1. LifecycleInv => ErrorsReported
  <2>1. SUFFICES ASSUME LifecycleInv PROVE ErrorsReported
    OBVIOUS
  <2>2. /\ TypeInv /\ TypeOK /\ ProtocolInv /\ ThreadInv /\ LogInv /\ MainInv
        /\ threw \subseteq Threads
    BY <2>1 DEF LifecycleInv, TypeInv, TypeOK
  <2>3. ASSUME mpc = "ended", NEW t \in threw
        PROVE  Error(t) \in ToSet(rendered)
    <3>1. exited_seen = Threads /\ pc[t] = "ended" /\ t \in Threads
      BY <2>2, <2>3, AllEnded DEF ProtocolInv
    <3>2. Error(t) \in ToSet(rendered) \cup ToSet(events)
      BY <2>2, <3>1, LogTyped DEF LogInv
    <3>3. \A i \in DOMAIN events : events[i] = Shutdown
      BY <2>2, <2>3 DEF MainInv
    <3>4. Error(t) \notin ToSet(events)
      <4>1. Error(t) # Shutdown
        BY <3>1, Events
      <4>2. QED
        BY <3>3, <4>1, Zenon DEF ToSet
    <3>5. QED
      BY <3>2, <3>4
  <2>4. mpc = "aborted" => \A t \in Threads : pc[t] = "ended"
    BY <2>2 DEF MainInv, Threads
  <2>5. QED
    BY <2>2, <2>3, <2>4 DEF ErrorsReported, MainInv, ThreadInv
<1>2. QED
  BY <1>1, LifecycleCorrect, PTL

=============================================================================
