---------------------------- MODULE BacklogProofs ----------------------------
(***************************************************************************)
(* Proofs about the frames in memory: each is in one place, the backlog    *)
(* counts them, and the pipeline implements CaptureSession.                *)
(***************************************************************************)
EXTENDS SessionProofs, FunctionTheorems

(***************************************************************************)
(* Sequences without repetitions.                                          *)
(***************************************************************************)
InjSeq(s) == \A i, j \in DOMAIN s : s[i] = s[j] => i = j

LEMMA EmptyElems == Elems(<<>>) = {} /\ InjSeq(<<>>)
BY DEF Elems, InjSeq

LEMMA AppendElems ==
  ASSUME NEW s \in Seq(Frames), NEW x \in Frames
  PROVE  /\ Elems(Append(s, x)) = Elems(s) \cup {x}
         /\ InjSeq(s) /\ x \notin Elems(s) => InjSeq(Append(s, x))
<1> DEFINE t == Append(s, x)
           k == Len(s) + 1
<1>1. /\ Len(s) \in Nat /\ DOMAIN s = 1 .. Len(s) /\ DOMAIN t = 1 .. k
      /\ \A i \in 1 .. Len(s) : t[i] = s[i]
      /\ t[k] = x
  OBVIOUS
<1>2. /\ k \in 1 .. k /\ \A i \in 1 .. Len(s) : i \in 1 .. k
      /\ \A i \in 1 .. k : i \in 1 .. Len(s) \/ i = k
  BY <1>1
<1> HIDE DEF t, k
<1>3. Elems(t) = Elems(s) \cup {x} BY <1>1, <1>2 DEF Elems
<1>4. ASSUME InjSeq(s), x \notin Elems(s) PROVE InjSeq(t)
  <2>1. \A i \in 1 .. Len(s) : t[i] # x BY <1>1, <1>4 DEF Elems
  <2>2. QED BY <1>1, <1>2, <1>4, <2>1 DEF InjSeq
<1>5. QED BY <1>3, <1>4 DEF t

LEMMA ConcatElems ==
  ASSUME NEW s \in Seq(Frames), NEW t \in Seq(Frames)
  PROVE  /\ Elems(s \o t) = Elems(s) \cup Elems(t)
         /\ InjSeq(s) /\ InjSeq(t) /\ (\A x \in Elems(s) : x \notin Elems(t)) =>
              InjSeq(s \o t)
<1> DEFINE u == s \o t
           m == Len(s)
           k == Len(s) + Len(t)
<1>1. /\ m \in Nat /\ Len(t) \in Nat
      /\ DOMAIN s = 1 .. m /\ DOMAIN t = 1 .. Len(t) /\ DOMAIN u = 1 .. k
      /\ \A i \in 1 .. m : u[i] = s[i]
      /\ \A i \in 1 .. k : ~(i <= m) => u[i] = t[i - m]
  OBVIOUS
<1>2. /\ \A i \in 1 .. m : i \in 1 .. k
      /\ \A i \in 1 .. k : i \in Int
      /\ \A i \in 1 .. k : i <= m => i \in 1 .. m
      /\ \A i \in 1 .. k : ~(i <= m) => i - m \in 1 .. Len(t)
      /\ \A i \in 1 .. Len(t) :
           i + m \in 1 .. k /\ ~(i + m <= m) /\ (i + m) - m = i
  BY <1>1
<1>3. \A i \in 1 .. Len(t) : u[i + m] = t[i] BY <1>1, <1>2
<1> HIDE DEF u, m, k
<1>4. Elems(u) = Elems(s) \cup Elems(t)
  <2>1. Elems(u) \subseteq Elems(s) \cup Elems(t)
    <3> SUFFICES ASSUME NEW i \in 1 .. k PROVE u[i] \in Elems(s) \cup Elems(t)
      BY <1>1 DEF Elems
    <3>1. CASE i <= m BY <1>1, <1>2, <3>1 DEF Elems
    <3>2. CASE ~(i <= m) BY <1>1, <1>2, <3>2 DEF Elems
    <3>3. QED BY <3>1, <3>2
  <2>2. Elems(s) \subseteq Elems(u) BY <1>1, <1>2 DEF Elems
  <2>3. Elems(t) \subseteq Elems(u) BY <1>1, <1>2, <1>3 DEF Elems
  <2>4. QED BY <2>1, <2>2, <2>3
<1>5. ASSUME InjSeq(s), InjSeq(t), \A x \in Elems(s) : x \notin Elems(t)
      PROVE  InjSeq(u)
  <2> SUFFICES ASSUME NEW i \in 1 .. k, NEW j \in 1 .. k, u[i] = u[j]
               PROVE  i = j
    BY <1>1 DEF InjSeq
  <2>1. CASE i <= m /\ j <= m
    BY <1>1, <1>2, <1>5, <2>1 DEF InjSeq
  <2>2. CASE i <= m /\ ~(j <= m)
    <3>1. u[i] \in Elems(s) /\ u[j] \in Elems(t)
      BY <1>1, <1>2, <2>2 DEF Elems
    <3>2. QED BY <1>5, <3>1
  <2>3. CASE ~(i <= m) /\ j <= m
    <3>1. u[j] \in Elems(s) /\ u[i] \in Elems(t)
      BY <1>1, <1>2, <2>3 DEF Elems
    <3>2. QED BY <1>5, <3>1
  <2>4. CASE ~(i <= m) /\ ~(j <= m)
    <3>1. i - m \in 1 .. Len(t) /\ j - m \in 1 .. Len(t) /\ i \in Int /\ j \in Int
      BY <1>1, <1>2, <2>4
    <3>2. t[i - m] = t[j - m] BY <1>1, <2>4
    <3>3. i - m = j - m BY <1>1, <1>5, <3>1, <3>2 DEF InjSeq
    <3>4. QED BY <1>1, <3>1, <3>3
  <2>5. QED BY <2>1, <2>2, <2>3, <2>4
<1>6. QED BY <1>4, <1>5 DEF u

LEMMA TailElems ==
  ASSUME NEW s \in Seq(Frames), s # <<>>, InjSeq(s)
  PROVE  /\ Head(s) \in Elems(s) /\ Head(s) \in Frames
         /\ Elems(Tail(s)) = Elems(s) \ {Head(s)} /\ InjSeq(Tail(s))
<1> DEFINE t == Tail(s)
           m == Len(s)
<1>1. /\ m \in Nat /\ m >= 1 /\ DOMAIN s = 1 .. m /\ Head(s) = s[1]
      /\ DOMAIN t = 1 .. m - 1 /\ \A i \in 1 .. m - 1 : t[i] = s[i + 1]
      /\ s[1] \in Frames
  OBVIOUS
<1>2. /\ 1 \in 1 .. m /\ \A i \in 1 .. m - 1 : i + 1 \in 1 .. m /\ i + 1 # 1
      /\ \A i \in 1 .. m : i = 1 \/ (i - 1 \in 1 .. m - 1 /\ (i - 1) + 1 = i)
      /\ \A i, j \in 1 .. m - 1 : i + 1 = j + 1 => i = j
  BY <1>1
<1> HIDE DEF t, m
<1>3. Head(s) \in Elems(s) BY <1>1, <1>2 DEF Elems
<1>4. \A x \in Elems(t) : x \in Elems(s) /\ x # Head(s)
  BY <1>1, <1>2 DEF Elems, InjSeq
<1>5. \A x \in Elems(s) : x # Head(s) => x \in Elems(t)
  <2> SUFFICES ASSUME NEW i \in 1 .. m, s[i] # Head(s) PROVE s[i] \in Elems(t)
    BY <1>1 DEF Elems
  <2>1. i - 1 \in 1 .. m - 1 /\ (i - 1) + 1 = i BY <1>1, <1>2
  <2>2. t[i - 1] = s[i] BY <1>1, <2>1
  <2>3. QED BY <1>1, <2>1, <2>2 DEF Elems
<1>6. InjSeq(t)
  <2> SUFFICES ASSUME NEW i \in 1 .. m - 1, NEW j \in 1 .. m - 1, t[i] = t[j]
               PROVE  i = j
    BY <1>1 DEF InjSeq
  <2>1. s[i + 1] = s[j + 1] BY <1>1
  <2>2. i + 1 \in DOMAIN s /\ j + 1 \in DOMAIN s BY <1>1, <1>2
  <2>3. i + 1 = j + 1 BY <2>1, <2>2 DEF InjSeq
  <2>4. QED BY <1>2, <2>3
<1>7. QED BY <1>1, <1>3, <1>4, <1>5, <1>6 DEF t

LEMMA InjSeqCount ==
  ASSUME NEW s \in Seq(Frames), InjSeq(s)
  PROVE  IsFiniteSet(Elems(s)) /\ Cardinality(Elems(s)) = Len(s)
<1>1. Len(s) \in Nat /\ DOMAIN s = 1 .. Len(s) OBVIOUS
<1>2. s \in [1 .. Len(s) -> Elems(s)] BY <1>1 DEF Elems
<1>3. \A i, j \in 1 .. Len(s) : s[i] = s[j] => i = j BY <1>1 DEF InjSeq
<1>4. \A x \in Elems(s) : \E i \in 1 .. Len(s) : s[i] = x BY <1>1 DEF Elems
<1>5. s \in Bijection(1 .. Len(s), Elems(s)) BY <1>2, <1>3, <1>4, Fun_IsBij
<1>6. ExistsBijection(1 .. Len(s), Elems(s)) BY <1>5, Fun_ExistsBij
<1>7. IsFiniteSet(1 .. Len(s)) /\ Cardinality(1 .. Len(s)) = Len(s)
  BY <1>1, FS_Interval
<1>8. QED BY <1>6, <1>7, FS_Bijection

(***************************************************************************)
(* Where the accepted frames are.                                          *)
(***************************************************************************)
Buffer == Elems(buffered_frames)
Batch == Elems(pending_batch)
Queue == Elems(write_queue)
InHand(c) == IF cap[c].pc = "push" THEN cap[c].f ELSE {}
Detected == IF wk.pc = "push" THEN wk.f ELSE {}

Queued(f) == f \in Buffer \/ f \in Batch \/ f \in Queue

(* No frame is twice in a queue, or in two queues ...                      *)
OnceQueued ==
  /\ InjSeq(buffered_frames) /\ InjSeq(pending_batch) /\ InjSeq(write_queue)
  /\ \A f \in Buffer : f \notin Batch /\ f \notin Queue
  /\ \A f \in Batch : f \notin Queue

(* ... or in a writer's hands and anywhere else ...                        *)
OnceWriting ==
  \A w \in Writers : \A f \in wr[w].f :
    /\ wr[w].f = {f} /\ wr[w].pc = "write" /\ ~Queued(f)
    /\ \A v \in Writers : f \in wr[v].f => v = w

(* ... or in a callback's or the detection worker's.                       *)
OnceInHand ==
  /\ \A c \in Cameras : \A f \in InHand(c) :
       ~Queued(f) /\ f \notin Detected /\ \A w \in Writers : f \notin wr[w].f
  /\ \A f \in Detected : ~Queued(f) /\ \A w \in Writers : f \notin wr[w].f
  /\ \A f, g \in wk.f : f = g
  /\ \A c \in Cameras : \A f, g \in pending_detection[c] : f = g

Once == OnceQueued /\ OnceWriting /\ OnceInHand

(* A frame accepted, now or earlier, is older than every frame that may    *)
(* yet be.                                                                 *)
Known == Held \cup disk \cup lost

Older(h) ==
  /\ Past(h.cam, h.n)
  /\ \A f \in pending_detection[h.cam] : h.n < f.n
  /\ \A f \in wk.f : f.cam = h.cam =>
       h.n <= f.n /\ (wk.pc = "detect" => h.n < f.n)

Fresh == \A h \in Known : Older(h)

LEMMA HeldIs ==
  /\ \A f : f \in Held <=> \/ Queued(f) \/ f \in Detected
                           \/ \E w \in Writers : f \in wr[w].f
                           \/ \E c \in Cameras : f \in InHand(c)
  /\ \A f : f \in Held' <=> \/ Queued(f)' \/ f \in Detected'
                            \/ \E w \in Writers : f \in wr'[w].f
                            \/ \E c \in Cameras : f \in InHand(c)'
<1>1. ASSUME NEW f
      PROVE  f \in Held <=> \/ Queued(f) \/ f \in Detected
                            \/ \E w \in Writers : f \in wr[w].f
                            \/ \E c \in Cameras : f \in InHand(c)
  <2> DEFINE W == UNION {wr[w].f : w \in Writers}
             C == UNION {cap[c].f : c \in {d \in Cameras : cap[d].pc = "push"}}
  <2>1. f \in W <=> \E w \in Writers : f \in wr[w].f OBVIOUS
  <2>2. f \in C <=> \E c \in Cameras : f \in InHand(c) BY DEF InHand
  <2>3. Held = Buffer \cup Batch \cup Queue \cup W \cup C \cup Detected
    BY DEF Held, Buffer, Batch, Queue, Detected
  <2> HIDE DEF W, C
  <2>4. QED BY <2>1, <2>2, <2>3 DEF Queued
<1>2. ASSUME NEW f
      PROVE  f \in Held' <=> \/ Queued(f)' \/ f \in Detected'
                             \/ \E w \in Writers : f \in wr'[w].f
                             \/ \E c \in Cameras : f \in InHand(c)'
  <2> DEFINE W == UNION {wr'[w].f : w \in Writers}
             C == UNION {cap'[c].f : c \in {d \in Cameras : cap'[d].pc = "push"}}
  <2>1. f \in W <=> \E w \in Writers : f \in wr'[w].f OBVIOUS
  <2>2. f \in C <=> \E c \in Cameras : f \in InHand(c)' BY DEF InHand
  <2>3. Held' = Buffer' \cup Batch' \cup Queue' \cup W \cup C \cup Detected'
    BY DEF Held, Buffer, Batch, Queue, Detected
  <2> HIDE DEF W, C
  <2>4. QED BY <2>1, <2>2, <2>3 DEF Queued
<1>3. QED BY <1>1, <1>2

LEMMA HeldFrames ==
  ASSUME TypeInv
  PROVE  Held \subseteq Frames /\ Known \subseteq Frames
<1>1. Buffer \subseteq Frames /\ Batch \subseteq Frames /\ Queue \subseteq Frames
  BY FramesOf DEF Buffer, Batch, Queue, TypeInv, TypeOK
<1>2. \A w \in Writers : wr[w].f \subseteq Frames
  BY DEF TypeInv, TypeOK, Hands
<1>3. Detected \subseteq Frames BY DEF Detected, TypeInv, TypeOK, Hands
<1>4. \A c \in Cameras : InHand(c) \subseteq Frames
  BY DEF InHand, TypeInv, CapOK, CapStates
<1>5. Held \subseteq Frames BY <1>1, <1>2, <1>3, <1>4, HeldIs DEF Queued
<1>6. QED BY <1>5 DEF Known, TypeInv, TypeOK

(* The frame in a callback's hands is the newest of its camera.            *)
LEMMA HandOf ==
  ASSUME TypeInv, NEW c \in Cameras, NEW f \in InHand(c)
  PROVE  cap[c].pc = "push" /\ InHand(c) = {f} /\ cap[c].f = {f}
         /\ f.cam = c /\ f \in Frames
<1>1. cap[c].pc = "push" /\ f \in cap[c].f BY DEF InHand
<1>2. cap[c].f = {FrameOf(c)} /\ cap[c].f \subseteq Frames
  BY <1>1 DEF TypeInv, CapOK, CapStates, Active
<1>3. QED BY <1>1, <1>2 DEF InHand, FrameOf

(* Only reserving and queueing change what callbacks have in hand.         *)
HandsStay == \A c \in Cameras : InHand(c)' = InHand(c)

LEMMA HandsKept ==
  ASSUME TypeInv, [Next]_vars
  PROVE  HandsStay \/ \E c \in Cameras : reserve(c) \/ push(c)
<1> USE DEF HandsStay, InHand, TypeInv, CapOK, ctlVars, queueVars, trigVars,
            detVars, slotVars, camVars, resetVars, threadVars, readVars,
            histVars, fileVars
<1>1. ASSUME NEW c \in Cameras, copyFrame(c) PROVE HandsStay
  <2>1. cap[c].pc # "push" /\ cap'[c].pc # "push"
    BY <1>1, IdleType DEF copyFrame, Idle
  <2>2. \A d \in Cameras : d # c => cap'[d] = cap[d] BY <1>1 DEF copyFrame
  <2>3. QED BY <2>1, <2>2
<1>2. ASSUME NEW c \in Cameras, saveFrame_Ignored(c) PROVE HandsStay
  <2>1. cap[c].pc # "push" /\ cap'[c].pc # "push"
    BY <1>2, IdleType DEF saveFrame_Ignored, Captured
  <2>2. \A d \in Cameras : d # c => cap'[d] = cap[d]
    BY <1>2 DEF saveFrame_Ignored
  <2>3. QED BY <2>1, <2>2
<1>3. ASSUME NEW c \in Cameras, saveFrame_Record(c) PROVE HandsStay
  <2>1. cap[c].pc # "push" /\ cap'[c].pc # "push"
    BY <1>3, IdleType DEF saveFrame_Record, Captured, CapStates
  <2>2. \A d \in Cameras : d # c => cap'[d] = cap[d]
    BY <1>3 DEF saveFrame_Record
  <2>3. QED BY <2>1, <2>2
<1>4. ASSUME NEW c \in Cameras, saveFrame_Trigger(c) PROVE HandsStay
  <2>1. cap[c].pc # "push" BY <1>4 DEF saveFrame_Trigger, Captured
  <2>2. cap'[c].pc # "push"
    <3>1. CASE cap' = [cap EXCEPT ![c] = Idle] BY <3>1, IdleType
    <3>2. ASSUME NEW t \in pending_trigger, NEW f \in Frames, capture(t, c, f)
          PROVE  cap'[c].pc # "push"
      <4>1. cap' = [cap EXCEPT ![c] = IF config.save_frames THEN Task(t, c, f)
                                      ELSE Finish(Task(t, c, f))]
        BY <3>2, CaptureIs DEF TrigOK
      <4>2. Taken(t, c, f) \in Triggers BY TakenType DEF TrigOK
      <4>3. Result(Taken(t, c, f), FALSE) \in Results BY <4>2, ResultType
      <4>4. Task(t, c, f) \in CapStates /\ Task(t, c, f).pc = "reserve"
        BY <4>3 DEF Task, CapStates
      <4>5. cap'[c] \in {Task(t, c, f), Finish(Task(t, c, f))} BY <4>1
      <4>6. QED BY <4>4, <4>5, FinishType
    <3>3. QED BY <1>4, <3>1, <3>2 DEF saveFrame_Trigger, handleTriggerFrame
  <2>3. \A d \in Cameras : d # c => cap'[d] = cap[d] BY <1>4, TriggerMoves
  <2>4. QED BY <2>1, <2>2, <2>3
<1>5. ASSUME NEW c \in Cameras, saveFrame_Detect(c) PROVE HandsStay
  <2>1. cap[c].pc # "push" /\ cap'[c].pc # "push"
    BY <1>5, IdleType DEF saveFrame_Detect, Captured
  <2>2. \A d \in Cameras : d # c => cap'[d] = cap[d]
    BY <1>5 DEF saveFrame_Detect
  <2>3. QED BY <2>1, <2>2
<1>6. ASSUME NEW c \in Cameras, ack(c) PROVE HandsStay
  <2>1. cap[c].pc # "push" /\ cap'[c].pc # "push" BY <1>6, IdleType DEF ack
  <2>2. \A d \in Cameras : d # c => cap'[d] = cap[d] BY <1>6 DEF ack
  <2>3. QED BY <2>1, <2>2
<1>7. CASE UNCHANGED cap BY <1>7
<1>8. QED
  BY <1>1, <1>2, <1>3, <1>4, <1>5, <1>6, <1>7
  DEF Next, vars, Command, Handler, Worker, Callback, Writer, saveFrame,
      configure, start, startNone, stopCameras, resetFrameCounts,
      handleTriggerCapture, armTrigger, checkCaptureFeasibility, allStarted,
      unwound, startCamera, queueRequestFails, stopCamera, flushBufferedFrames,
      stop, joinWorker, stopWriters, joinWriters, resetFramesSavedCounts,
      reserve, push, getDetectedFrame, takePending, workerExit,
      processDetection, pushDetection, publishDetection, takeTask, writeTask,
      writerExit

(***************************************************************************)
(* What each step does to these places.                                    *)
(***************************************************************************)
LEMMA ReserveEffect ==
  ASSUME TypeInv, NEW c \in Cameras, reserve(c)
  PROVE  /\ \A f : Queued(f)' <=> Queued(f)
         /\ OnceQueued' <=> OnceQueued
         /\ UNCHANGED <<wr, wk, pending_detection, disk, lost, phase>>
         /\ Detected' = Detected
         /\ \A d \in Cameras \ {c} : InHand(d)' = InHand(d)
         /\ InHand(c) = {} /\ cap[c].pc = "reserve"
         /\ IF hasRoom THEN InHand(c)' = {FrameOf(c)} /\ backlog' = backlog + 1
                       ELSE InHand(c)' = {} /\ backlog' = backlog
<1>1. /\ UNCHANGED <<wr, wk, pending_detection, disk, lost, phase,
                     buffered_frames, pending_batch, write_queue>>
      /\ cap[c].pc = "reserve"
      /\ cap' = [cap EXCEPT ![c] = IF hasRoom THEN [@ EXCEPT !.pc = "push"]
                                              ELSE Finish(@)]
      /\ backlog' = IF hasRoom THEN backlog + 1 ELSE backlog
  BY DEF reserve, reserveBacklog, detVars, fileVars
<1>2. cap[c] \in CapStates /\ cap \in [Cameras -> CapStates]
  BY DEF TypeInv, CapOK
<1>3. cap[c].f = {FrameOf(c)} BY ReservedPast
<1>4. hasRoom => cap'[c].pc = "push" /\ cap'[c].f = {FrameOf(c)}
  BY <1>1, <1>2, <1>3 DEF CapStates
<1>5. ~hasRoom => cap'[c].pc # "push" BY <1>1, <1>2, FinishType
<1>6. \A d \in Cameras \ {c} : cap'[d] = cap[d] BY <1>1, <1>2
<1>7. /\ \A d \in Cameras \ {c} : InHand(d)' = InHand(d)
      /\ InHand(c) = {}
      /\ hasRoom => InHand(c)' = {FrameOf(c)}
      /\ ~hasRoom => InHand(c)' = {}
  BY <1>1, <1>4, <1>5, <1>6 DEF InHand
<1>8. /\ Buffer' = Buffer /\ Batch' = Batch /\ Queue' = Queue
      /\ Detected' = Detected
  BY <1>1 DEF Buffer, Batch, Queue, Detected
<1>9. \A f : Queued(f)' <=> Queued(f) BY <1>8 DEF Queued
<1>10. OnceQueued' <=> OnceQueued BY <1>1, <1>8 DEF OnceQueued
<1>11. QED BY <1>1, <1>7, <1>8, <1>9, <1>10

(* A frame f that joins a queue it was not in. *)
Joins(f) ==
  /\ OnceQueued'
  /\ \A g : Queued(g)' <=> Queued(g) \/ g = f

LEMMA PushEffect ==
  ASSUME TypeInv, Once, NEW c \in Cameras, push(c)
  PROVE  /\ UNCHANGED <<wr, wk, pending_detection, disk, lost, phase, backlog>>
         /\ Detected' = Detected
         /\ \A d \in Cameras \ {c} : InHand(d)' = InHand(d)
         /\ InHand(c)' = {}
         /\ InHand(c) = {FrameOf(c)} /\ Joins(FrameOf(c))
<1>1. /\ UNCHANGED <<wr, wk, pending_detection, disk, lost, phase, backlog>>
      /\ cap[c].pc = "push" /\ cap' = [cap EXCEPT ![c] = Finish(@)]
  BY DEF push, detVars, fileVars
<1>2. cap[c] \in CapStates /\ cap \in [Cameras -> CapStates]
  BY DEF TypeInv, CapOK
<1>3. cap[c].f = {FrameOf(c)} /\ FrameOf(c) \in Frames
  BY <1>1, <1>2 DEF TypeInv, CapOK, Active, CapStates
<1>4. cap'[c].pc # "push" BY <1>1, <1>2, FinishType
<1>5. /\ \A d \in Cameras \ {c} : InHand(d)' = InHand(d)
      /\ InHand(c)' = {} /\ InHand(c) = {FrameOf(c)} /\ Detected' = Detected
  BY <1>1, <1>2, <1>3, <1>4 DEF InHand, Detected
<1> DEFINE f == CHOOSE x \in cap[c].f : TRUE
<1>6. f = FrameOf(c) BY <1>3
<1>7. ~Queued(f) BY <1>5, <1>6 DEF Once, OnceInHand
<1>8. /\ buffered_frames \in Seq(Frames) /\ pending_batch \in Seq(Frames)
      /\ write_queue \in Seq(Frames) /\ f \in Frames
  BY <1>3, <1>6 DEF TypeInv, TypeOK
<1>9. CASE cap[c].to = "BUFFER"
  <2>1. buffered_frames' = Append(buffered_frames, f)
        /\ UNCHANGED <<pending_batch, write_queue>>
    BY <1>9 DEF push
  <2> HIDE DEF f
  <2>2. Buffer' = Buffer \cup {f} /\ InjSeq(buffered_frames')
    BY <1>7, <1>8, <2>1, AppendElems DEF Buffer, Queued, Once, OnceQueued
  <2>3. Joins(f)
    BY <1>7, <2>1, <2>2 DEF Joins, Queued, OnceQueued, Once, Batch, Queue
  <2>4. QED BY <1>1, <1>5, <1>6, <2>3 DEF Joins
<1>10. CASE cap[c].to = "BATCH"
  <2> DEFINE batch == Append(pending_batch, f)
             full == Len(batch) >= batchSize
  <2>1. /\ pending_batch' = IF full THEN <<>> ELSE batch
        /\ write_queue' = IF full THEN write_queue \o batch ELSE write_queue
        /\ UNCHANGED buffered_frames
    BY <1>10 DEF push
  <2> HIDE DEF f, full
  <2>2. /\ Elems(batch) = Batch \cup {f} /\ InjSeq(batch)
        /\ batch \in Seq(Frames)
    BY <1>7, <1>8, AppendElems DEF Batch, Queued, Once, OnceQueued
  <2> HIDE DEF batch
  <2>3. CASE full
    <3>1. Elems(write_queue \o batch) = Queue \cup Elems(batch)
      BY <1>8, <2>2, ConcatElems DEF Queue
    <3>2. \A x \in Elems(write_queue) : x \notin Elems(batch)
      BY <1>7, <2>2 DEF Queue, Queued, Once, OnceQueued
    <3>3. InjSeq(write_queue \o batch)
      BY <1>8, <2>2, <3>2, ConcatElems DEF Once, OnceQueued
    <3>4. /\ Queue' = Queue \cup Batch \cup {f} /\ Batch' = {}
          /\ Buffer' = Buffer /\ InjSeq(write_queue') /\ InjSeq(pending_batch')
      BY <2>1, <2>2, <2>3, <3>1, <3>3, EmptyElems DEF Queue, Batch, Buffer
    <3>5. Joins(f)
      BY <1>7, <2>1, <3>4 DEF Joins, Queued, OnceQueued, Once
    <3>6. QED BY <1>1, <1>5, <1>6, <3>5 DEF Joins
  <2>4. CASE ~full
    <3>1. /\ Batch' = Batch \cup {f} /\ Queue' = Queue /\ Buffer' = Buffer
          /\ InjSeq(pending_batch')
      BY <2>1, <2>2, <2>4 DEF Queue, Batch, Buffer
    <3>2. Joins(f)
      BY <1>7, <2>1, <2>4, <3>1 DEF Joins, Queued, OnceQueued, Once
    <3>3. QED BY <1>1, <1>5, <1>6, <3>2 DEF Joins
  <2>5. QED BY <2>3, <2>4
<1>11. CASE cap[c].to = "QUEUE"
  <2>1. write_queue' = Append(write_queue, f)
        /\ UNCHANGED <<buffered_frames, pending_batch>>
    BY <1>11 DEF push
  <2> HIDE DEF f
  <2>2. Queue' = Queue \cup {f} /\ InjSeq(write_queue')
    BY <1>7, <1>8, <2>1, AppendElems DEF Queue, Queued, Once, OnceQueued
  <2>3. Joins(f)
    BY <1>7, <2>1, <2>2 DEF Joins, Queued, OnceQueued, Once, Batch, Buffer
  <2>4. QED BY <1>1, <1>5, <1>6, <2>3 DEF Joins
<1>12. QED BY <1>2, <1>9, <1>10, <1>11 DEF CapStates

(***************************************************************************)
(* No frame is in two places.                                              *)
(***************************************************************************)

(* The frame a callback is about to reserve room for is a new one ...      *)
LEMMA ReservedNew ==
  ASSUME TypeInv, Fresh, NEW c \in Cameras, cap[c].pc = "reserve"
  PROVE  FrameOf(c) \notin Known
<1> SUFFICES ASSUME FrameOf(c) \in Known PROVE FALSE
  OBVIOUS
<1>1. FrameOf(c).cam = c /\ FrameOf(c).n = frame_counter[c] BY DEF FrameOf
<1>2. Past(c, frame_counter[c]) BY <1>1 DEF Fresh, Older
<1>3. frame_counter[c] \in Nat BY DEF TypeInv, TypeOK
<1>4. QED BY <1>2, <1>3 DEF Past, Upcoming

(* ... and so is the one in which the worker has just detected something.  *)
LEMMA DetectedNew ==
  ASSUME TypeInv, Order, Fresh, wk.pc = "detect", NEW f \in wk.f
  PROVE  f \notin Known
<1> SUFFICES ASSUME f \in Known PROVE FALSE
  OBVIOUS
<1>1. f.n \in Nat BY DetectedPast
<1>2. f.n < f.n BY DEF Fresh, Older
<1>3. QED BY <1>1, <1>2

LEMMA SameQueues ==
  ASSUME UNCHANGED <<buffered_frames, pending_batch, write_queue>>
  PROVE  /\ \A f : Queued(f)' <=> Queued(f)
         /\ OnceQueued' <=> OnceQueued
<1>1. Buffer' = Buffer /\ Batch' = Batch /\ Queue' = Queue
  BY DEF Buffer, Batch, Queue
<1>2. \A f : Queued(f)' <=> Queued(f) BY <1>1 DEF Queued
<1>3. OnceQueued' <=> OnceQueued BY <1>1 DEF OnceQueued
<1>4. QED BY <1>2, <1>3

LEMMA OnceReserve ==
  ASSUME TypeInv, Once, Fresh, NEW c \in Cameras, reserve(c) PROVE Once'
<1>1. /\ \A f : Queued(f)' <=> Queued(f)
      /\ OnceQueued' <=> OnceQueued
      /\ UNCHANGED <<wr, wk, pending_detection>>
      /\ Detected' = Detected
      /\ \A d \in Cameras \ {c} : InHand(d)' = InHand(d)
      /\ \A f \in InHand(c)' : f = FrameOf(c)
      /\ cap[c].pc = "reserve"
  BY ReserveEffect
<1>2. FrameOf(c) \notin Held BY <1>1, ReservedNew DEF Known
<1>3. /\ ~Queued(FrameOf(c)) /\ FrameOf(c) \notin Detected
      /\ \A w \in Writers : FrameOf(c) \notin wr[w].f
  BY <1>2, HeldIs
<1>4. OnceQueued' BY <1>1 DEF Once
<1>5. OnceWriting' BY <1>1 DEF Once, OnceWriting
<1>6. ASSUME NEW d \in Cameras, NEW f \in InHand(d)'
      PROVE  ~Queued(f)' /\ f \notin Detected' /\ \A w \in Writers : f \notin wr'[w].f
  <2>1. CASE d = c BY <1>1, <1>3, <1>6, <2>1
  <2>2. CASE d # c BY <1>1, <1>6, <2>2 DEF Once, OnceInHand
  <2>3. QED BY <2>1, <2>2
<1>7. OnceInHand' BY <1>1, <1>6 DEF Once, OnceInHand
<1>8. QED BY <1>4, <1>5, <1>7 DEF Once

LEMMA OncePush ==
  ASSUME TypeInv, Once, NEW c \in Cameras, push(c) PROVE Once'
<1>1. /\ UNCHANGED <<wr, wk, pending_detection>>
      /\ Detected' = Detected
      /\ \A d \in Cameras \ {c} : InHand(d)' = InHand(d)
      /\ InHand(c)' = {} /\ InHand(c) = {FrameOf(c)}
      /\ OnceQueued' /\ \A g : Queued(g)' <=> Queued(g) \/ g = FrameOf(c)
  BY PushEffect DEF Joins
<1>2. /\ FrameOf(c) \notin Detected
      /\ \A w \in Writers : FrameOf(c) \notin wr[w].f
  BY <1>1 DEF Once, OnceInHand
<1>3. OnceWriting' BY <1>1, <1>2 DEF Once, OnceWriting
<1>4. ASSUME NEW d \in Cameras, NEW f \in InHand(d)'
      PROVE  ~Queued(f)' /\ f \notin Detected' /\ \A w \in Writers : f \notin wr'[w].f
  <2>1. d # c /\ f \in InHand(d) BY <1>1, <1>4
  <2>2. f # FrameOf(c) BY <2>1, HandOf DEF FrameOf
  <2>3. QED BY <1>1, <2>1, <2>2 DEF Once, OnceInHand
<1>5. OnceInHand' BY <1>1, <1>2, <1>4 DEF Once, OnceInHand
<1>6. QED BY <1>1, <1>3, <1>5 DEF Once

LEMMA OnceWorker ==
  ASSUME TypeInv, Order, Once, Fresh,
         takePending \/ workerExit \/ processDetection \/ publishDetection
  PROVE  Once'
<1>1. /\ UNCHANGED <<buffered_frames, pending_batch, write_queue, wr, cap>>
      /\ \A c \in Cameras : pending_detection'[c] \subseteq pending_detection[c]
  BY DEF takePending, workerExit, processDetection, publishDetection, detVars,
         queueVars, TypeInv, TypeOK
<1>2. /\ \A f : Queued(f)' <=> Queued(f)
      /\ OnceQueued' <=> OnceQueued
  BY <1>1, SameQueues
<1>3. \A c \in Cameras : InHand(c)' = InHand(c) BY <1>1 DEF InHand
<1>4. \A f, g \in wk'.f : f = g
  <2>1. CASE takePending
    <3>1. PICK c \in Cameras : wk'.f = pending_detection[c]
      BY <2>1, NextCameraPending DEF takePending, pendingCameras
    <3>2. QED BY <3>1 DEF Once, OnceInHand
  <2>2. CASE workerExit BY <2>2 DEF workerExit, Off
  <2>3. CASE processDetection
    <3>1. wk'.f = wk.f
      BY <2>3 DEF processDetection, TypeInv, TypeOK, Hands
    <3>2. QED BY <3>1 DEF Once, OnceInHand
  <2>4. CASE publishDetection BY <2>4 DEF publishDetection
  <2>5. QED BY <2>1, <2>2, <2>3, <2>4
<1>5. \A f \in Detected' : f \notin Held
  <2>1. CASE takePending BY <2>1 DEF takePending, Detected
  <2>2. CASE workerExit BY <2>2 DEF workerExit, Off, Detected
  <2>3. CASE processDetection
    <3>1. wk'.f = wk.f /\ wk.pc = "detect"
      BY <2>3 DEF processDetection, TypeInv, TypeOK, Hands
    <3>2. QED BY <3>1, DetectedNew DEF Detected, Known
  <2>4. CASE publishDetection BY <2>4 DEF publishDetection, Detected
  <2>5. QED BY <2>1, <2>2, <2>3, <2>4
<1>6. \A f \in Detected' :
        /\ ~Queued(f) /\ \A w \in Writers : f \notin wr[w].f
        /\ \A c \in Cameras : f \notin InHand(c)
  BY <1>5, HeldIs
<1>7. OnceWriting' BY <1>1, <1>2 DEF Once, OnceWriting
<1>8. OnceInHand'
  BY <1>1, <1>2, <1>3, <1>4, <1>6 DEF Once, OnceInHand
<1>9. QED BY <1>2, <1>7, <1>8 DEF Once

LEMMA PushDetectionEffect ==
  ASSUME TypeInv, Once, pushDetection
  PROVE  /\ UNCHANGED <<wr, cap, pending_detection, disk, lost, phase, backlog>>
         /\ wk'.f = wk.f /\ Detected = wk.f /\ Detected' = {}
         /\ wk.pc = "push" /\ wk'.pc = "publish"
         /\ \E f : Detected = {f} /\ Joins(f)
<1>1. /\ UNCHANGED <<wr, cap, pending_detection, disk, lost, phase, backlog,
                     buffered_frames, pending_batch>>
      /\ wk.pc = "push" /\ wk'.f = wk.f /\ wk'.pc = "publish"
  BY DEF pushDetection, detVars, fileVars, TypeInv, TypeOK, Hands
<1>2. PICK f \in wk.f : write_queue' = Append(write_queue, f)
  BY DEF pushDetection
<1>3. f \in Frames /\ write_queue \in Seq(Frames)
  BY DEF TypeInv, TypeOK, Hands
<1>4. Detected = {f} /\ Detected = wk.f /\ Detected' = {}
  BY <1>1 DEF Detected, Once, OnceInHand
<1>5. ~Queued(f) BY <1>4 DEF Once, OnceInHand
<1>6. /\ Queue' = Queue \cup {f} /\ InjSeq(write_queue')
      /\ Buffer' = Buffer /\ Batch' = Batch
  BY <1>1, <1>2, <1>3, <1>5, AppendElems
  DEF Queue, Buffer, Batch, Queued, Once, OnceQueued
<1>7. Joins(f)
  BY <1>1, <1>5, <1>6 DEF Joins, Queued, OnceQueued, Once
<1>8. QED BY <1>1, <1>4, <1>7

LEMMA OncePushDetection ==
  ASSUME TypeInv, Once, pushDetection PROVE Once'
<1>1. PICK f : Detected = {f} /\ Joins(f) BY PushDetectionEffect
<1>2. /\ UNCHANGED <<wr, cap, pending_detection>>
      /\ wk'.f = wk.f /\ Detected' = {}
      /\ OnceQueued' /\ \A g : Queued(g)' <=> Queued(g) \/ g = f
  BY <1>1, PushDetectionEffect DEF Joins
<1>3. \A c \in Cameras : InHand(c)' = InHand(c) BY <1>2 DEF InHand
<1>4. /\ \A w \in Writers : f \notin wr[w].f
      /\ \A c \in Cameras : f \notin InHand(c)
  BY <1>1 DEF Once, OnceInHand
<1>5. OnceWriting' BY <1>2, <1>4 DEF Once, OnceWriting
<1>6. OnceInHand' BY <1>2, <1>3, <1>4 DEF Once, OnceInHand
<1>7. QED BY <1>2, <1>5, <1>6 DEF Once

(* A writer takes the oldest frame of the queue, and leaves it.            *)
LEMMA TakeEffect ==
  ASSUME TypeInv, Once, NEW w \in Writers, takeTask(w)
  PROVE  /\ UNCHANGED <<wk, cap, pending_detection, disk, lost, phase, backlog>>
         /\ wr[w].f = {} /\ wr'[w].pc = "write"
         /\ \A v \in Writers \ {w} : wr'[v] = wr[v]
         /\ OnceQueued'
         /\ \E f : /\ Queued(f) /\ wr'[w].f = {f}
                   /\ \A g : Queued(g)' <=> Queued(g) /\ g # f
<1>1. /\ UNCHANGED <<wk, cap, pending_detection, disk, lost, phase, backlog,
                     buffered_frames, pending_batch>>
      /\ wr[w].pc = "wait" /\ write_queue # <<>>
      /\ wr' = [wr EXCEPT ![w] = [pc |-> "write", f |-> {Head(write_queue)}]]
      /\ write_queue' = Tail(write_queue)
  BY DEF takeTask, detVars, fileVars
<1>2. write_queue \in Seq(Frames) /\ wr \in [Writers -> Hands]
  BY DEF TypeInv, TypeOK
<1> DEFINE f == Head(write_queue)
<1>3. /\ f \in Queue /\ Queue' = Queue \ {f} /\ InjSeq(write_queue')
  BY <1>1, <1>2, TailElems DEF Queue, Once, OnceQueued
<1>4. /\ wr'[w].f = {f} /\ wr'[w].pc = "write"
      /\ \A v \in Writers \ {w} : wr'[v] = wr[v]
  BY <1>1, <1>2
<1> HIDE DEF f
<1>5. wr[w].f = {} BY <1>1 DEF Once, OnceWriting
<1>6. Buffer' = Buffer /\ Batch' = Batch BY <1>1 DEF Buffer, Batch
<1>7. Queued(f) /\ \A g : Queued(g)' <=> Queued(g) /\ g # f
  BY <1>3, <1>6 DEF Queued, Once, OnceQueued
<1>8. OnceQueued' BY <1>1, <1>3, <1>6 DEF Once, OnceQueued
<1>9. QED BY <1>1, <1>4, <1>5, <1>7, <1>8

LEMMA OnceTake ==
  ASSUME TypeInv, Once, NEW w \in Writers, takeTask(w) PROVE Once'
<1>1. /\ UNCHANGED <<wk, cap, pending_detection>> /\ OnceQueued'
      /\ \A v \in Writers \ {w} : wr'[v] = wr[v]
      /\ wr'[w].pc = "write"
  BY TakeEffect
<1>2. PICK f : /\ Queued(f) /\ wr'[w].f = {f}
               /\ \A g : Queued(g)' <=> Queued(g) /\ g # f
  BY TakeEffect
<1>3. Detected' = Detected /\ \A c \in Cameras : InHand(c)' = InHand(c)
  BY <1>1 DEF Detected, InHand
<1>4. ASSUME NEW v \in Writers, NEW g \in wr'[v].f
      PROVE  /\ wr'[v].f = {g} /\ wr'[v].pc = "write" /\ ~Queued(g)'
             /\ \A u \in Writers : g \in wr'[u].f => u = v
  <2>1. CASE v = w BY <1>1, <1>2, <1>4, <2>1 DEF Once, OnceWriting
  <2>2. CASE v # w
    <3>1. g \in wr[v].f /\ wr'[v] = wr[v] BY <1>1, <1>4, <2>2
    <3>2. g # f BY <1>2, <3>1 DEF Once, OnceWriting
    <3>3. QED BY <1>1, <1>2, <3>1, <3>2 DEF Once, OnceWriting
  <2>3. QED BY <2>1, <2>2
<1>5. OnceWriting' BY <1>4 DEF OnceWriting
<1>6. \A v \in Writers : \A g \in wr'[v].f : g = f \/ g \in wr[v].f
  BY <1>1, <1>2
<1>7. OnceInHand'
  BY <1>1, <1>2, <1>3, <1>6 DEF Once, OnceInHand
<1>8. QED BY <1>1, <1>5, <1>7 DEF Once

(* A writer that has written, or that ends, has nothing in hand.           *)
LEMMA WriteEffect ==
  ASSUME TypeInv, NEW w \in Writers, writeTask(w) \/ writerExit(w)
  PROVE  /\ UNCHANGED <<wk, cap, pending_detection, phase, buffered_frames,
                        pending_batch, write_queue>>
         /\ wr'[w].f = {}
         /\ \A v \in Writers \ {w} : wr'[v] = wr[v]
<1>1. /\ UNCHANGED <<wk, cap, pending_detection, phase, buffered_frames,
                     pending_batch, write_queue>>
      /\ wr' \in {[wr EXCEPT ![w] = [pc |-> "wait", f |-> {}]],
                  [wr EXCEPT ![w] = Off]}
  BY DEF writeTask, writerExit, detVars, queueVars
<1>2. wr \in [Writers -> Hands] BY DEF TypeInv, TypeOK
<1>3. QED BY <1>1, <1>2 DEF Off

LEMMA OnceWrite ==
  ASSUME TypeInv, Once, NEW w \in Writers, writeTask(w) \/ writerExit(w)
  PROVE  Once'
<1>1. /\ UNCHANGED <<wk, cap, pending_detection, buffered_frames,
                     pending_batch, write_queue>>
      /\ wr'[w].f = {}
      /\ \A v \in Writers \ {w} : wr'[v] = wr[v]
  BY WriteEffect
<1>2. /\ \A f : Queued(f)' <=> Queued(f)
      /\ OnceQueued' <=> OnceQueued
  BY <1>1, SameQueues
<1>3. Detected' = Detected /\ \A c \in Cameras : InHand(c)' = InHand(c)
  BY <1>1 DEF Detected, InHand
<1>4. \A v \in Writers : \A f \in wr'[v].f : v # w /\ f \in wr[v].f BY <1>1
<1>5. OnceWriting' BY <1>1, <1>2, <1>4 DEF Once, OnceWriting
<1>6. OnceInHand' BY <1>1, <1>2, <1>3, <1>4 DEF Once, OnceInHand
<1>7. QED BY <1>2, <1>5, <1>6 DEF Once

(* A session begins with nothing in memory. *)
LEMMA StartEffect ==
  ASSUME Recording, start
  PROVE  /\ UNCHANGED <<disk, lost, cap>> /\ ~Open /\ Open' /\ backlog' = 0
         /\ wk'.f = {} /\ Detected' = {}
         /\ \A w \in Writers : wr'[w].f = {}
         /\ \A c \in Cameras : InHand(c)' = {} /\ pending_detection'[c] = {}
         /\ (\A f : ~Queued(f)') /\ OnceQueued'
<1>1. /\ ~Open /\ Open' /\ UNCHANGED <<disk, lost, cap>> /\ backlog' = 0
      /\ UNCHANGED write_queue
      /\ buffered_frames' \in {<<>>, buffered_frames}
      /\ pending_batch' \in {<<>>, pending_batch}
      /\ pending_detection' = [c \in Cameras |-> {}]
      /\ \A w \in Writers : wr'[w] \in {wr[w], [Off EXCEPT !.pc = "wait"]}
      /\ wk' \in {wk, [Off EXCEPT !.pc = "wait"]}
  BY DEF start, Open, fileVars
<1>2. wk = Off /\ \A w \in Writers : wr[w] = Off BY <1>1, Flushed
<1>3. buffered_frames = <<>> /\ pending_batch = <<>> /\ write_queue = <<>>
  BY <1>1 DEF Recording, Drained, Open
<1>4. wk'.f = {} /\ wk'.pc # "push" /\ \A w \in Writers : wr'[w].f = {}
  <2> DEFINE On == [Off EXCEPT !.pc = "wait"]
  <2>1. On.f = {} /\ On.pc = "wait" /\ Off.f = {} /\ Off.pc = "off" BY DEF Off
  <2>2. wk' \in {Off, On} /\ \A w \in Writers : wr'[w] \in {Off, On}
    BY <1>1, <1>2
  <2> HIDE DEF On
  <2>3. QED BY <2>1, <2>2
<1>5. \A c \in Cameras : cap[c].pc # "push"
  BY <1>1 DEF Recording, Base, CallbacksOn, Open, Idle
<1>6. \A c \in Cameras : InHand(c)' = {} BY <1>1, <1>5 DEF InHand
<1>7. /\ buffered_frames' = <<>> /\ pending_batch' = <<>>
      /\ write_queue' = <<>>
  BY <1>1, <1>3
<1>8. Buffer' = {} /\ Batch' = {} /\ Queue' = {}
  BY <1>7, EmptyElems DEF Buffer, Batch, Queue
<1>9. \A f : ~Queued(f)' BY <1>8 DEF Queued
<1>10. OnceQueued' BY <1>7, <1>8, EmptyElems DEF OnceQueued
<1>11. QED BY <1>1, <1>4, <1>6, <1>9, <1>10 DEF Detected

LEMMA OnceStart == ASSUME Recording, start PROVE Once'
<1>1. /\ wk'.f = {} /\ Detected' = {}
      /\ \A w \in Writers : wr'[w].f = {}
      /\ \A c \in Cameras : InHand(c)' = {} /\ pending_detection'[c] = {}
      /\ OnceQueued'
  BY StartEffect
<1>2. OnceWriting' BY <1>1 DEF OnceWriting
<1>3. OnceInHand' BY <1>1 DEF OnceInHand
<1>4. QED BY <1>1, <1>2, <1>3 DEF Once

(* flushBufferedFrames takes all that is buffered, or nothing. *)
LEMMA FlushEffect ==
  ASSUME Once, flushBufferedFrames
  PROVE  /\ UNCHANGED <<wk, wr, cap, pending_detection>>
         /\ Open /\ Open' /\ OnceQueued'
         /\ \/ /\ UNCHANGED <<backlog, disk, lost>>
               /\ \A f : Queued(f)' <=> Queued(f)
            \/ /\ backlog' = released(Len(buffered_frames))
               /\ \A f : Queued(f)' <=> Queued(f) /\ f \notin Buffer
               /\ \E failed \in SUBSET Buffer :
                    /\ disk' = disk \cup (Buffer \ failed)
                    /\ lost' = lost \cup failed
<1>1. /\ UNCHANGED <<wk, wr, cap, pending_detection, pending_batch,
                     write_queue>>
      /\ Open /\ Open'
      /\ \/ UNCHANGED <<backlog, disk, lost, buffered_frames>>
         \/ /\ backlog' = released(Len(buffered_frames))
            /\ buffered_frames' = <<>>
            /\ \E failed \in SUBSET Buffer :
                 /\ disk' = disk \cup (Buffer \ failed)
                 /\ lost' = lost \cup failed
  BY DEF flushBufferedFrames, threadVars, detVars, fileVars, Open, Buffer
<1>2. CASE UNCHANGED <<backlog, disk, lost, buffered_frames>>
  BY <1>1, <1>2, SameQueues DEF Once
<1>3. CASE buffered_frames' = <<>>
           /\ backlog' = released(Len(buffered_frames))
           /\ \E failed \in SUBSET Buffer : /\ disk' = disk \cup (Buffer \ failed)
                                            /\ lost' = lost \cup failed
  <2>1. Buffer' = {} /\ Batch' = Batch /\ Queue' = Queue
    BY <1>1, <1>3, EmptyElems DEF Buffer, Batch, Queue
  <2>2. \A f : Queued(f)' <=> Queued(f) /\ f \notin Buffer
    BY <2>1 DEF Queued, Once, OnceQueued
  <2>3. OnceQueued'
    BY <1>1, <1>3, <2>1, EmptyElems DEF Once, OnceQueued
  <2>4. QED BY <1>1, <1>3, <2>2, <2>3
<1>4. QED BY <1>1, <1>2, <1>3

(* A partial batch moves to the end of the write queue. *)
LEMMA StopWritersEffect ==
  ASSUME TypeInv, Once, stopWriters
  PROVE  /\ UNCHANGED <<wk, wr, cap, pending_detection, backlog, disk, lost>>
         /\ Open /\ Open' /\ OnceQueued'
         /\ \A f : Queued(f)' <=> Queued(f)
<1>1. /\ UNCHANGED <<wk, wr, cap, pending_detection, backlog, disk, lost,
                     buffered_frames>>
      /\ Open /\ Open'
      /\ \/ UNCHANGED <<write_queue, pending_batch>>
         \/ /\ write_queue' = write_queue \o pending_batch
            /\ pending_batch' = <<>>
  BY DEF stopWriters, threadVars, detVars, fileVars, Open
<1>2. CASE UNCHANGED <<write_queue, pending_batch>>
  BY <1>1, <1>2, SameQueues DEF Once
<1>3. CASE /\ write_queue' = write_queue \o pending_batch
           /\ pending_batch' = <<>>
  <2>1. write_queue \in Seq(Frames) /\ pending_batch \in Seq(Frames)
    BY DEF TypeInv, TypeOK
  <2>2. Queue' = Queue \cup Batch /\ Batch' = {} /\ Buffer' = Buffer
    BY <1>1, <1>3, <2>1, ConcatElems, EmptyElems DEF Queue, Batch, Buffer
  <2>3. \A x \in Elems(write_queue) : x \notin Elems(pending_batch)
    BY DEF Once, OnceQueued, Queue, Batch
  <2>4. InjSeq(write_queue')
    BY <1>3, <2>1, <2>3, ConcatElems DEF Once, OnceQueued
  <2>5. \A f : Queued(f)' <=> Queued(f) BY <2>2 DEF Queued
  <2>6. OnceQueued'
    BY <1>1, <1>3, <2>2, <2>4, EmptyElems DEF Once, OnceQueued
  <2>7. QED BY <1>1, <2>5, <2>6
<1>4. QED BY <1>1, <1>2, <1>3

LEMMA OnceHandler ==
  ASSUME TypeInv, Once, flushBufferedFrames \/ stopWriters PROVE Once'
<1>1. /\ UNCHANGED <<wk, wr, cap, pending_detection>>
      /\ OnceQueued' /\ \A f : Queued(f)' => Queued(f)
  BY FlushEffect, StopWritersEffect
<1>2. Detected' = Detected /\ \A c \in Cameras : InHand(c)' = InHand(c)
  BY <1>1 DEF Detected, InHand
<1>3. OnceWriting' BY <1>1 DEF Once, OnceWriting
<1>4. OnceInHand' BY <1>1, <1>2 DEF Once, OnceInHand
<1>5. QED BY <1>1, <1>3, <1>4 DEF Once

(* The other steps move no accepted frame.                                 *)
LEMMA OnceKept ==
  ASSUME Once, UNCHANGED <<buffered_frames, pending_batch, write_queue, wr, wk>>,
         \A c \in Cameras : InHand(c)' = InHand(c),
         \A c \in Cameras : \A f, g \in pending_detection'[c] : f = g
  PROVE  Once'
<1>1. /\ \A f : Queued(f)' <=> Queued(f)
      /\ OnceQueued' <=> OnceQueued
  BY SameQueues
<1>2. Detected' = Detected BY DEF Detected
<1>3. OnceWriting' BY <1>1 DEF Once, OnceWriting
<1>4. OnceInHand' BY <1>1, <1>2 DEF Once, OnceInHand
<1>5. QED BY <1>1, <1>3, <1>4 DEF Once

(* The steps that move frames.                                             *)
LEMMA MoveActors ==
  ASSUME [Next]_vars
  PROVE  \/ UNCHANGED <<buffered_frames, pending_batch, write_queue, backlog,
                        wr, wk, disk, lost, pending_detection>>
         \/ start \/ flushBufferedFrames \/ stopWriters
         \/ resetFramesSavedCounts
         \/ takePending \/ workerExit \/ processDetection \/ pushDetection
         \/ publishDetection
         \/ \E c \in Cameras : saveFrame_Detect(c) \/ reserve(c) \/ push(c)
         \/ \E w \in Writers : takeTask(w) \/ writeTask(w) \/ writerExit(w)
BY ZenonT(60)
DEF Next, vars, Command, Handler, Worker, Callback, Writer, saveFrame,
       configure, startNone, stopCameras, resetFrameCounts,
       handleTriggerCapture, armTrigger, checkCaptureFeasibility, allStarted,
       unwound, startCamera, queueRequestFails, stopCamera, stop, joinWorker,
       joinWriters, copyFrame, saveFrame_Ignored, saveFrame_Record,
       saveFrame_Trigger, ack, getDetectedFrame, ctlVars, queueVars, trigVars,
       detVars, slotVars, camVars, resetVars, threadVars, readVars, histVars,
       fileVars

(* The frame that becomes pending is the newest of its camera. *)
LEMMA DetectEffect ==
  ASSUME TypeInv, NEW c \in Cameras, saveFrame_Detect(c)
  PROVE  /\ UNCHANGED <<buffered_frames, pending_batch, write_queue, backlog,
                        wr, wk, disk, lost, phase>>
         /\ \A d \in Cameras : InHand(d)' = InHand(d)
         /\ pending_detection' =
              [pending_detection EXCEPT ![c] = {FrameOf(c)}]
         /\ cap[c].pc = "copied"
<1>1. /\ UNCHANGED <<buffered_frames, pending_batch, write_queue, backlog,
                     wr, wk, disk, lost, phase>>
      /\ cap' = [cap EXCEPT ![c] = Idle]
  BY DEF saveFrame_Detect, queueVars, fileVars
<1>2. PICK f \in Frames :
        /\ cap[c].pc = "copied" /\ f \in cap[c].f
        /\ pending_detection' = [pending_detection EXCEPT ![c] = {f}]
  BY DEF saveFrame_Detect, Captured
<1>3. cap[c].f = {FrameOf(c)} /\ cap \in [Cameras -> CapStates]
  BY <1>2 DEF TypeInv, CapOK, Active
<1>4. ASSUME NEW d \in Cameras PROVE InHand(d)' = InHand(d)
  <2>1. CASE d = c BY <1>1, <1>2, <1>3, <2>1 DEF InHand, Idle
  <2>2. CASE d # c BY <1>1, <1>3, <2>2 DEF InHand
  <2>3. QED BY <2>1, <2>2
<1>5. QED BY <1>1, <1>2, <1>3, <1>4

LEMMA OnceStep ==
  ASSUME Recording, Once, Fresh, [Next]_vars PROVE Once'
<1>1. TypeInv /\ Order BY DEF Recording, Base
<1>2. CASE UNCHANGED <<buffered_frames, pending_batch, write_queue, backlog,
                       wr, wk, disk, lost, pending_detection>>
  <2>1. CASE \A c \in Cameras : InHand(c)' = InHand(c)
    BY <1>2, <2>1, OnceKept DEF Once, OnceInHand
  <2>2. CASE \E c \in Cameras : reserve(c) \/ push(c)
    BY <1>1, <2>2, OnceReserve, OncePush
  <2>3. QED BY <1>1, <2>1, <2>2, HandsKept DEF HandsStay
<1>3. ASSUME NEW c \in Cameras, saveFrame_Detect(c) PROVE Once'
  <2>1. \A d \in Cameras : \A f, g \in pending_detection'[d] : f = g
    <3>1. pending_detection' = [pending_detection EXCEPT ![c] = {FrameOf(c)}]
          /\ pending_detection \in [Cameras -> SUBSET Frames]
      BY <1>1, <1>3, DetectEffect DEF TypeInv, TypeOK
    <3>2. ASSUME NEW d \in Cameras
          PROVE  pending_detection'[d] \in {{FrameOf(c)}, pending_detection[d]}
      BY <3>1
    <3>3. QED BY <3>2 DEF Once, OnceInHand
  <2>2. QED BY <1>1, <1>3, <2>1, DetectEffect, OnceKept
<1>4. CASE resetFramesSavedCounts
  <2>1. UNCHANGED <<buffered_frames, pending_batch, write_queue, wr, wk, cap>>
    BY <1>4 DEF resetFramesSavedCounts, queueVars, threadVars
  <2>2. \A c \in Cameras : pending_detection'[c] = {}
    BY <1>4 DEF resetFramesSavedCounts
  <2>3. \A c \in Cameras : InHand(c)' = InHand(c) BY <2>1 DEF InHand
  <2>4. QED BY <2>1, <2>2, <2>3, OnceKept
<1>5. QED
  BY <1>1, <1>2, <1>3, <1>4, MoveActors, OnceStart, OnceHandler, OnceWorker,
     OncePushDetection, OnceReserve, OncePush, OnceTake, OnceWrite

(* Whoever has a frame to deal with has one.                               *)
Loaded ==
  /\ \A w \in Writers : wr[w].pc = "write" => wr[w].f # {}
  /\ wk.pc = "detect" => wk.f # {}

LEMMA LoadedStep == ASSUME TypeInv, Loaded, [Next]_vars PROVE Loaded'
<1> USE DEF Loaded, TypeInv, TypeOK, ctlVars, queueVars, trigVars, detVars,
            slotVars, camVars, resetVars, threadVars, readVars, histVars,
            fileVars
<1>1. CASE start
  BY <1>1 DEF start, Off
<1>2. CASE takePending
  BY <1>2, NextCameraPending DEF takePending, pendingCameras
<1>3. CASE workerExit
  BY <1>3 DEF workerExit, Off
<1>4. CASE processDetection
  <2>1. wk'.pc \in {"push", "publish"} /\ UNCHANGED wr
    BY <1>4 DEF processDetection, Hands
  <2>2. QED BY <2>1
<1>5. CASE pushDetection
  <2>1. wk'.pc = "publish" /\ UNCHANGED wr BY <1>5 DEF pushDetection, Hands
  <2>2. QED BY <2>1
<1>6. CASE publishDetection BY <1>6 DEF publishDetection
<1>7. ASSUME NEW w \in Writers, takeTask(w) PROVE Loaded'
  BY <1>7 DEF takeTask
<1>8. ASSUME NEW w \in Writers, writeTask(w) PROVE Loaded'
  BY <1>8 DEF writeTask
<1>9. ASSUME NEW w \in Writers, writerExit(w) PROVE Loaded'
  BY <1>9 DEF writerExit, Off
<1>10. CASE UNCHANGED <<wr, wk>> BY <1>10
<1>11. QED
  BY <1>1, <1>2, <1>3, <1>4, <1>5, <1>6, <1>7, <1>8, <1>9, <1>10
  DEF Next, vars, Command, Handler, Worker, Callback, Writer, saveFrame,
      configure, startNone, stopCameras, resetFrameCounts,
      handleTriggerCapture, armTrigger, checkCaptureFeasibility, allStarted,
      unwound, startCamera, queueRequestFails, stopCamera, flushBufferedFrames,
      stop, joinWorker, stopWriters, joinWriters, resetFramesSavedCounts,
      copyFrame, saveFrame_Ignored, saveFrame_Record, saveFrame_Trigger,
      saveFrame_Detect, reserve, push, ack, getDetectedFrame

(***************************************************************************)
(* What a step does to the frames in memory: it lets one in, it lets some  *)
(* go, or it keeps them, however it moves them about.                      *)
(***************************************************************************)
Keeps ==
  /\ Held' = Held /\ UNCHANGED <<disk, lost>>
  /\ backlog' = backlog \/ (Held = {} /\ backlog' = 0)

LetsIn(f) ==
  /\ Open /\ Open' /\ hasRoom /\ f \in Frames /\ f \notin Known
  /\ Held' = Held \cup {f} /\ backlog' = backlog + 1
  /\ UNCHANGED <<disk, lost>>

LetsGo(S) ==
  /\ Open /\ Open' /\ S \subseteq Held /\ IsFiniteSet(S)
  /\ Held' = Held \ S /\ backlog' = released(Cardinality(S))
  /\ \E failed \in SUBSET S :
       disk' = disk \cup (S \ failed) /\ lost' = lost \cup failed

LEMMA ReserveMoves ==
  ASSUME Recording, Fresh, NEW c \in Cameras, reserve(c)
  PROVE  LetsIn(FrameOf(c)) \/ Keeps
<1>1. TypeInv /\ CallbacksOn BY DEF Recording, Base
<1>2. /\ \A f : Queued(f)' <=> Queued(f)
      /\ UNCHANGED <<wr, disk, lost, phase>>
      /\ Detected' = Detected
      /\ \A d \in Cameras \ {c} : InHand(d)' = InHand(d)
      /\ InHand(c) = {} /\ cap[c].pc = "reserve"
      /\ hasRoom => InHand(c)' = {FrameOf(c)} /\ backlog' = backlog + 1
      /\ ~hasRoom => InHand(c)' = {} /\ backlog' = backlog
  BY <1>1, ReserveEffect
<1>3. FrameOf(c) \notin Known BY <1>1, <1>2, ReservedNew
<1>4. Open /\ Open' /\ FrameOf(c) \in Frames
  BY <1>1, <1>2, ReservedPast DEF Open, CallbacksOn, Idle
<1>5. CASE hasRoom
  <2>1. \A f : f \in Held' <=> f \in Held \/ f = FrameOf(c)
    BY <1>2, <1>5, HeldIs
  <2>2. Held' = Held \cup {FrameOf(c)} BY <2>1
  <2>3. QED BY <1>2, <1>3, <1>4, <1>5, <2>2 DEF LetsIn
<1>6. CASE ~hasRoom
  <2>1. \A f : f \in Held' <=> f \in Held BY <1>2, <1>6, HeldIs
  <2>2. Held' = Held BY <2>1
  <2>3. QED BY <1>2, <1>6, <2>2 DEF Keeps
<1>7. QED BY <1>5, <1>6

LEMMA PushMoves ==
  ASSUME TypeInv, Once, NEW c \in Cameras, push(c) PROVE Keeps
<1>1. /\ UNCHANGED <<wr, disk, lost, backlog>>
      /\ Detected' = Detected
      /\ \A d \in Cameras \ {c} : InHand(d)' = InHand(d)
      /\ InHand(c)' = {} /\ InHand(c) = {FrameOf(c)}
      /\ \A g : Queued(g)' <=> Queued(g) \/ g = FrameOf(c)
  BY PushEffect DEF Joins
<1>2. \A f : f \in Held' <=> f \in Held BY <1>1, HeldIs
<1>3. Held' = Held BY <1>2
<1>4. QED BY <1>1, <1>3 DEF Keeps

LEMMA DetectionMoves ==
  ASSUME Recording, Once, Fresh, Loaded, processDetection
  PROVE  Keeps \/ \E f \in wk.f : wk.f = {f} /\ LetsIn(f)
<1>1. TypeInv /\ Order /\ InForce /\ WorkerLife BY DEF Recording, Base
<1>2. /\ UNCHANGED <<buffered_frames, pending_batch, write_queue, wr, cap,
                     phase, disk, lost>>
      /\ wk.pc = "detect" /\ wk'.f = wk.f
      /\ \/ backlog' = backlog + 1 /\ hasRoom /\ wk'.pc = "push"
         \/ backlog' = backlog /\ wk'.pc = "publish"
  BY <1>1 DEF processDetection, reserveBacklog, fileVars, TypeInv, TypeOK, Hands
<1>3. PICK f \in wk.f : TRUE BY <1>2 DEF Loaded
<1>4. wk.f = {f} BY <1>3 DEF Once, OnceInHand
<1>5. f \notin Known /\ f \in Frames
  BY <1>1, <1>2, <1>3, DetectedNew, DetectedPast
<1>6. Open /\ Open' BY <1>1, <1>2, DetectSession DEF Open
<1>7. /\ \A g : Queued(g)' <=> Queued(g)
      /\ \A c \in Cameras : InHand(c)' = InHand(c)
      /\ Detected = {}
  BY <1>2, SameQueues DEF InHand, Detected
<1>8. CASE backlog' = backlog + 1 /\ hasRoom /\ wk'.pc = "push"
  <2>1. Detected' = {f} BY <1>2, <1>4, <1>8 DEF Detected
  <2>2. \A g : g \in Held' <=> g \in Held \/ g = f
    BY <1>2, <1>7, <2>1, HeldIs
  <2>3. Held' = Held \cup {f} BY <2>2
  <2>4. QED BY <1>2, <1>4, <1>5, <1>6, <1>8, <2>3 DEF LetsIn
<1>9. CASE backlog' = backlog /\ wk'.pc = "publish"
  <2>1. Detected' = {} BY <1>9 DEF Detected
  <2>2. \A g : g \in Held' <=> g \in Held BY <1>2, <1>7, <2>1, HeldIs
  <2>3. Held' = Held BY <2>2
  <2>4. QED BY <1>2, <1>9, <2>3 DEF Keeps
<1>10. QED BY <1>2, <1>8, <1>9

LEMMA PushDetectionMoves ==
  ASSUME TypeInv, Once, pushDetection PROVE Keeps
<1>1. PICK f : Detected = {f} /\ Joins(f) BY PushDetectionEffect
<1>2. /\ UNCHANGED <<wr, cap, disk, lost, backlog>> /\ Detected' = {}
      /\ \A g : Queued(g)' <=> Queued(g) \/ g = f
  BY <1>1, PushDetectionEffect DEF Joins
<1>3. \A c \in Cameras : InHand(c)' = InHand(c) BY <1>2 DEF InHand
<1>4. \A g : g \in Held' <=> g \in Held BY <1>1, <1>2, <1>3, HeldIs
<1>5. Held' = Held BY <1>4
<1>6. QED BY <1>2, <1>5 DEF Keeps

LEMMA TakeMoves ==
  ASSUME TypeInv, Once, NEW w \in Writers, takeTask(w) PROVE Keeps
<1>1. /\ UNCHANGED <<wk, cap, disk, lost, backlog>>
      /\ wr[w].f = {} /\ \A v \in Writers \ {w} : wr'[v] = wr[v]
  BY TakeEffect
<1>2. PICK f : /\ Queued(f) /\ wr'[w].f = {f}
               /\ \A g : Queued(g)' <=> Queued(g) /\ g # f
  BY TakeEffect
<1>3. Detected' = Detected /\ \A c \in Cameras : InHand(c)' = InHand(c)
  BY <1>1 DEF Detected, InHand
<1>4. \A g : (\E v \in Writers : g \in wr'[v].f)
             <=> (\E v \in Writers : g \in wr[v].f) \/ g = f
  BY <1>1, <1>2
<1>5. \A g : g \in Held' <=> g \in Held
  BY <1>2, <1>3, <1>4, HeldIs, ZenonT(60)
<1>6. Held' = Held BY <1>5
<1>7. QED BY <1>1, <1>6 DEF Keeps

LEMMA WriteMoves ==
  ASSUME Recording, Once, Loaded, NEW w \in Writers, writeTask(w)
  PROVE  LetsGo(wr[w].f)
<1>1. TypeInv /\ WriterLife BY DEF Recording, Base
<1>2. /\ UNCHANGED <<wk, cap, phase, buffered_frames, pending_batch,
                     write_queue>>
      /\ wr'[w].f = {} /\ \A v \in Writers \ {w} : wr'[v] = wr[v]
  BY <1>1, WriteEffect
<1>3. PICK ok \in WriteResults :
        /\ disk' = IF ok THEN disk \cup wr[w].f ELSE disk
        /\ lost' = IF ok THEN lost ELSE lost \cup wr[w].f
  BY DEF writeTask
<1>4. wr[w].pc = "write" /\ backlog' = released(1) BY DEF writeTask
<1>5. PICK f \in wr[w].f : TRUE BY <1>4 DEF Loaded
<1>6. /\ wr[w].f = {f} /\ ~Queued(f) /\ f \notin Detected
      /\ \A v \in Writers \ {w} : f \notin wr[v].f
      /\ \A c \in Cameras : f \notin InHand(c)
  BY <1>5 DEF Once, OnceWriting, OnceInHand
<1>7. IsFiniteSet({f}) /\ Cardinality({f}) = 1 BY FS_Singleton
<1>8. /\ Detected' = Detected /\ \A c \in Cameras : InHand(c)' = InHand(c)
      /\ \A g : Queued(g)' <=> Queued(g)
  BY <1>2, SameQueues DEF Detected, InHand
<1>9. Open /\ Open' BY <1>1, <1>2, <1>4 DEF WriterLife, Open, Off
<1>10. \A g : g \in Held' <=> g \in Held /\ g # f
  BY <1>2, <1>6, <1>8, HeldIs
<1>11. Held' = Held \ {f} /\ f \in Held BY <1>6, <1>10, HeldIs
<1>12. \E failed \in SUBSET {f} :
         disk' = disk \cup ({f} \ failed) /\ lost' = lost \cup failed
  <2>1. CASE ok
    <3>1. disk' = disk \cup ({f} \ {}) /\ lost' = lost \cup {}
      BY <1>3, <1>6, <2>1
    <3>2. QED BY <3>1
  <2>2. CASE ~ok BY <1>3, <1>6, <2>2
  <2>3. QED BY <2>1, <2>2
<1>13. QED BY <1>4, <1>6, <1>7, <1>9, <1>11, <1>12 DEF LetsGo

LEMMA FlushMoves ==
  ASSUME TypeInv, Once, flushBufferedFrames PROVE Keeps \/ LetsGo(Buffer)
<1>1. UNCHANGED <<wk, wr, cap>> /\ Open /\ Open' BY FlushEffect
<1>2. Detected' = Detected /\ \A c \in Cameras : InHand(c)' = InHand(c)
  BY <1>1 DEF Detected, InHand
<1>3. CASE UNCHANGED <<backlog, disk, lost>> /\ \A f : Queued(f)' <=> Queued(f)
  <2>1. \A f : f \in Held' <=> f \in Held BY <1>1, <1>2, <1>3, HeldIs
  <2>2. Held' = Held BY <2>1
  <2>3. QED BY <1>3, <2>2 DEF Keeps
<1>4. CASE /\ backlog' = released(Len(buffered_frames))
           /\ \A f : Queued(f)' <=> Queued(f) /\ f \notin Buffer
           /\ \E failed \in SUBSET Buffer :
                /\ disk' = disk \cup (Buffer \ failed)
                /\ lost' = lost \cup failed
  <2>1. \A f \in Buffer : /\ Queued(f) /\ f \notin Detected
                          /\ \A w \in Writers : f \notin wr[w].f
                          /\ \A c \in Cameras : f \notin InHand(c)
    BY DEF Queued, Once, OnceWriting, OnceInHand
  <2>2. \A f : f \in Held' <=> f \in Held /\ f \notin Buffer
    BY <1>1, <1>2, <1>4, <2>1, HeldIs
  <2>3. Held' = Held \ Buffer /\ Buffer \subseteq Held BY <2>1, <2>2, HeldIs
  <2>4. IsFiniteSet(Buffer) /\ Cardinality(Buffer) = Len(buffered_frames)
    BY InjSeqCount DEF TypeInv, TypeOK, Buffer, Once, OnceQueued
  <2>5. QED BY <1>1, <1>4, <2>3, <2>4 DEF LetsGo
<1>5. QED BY <1>3, <1>4, FlushEffect

LEMMA StartMoves == ASSUME Recording, start PROVE Keeps
<1>1. Held = {} BY StartEffect, Flushed
<1>2. Held' = {} BY StartEffect, HeldIs
<1>3. QED BY <1>1, <1>2, StartEffect DEF Keeps

(* The steps in whose places nothing changes. *)
LEMMA StillMoves ==
  ASSUME UNCHANGED <<backlog, disk, lost>>, Detected' = Detected,
         \A f : Queued(f)' <=> Queued(f),
         \A w \in Writers : wr'[w].f = wr[w].f,
         \A c \in Cameras : InHand(c)' = InHand(c)
  PROVE  Keeps
<1>1. \A f : f \in Held' <=> f \in Held BY HeldIs
<1>2. Held' = Held BY <1>1
<1>3. QED BY <1>2 DEF Keeps

(***************************************************************************)
(* What is accepted is older than what may yet be.                         *)
(***************************************************************************)

(* Where a pending frame, and one in the worker's hands, comes from.       *)
LEMMA DetectionSource ==
  ASSUME Recording, [Next]_vars
  PROVE  /\ \A c \in Cameras : \A f \in pending_detection'[c] :
              \/ f \in pending_detection[c]
              \/ f = FrameOf(c) /\ cap[c].pc = "copied"
         /\ \A f \in wk'.f :
              \/ f \in wk.f /\ (wk'.pc = "detect" => wk.pc = "detect")
              \/ f \in pending_detection[f.cam]
<1>1. TypeInv /\ Order BY DEF Recording, Base
<1>2. pending_detection \in [Cameras -> SUBSET Frames] /\ wk \in Hands
  BY <1>1 DEF TypeInv, TypeOK
<1>3. CASE UNCHANGED <<pending_detection, wk>> BY <1>3
<1>4. CASE start
  BY <1>4, StartEffect
<1>5. CASE resetFramesSavedCounts
  BY <1>5 DEF resetFramesSavedCounts, threadVars
<1>6. ASSUME NEW c \in Cameras, saveFrame_Detect(c)
      PROVE  /\ UNCHANGED wk
             /\ \A d \in Cameras : \A f \in pending_detection'[d] :
                  \/ f \in pending_detection[d]
                  \/ f = FrameOf(d) /\ cap[d].pc = "copied"
  <2>1. /\ pending_detection' = [pending_detection EXCEPT ![c] = {FrameOf(c)}]
        /\ cap[c].pc = "copied" /\ UNCHANGED wk
    BY <1>1, <1>6, DetectEffect
  <2>2. ASSUME NEW d \in Cameras, NEW f \in pending_detection'[d]
        PROVE  \/ f \in pending_detection[d]
               \/ f = FrameOf(d) /\ cap[d].pc = "copied"
    <3>1. CASE d = c BY <1>2, <2>1, <2>2, <3>1
    <3>2. CASE d # c BY <1>2, <2>1, <2>2, <3>2
    <3>3. QED BY <3>1, <3>2
  <2>3. QED BY <2>1, <2>2
<1>7. CASE takePending
  <2>1. PICK c \in Cameras : /\ wk'.f = pending_detection[c]
                             /\ pending_detection' =
                                  [pending_detection EXCEPT ![c] = {}]
    BY <1>7, NextCameraPending DEF takePending, pendingCameras
  <2>2. \A f \in pending_detection[c] : f.cam = c BY <1>1 DEF Order
  <2>3. \A d \in Cameras : pending_detection'[d] \subseteq pending_detection[d]
    BY <1>2, <2>1
  <2>4. QED BY <2>1, <2>2, <2>3
<1>8. CASE workerExit \/ processDetection \/ pushDetection \/ publishDetection
  <2>1. UNCHANGED pending_detection
    BY <1>8 DEF workerExit, processDetection, pushDetection, publishDetection,
                detVars
  <2>2. wk'.f = {} \/ (wk'.f = wk.f /\ wk'.pc # "detect")
    BY <1>2, <1>8 DEF workerExit, processDetection, pushDetection,
                      publishDetection, Off, Hands
  <2>3. QED BY <2>1, <2>2
<1>9. CASE flushBufferedFrames \/ stopWriters
  BY <1>3, <1>9 DEF flushBufferedFrames, stopWriters, detVars, threadVars
<1>10. ASSUME NEW c \in Cameras, reserve(c) \/ push(c)
       PROVE  UNCHANGED <<pending_detection, wk>>
  BY <1>10 DEF reserve, push, detVars
<1>11. ASSUME NEW w \in Writers, takeTask(w) \/ writeTask(w) \/ writerExit(w)
       PROVE  UNCHANGED <<pending_detection, wk>>
  BY <1>11 DEF takeTask, writeTask, writerExit, detVars
<1>12. QED
  BY <1>3, <1>4, <1>5, <1>6, <1>7, <1>8, <1>9, <1>10, <1>11, MoveActors

LEMMA OlderStays ==
  ASSUME Recording, [Next]_vars, NEW h \in Frames, Older(h)
  PROVE  Older(h)'
<1>1. TypeInv BY DEF Recording, Base
<1>2. h.cam \in Cameras /\ h.n \in Nat /\ frame_counter[h.cam] \in Nat
  BY <1>1 DEF Frames, TypeInv, TypeOK
<1>3. Past(h.cam, h.n)' BY <1>1, <1>2, PastStays DEF Older
<1>4. \A f \in pending_detection'[h.cam] : h.n < f.n
  <2> SUFFICES ASSUME NEW f \in pending_detection'[h.cam] PROVE h.n < f.n
    OBVIOUS
  <2>1. CASE f \in pending_detection[h.cam] BY <2>1 DEF Older
  <2>2. CASE f = FrameOf(h.cam) /\ cap[h.cam].pc = "copied"
    BY <1>2, <2>2 DEF Older, Past, Upcoming, FrameOf
  <2>3. QED BY <1>2, <2>1, <2>2, DetectionSource
<1>5. \A f \in wk'.f : f.cam = h.cam =>
        h.n <= f.n /\ (wk'.pc = "detect" => h.n < f.n)
  <2> SUFFICES ASSUME NEW f \in wk'.f, f.cam = h.cam
               PROVE  h.n <= f.n /\ (wk'.pc = "detect" => h.n < f.n)
    OBVIOUS
  <2>1. CASE f \in wk.f /\ (wk'.pc = "detect" => wk.pc = "detect")
    BY <2>1 DEF Older
  <2>2. CASE f \in pending_detection[f.cam]
    <3>1. h.n < f.n BY <2>2 DEF Older
    <3>2. f.n \in Nat
      BY <1>1, <1>2, <2>2 DEF TypeInv, TypeOK, Frames
    <3>3. QED BY <1>2, <3>1, <3>2
  <2>3. QED BY <2>1, <2>2, DetectionSource
<1>6. QED BY <1>3, <1>4, <1>5 DEF Older

LEMMA ReservedOlder ==
  ASSUME Recording, NEW c \in Cameras, reserve(c), NEW h, h = FrameOf(c)
  PROVE  Older(h)'
<1>1. TypeInv /\ CallbacksOn /\ WorkerLife BY DEF Recording, Base
<1>2. h.cam = c /\ h.n = frame_counter[c] BY DEF FrameOf
<1>3. frame_counter' = frame_counter /\ UNCHANGED <<wk, pending_detection>>
      /\ cap[c].pc = "reserve"
  BY DEF reserve, camVars, detVars
<1>4. Past(c, frame_counter[c])' BY <1>1, ReservedPast
<1>5. Past(h.cam, h.n)' BY <1>2, <1>3, <1>4 DEF Past
<1>6. Open /\ config.mode \in {"BUFFER", "BATCH", "TRIGGER"}
  BY <1>1, <1>3 DEF Recording, Routes, CallbacksOn, Open, Idle
<1>7. pending_detection[c] = {} /\ wk.f = {}
  BY <1>1, <1>6 DEF Recording, Routes, WorkerLife, Off
<1>8. QED BY <1>2, <1>3, <1>5, <1>7 DEF Older

LEMMA DetectedOlder ==
  ASSUME Recording, [Next]_vars, processDetection, NEW h, wk.f = {h}
  PROVE  Older(h)'
<1>1. TypeInv /\ Order BY DEF Recording, Base
<1>2. wk'.f = {h} /\ wk'.pc # "detect" /\ UNCHANGED pending_detection
  BY <1>1 DEF processDetection, detVars, TypeInv, TypeOK, Hands
<1>3. h.cam \in Cameras /\ h.n \in Nat /\ Past(h.cam, h.n)
  BY <1>1, DetectedPast
<1>4. Past(h.cam, h.n)' BY <1>1, <1>3, PastStays
<1>5. \A f \in pending_detection[h.cam] : h.n < f.n
  BY <1>3 DEF Order, Recording, Base
<1>6. QED BY <1>2, <1>3, <1>4, <1>5 DEF Older

(* Every step is one of three kinds.                                       *)
LEMMA MovesStep ==
  ASSUME Recording, Once, Fresh, Loaded, [Next]_vars
  PROVE  \/ Keeps
         \/ \E c \in Cameras : reserve(c) /\ LetsIn(FrameOf(c))
         \/ processDetection /\ \E f \in wk.f : wk.f = {f} /\ LetsIn(f)
         \/ \E S \in SUBSET Held : LetsGo(S)
<1>1. TypeInv /\ Order BY DEF Recording, Base
<1>2. CASE UNCHANGED <<buffered_frames, pending_batch, write_queue, backlog,
                       wr, wk, disk, lost, pending_detection>>
  <2>1. Detected' = Detected /\ \A f : Queued(f)' <=> Queued(f)
    BY <1>2, SameQueues DEF Detected
  <2>2. CASE \A c \in Cameras : InHand(c)' = InHand(c)
    BY <1>2, <2>1, <2>2, StillMoves
  <2>3. CASE \E c \in Cameras : reserve(c) \/ push(c)
    BY <1>1, <2>3, ReserveMoves, PushMoves
  <2>4. QED BY <1>1, <2>2, <2>3, HandsKept DEF HandsStay
<1>3. ASSUME NEW c \in Cameras, saveFrame_Detect(c) PROVE Keeps
  <2>1. /\ UNCHANGED <<buffered_frames, pending_batch, write_queue, backlog,
                       wr, wk, disk, lost>>
        /\ \A d \in Cameras : InHand(d)' = InHand(d)
    BY <1>1, <1>3, DetectEffect
  <2>2. Detected' = Detected /\ \A f : Queued(f)' <=> Queued(f)
    BY <2>1, SameQueues DEF Detected
  <2>3. QED BY <2>1, <2>2, StillMoves
<1>4. CASE resetFramesSavedCounts
  <2>1. UNCHANGED <<buffered_frames, pending_batch, write_queue, backlog,
                    wr, wk, cap, disk, lost>>
    BY <1>4 DEF resetFramesSavedCounts, queueVars, threadVars, fileVars
  <2>2. /\ Detected' = Detected /\ \A f : Queued(f)' <=> Queued(f)
        /\ \A c \in Cameras : InHand(c)' = InHand(c)
    BY <2>1, SameQueues DEF Detected, InHand
  <2>3. QED BY <2>1, <2>2, StillMoves
<1>5. CASE takePending \/ workerExit \/ publishDetection
  <2>1. /\ UNCHANGED <<buffered_frames, pending_batch, write_queue, backlog,
                       wr, cap, disk, lost>>
        /\ wk.pc # "push" /\ wk'.pc # "push"
    BY <1>5 DEF takePending, workerExit, publishDetection, queueVars, fileVars,
                Off
  <2>2. /\ Detected' = Detected /\ \A f : Queued(f)' <=> Queued(f)
        /\ \A c \in Cameras : InHand(c)' = InHand(c)
    BY <2>1, SameQueues DEF Detected, InHand
  <2>3. QED BY <2>1, <2>2, StillMoves
<1>6. CASE stopWriters
  <2>1. /\ UNCHANGED <<wk, wr, cap, backlog, disk, lost>>
        /\ \A f : Queued(f)' <=> Queued(f)
    BY <1>1, <1>6, StopWritersEffect
  <2>2. /\ Detected' = Detected /\ \A c \in Cameras : InHand(c)' = InHand(c)
    BY <2>1 DEF Detected, InHand
  <2>3. QED BY <2>1, <2>2, StillMoves
<1>7. ASSUME NEW w \in Writers, writerExit(w) PROVE Keeps
  <2>1. /\ UNCHANGED <<wk, cap, buffered_frames, pending_batch, write_queue>>
        /\ wr'[w].f = {} /\ \A v \in Writers \ {w} : wr'[v] = wr[v]
    BY <1>1, <1>7, WriteEffect
  <2>2. wr[w].pc = "wait" /\ UNCHANGED <<backlog, disk, lost>>
    BY <1>7 DEF writerExit, queueVars, fileVars
  <2>3. wr[w].f = {} BY <2>2 DEF Once, OnceWriting
  <2>4. /\ Detected' = Detected /\ \A f : Queued(f)' <=> Queued(f)
        /\ \A c \in Cameras : InHand(c)' = InHand(c)
    BY <2>1, SameQueues DEF Detected, InHand
  <2>5. \A v \in Writers : wr'[v].f = wr[v].f BY <2>1, <2>3
  <2>6. QED BY <2>2, <2>4, <2>5, StillMoves
<1>8. ASSUME NEW w \in Writers, writeTask(w)
      PROVE  \E S \in SUBSET Held : LetsGo(S)
  BY <1>8, WriteMoves DEF LetsGo
<1>9. CASE flushBufferedFrames BY <1>1, <1>9, FlushMoves DEF LetsGo
<1>10. QED
  BY <1>1, <1>2, <1>3, <1>4, <1>5, <1>6, <1>7, <1>8, <1>9, MoveActors,
     StartMoves, DetectionMoves, PushDetectionMoves, ReserveMoves, PushMoves,
     TakeMoves

LEMMA FreshStep ==
  ASSUME Recording, Once, Fresh, Loaded, [Next]_vars PROVE Fresh'
<1>1. TypeInv BY DEF Recording, Base
<1>2. Known \subseteq Frames BY <1>1, HeldFrames
<1>3. \A h \in Known : Older(h)' BY <1>2, OlderStays DEF Fresh
<1>4. CASE Keeps
  <2>1. Known' = Known BY <1>4 DEF Keeps, Known
  <2>2. QED BY <1>3, <2>1 DEF Fresh
<1>5. ASSUME NEW c \in Cameras, reserve(c), LetsIn(FrameOf(c)) PROVE Fresh'
  <2>1. PICK h : h = FrameOf(c) OBVIOUS
  <2>2. Known' = Known \cup {h} BY <1>5, <2>1 DEF LetsIn, Known
  <2>3. Older(h)' BY <1>5, <2>1, ReservedOlder
  <2>4. QED BY <1>3, <2>2, <2>3 DEF Fresh
<1>6. ASSUME processDetection, NEW h \in wk.f, wk.f = {h}, LetsIn(h)
      PROVE  Fresh'
  <2>1. Known' = Known \cup {h} BY <1>6 DEF LetsIn, Known
  <2>2. Older(h)' BY <1>6, DetectedOlder
  <2>3. QED BY <1>3, <2>1, <2>2 DEF Fresh
<1>7. ASSUME NEW S \in SUBSET Held, LetsGo(S) PROVE Fresh'
  <2>1. Known' \subseteq Known BY <1>7 DEF LetsGo, Known
  <2>2. QED BY <1>3, <2>1 DEF Fresh
<1>8. QED BY <1>4, <1>5, <1>6, <1>7, MovesStep

(***************************************************************************)
(* The backlog.                                                            *)
(***************************************************************************)
Exact == IsFiniteSet(Held) /\ backlog = Cardinality(Held)

LEMMA ExactStep ==
  ASSUME Recording, Once, Fresh, Loaded, Exact, [Next]_vars PROVE Exact'
<1>1. backlog \in Nat /\ Cardinality(Held) \in Nat
  BY FS_CardinalityType DEF Recording, Base, TypeInv, TypeOK, Exact
<1>2. CASE Keeps BY <1>2, FS_EmptySet DEF Keeps, Exact
<1>3. ASSUME NEW f, LetsIn(f) PROVE Exact'
  <2>1. f \notin Held BY <1>3 DEF LetsIn, Known
  <2>2. /\ IsFiniteSet(Held \cup {f})
        /\ Cardinality(Held \cup {f}) = Cardinality(Held) + 1
    BY <2>1, FS_AddElement DEF Exact
  <2>3. QED BY <1>3, <2>2 DEF LetsIn, Exact
<1>4. ASSUME NEW S \in SUBSET Held, LetsGo(S) PROVE Exact'
  <2>1. IsFiniteSet(S) /\ Held' = Held \ S BY <1>4 DEF LetsGo
  <2>2. Cardinality(S) \in Nat /\ Cardinality(S) <= Cardinality(Held)
    BY <2>1, FS_Subset, FS_CardinalityType DEF Exact
  <2>3. Held \cap S = S OBVIOUS
  <2>4. /\ IsFiniteSet(Held \ S)
        /\ Cardinality(Held \ S) = Cardinality(Held) - Cardinality(S)
    BY <2>3, FS_Difference DEF Exact
  <2>5. backlog' = backlog - Cardinality(S)
    BY <1>1, <1>4, <2>2 DEF LetsGo, released, Exact
  <2>6. QED BY <2>1, <2>4, <2>5 DEF Exact
<1>5. QED BY <1>2, <1>3, <1>4, MovesStep

(* The inductive invariant of a recording session.                         *)
Inv == Recording /\ Once /\ Fresh /\ Loaded /\ Exact

LEMMA InvInit == Init => Inv
<1> SUFFICES ASSUME Init PROVE Inv
  OBVIOUS
<1>1. Recording BY BaseInit, DrainedInit DEF Recording
<1>2. Held = {} BY <1>1, Flushed DEF Init, Open
<1>3. wk = Off /\ \A w \in Writers : wr[w] = Off
  BY <1>1, Flushed DEF Init, Open
<1>4. wk.f = {} /\ wk.pc = "off"
      /\ \A w \in Writers : wr[w].f = {} /\ wr[w].pc = "off"
  BY <1>3 DEF Off
<1>5. Buffer = {} /\ Batch = {} /\ Queue = {}
  BY EmptyElems DEF Init, Buffer, Batch, Queue
<1>6. OnceQueued BY <1>5, EmptyElems DEF Init, OnceQueued
<1>7. OnceWriting BY <1>4 DEF OnceWriting
<1>8. Detected = {} /\ \A c \in Cameras : InHand(c) = {}
  BY <1>4 DEF Detected, InHand, Init, Idle
<1>9. OnceInHand BY <1>4, <1>8 DEF OnceInHand, Init
<1>10. Fresh BY <1>2 DEF Fresh, Known, Init
<1>11. Loaded BY <1>4 DEF Loaded
<1>12. Exact BY <1>2, FS_EmptySet DEF Exact, Init
<1>13. QED BY <1>1, <1>6, <1>7, <1>9, <1>10, <1>11, <1>12 DEF Inv, Once

LEMMA InvStep ==
  ASSUME Writers # {}, ~ModeWhileRunning,
         StartMayFail => "BUFFER" \notin Modes, Inv, [Next]_vars
  PROVE  Inv'
<1>1. Recording' BY RecordingStep DEF Inv
<1>2. Once' /\ Fresh' /\ Loaded' /\ Exact'
  BY OnceStep, FreshStep, LoadedStep, ExactStep DEF Inv, Recording, Base
<1>3. QED BY <1>1, <1>2 DEF Inv

(* Every accepted frame is in exactly one place, older than all that may   *)
(* yet be accepted, and counted.                                           *)
THEOREM BacklogInvariant ==
  ASSUME Writers # {}, ~ModeWhileRunning,
         StartMayFail => "BUFFER" \notin Modes
  PROVE  Spec => []Inv
<1>1. Inv /\ [Next]_vars => Inv' BY InvStep
<1>2. QED BY <1>1, InvInit, PTL DEF Spec

(* backlog_bytes counts exactly the frames in memory, through every        *)
(* interleaving of the callbacks' compare-exchange, the writers' releases, *)
(* the detection worker and the flush, and never exceeds the budget.       *)
THEOREM BacklogCountsFrames ==
  ASSUME Writers # {}, ~ModeWhileRunning,
         StartMayFail => "BUFFER" \notin Modes
  PROVE  Spec => []BacklogExact
<1>1. Inv => BacklogExact
  <2> SUFFICES ASSUME Inv PROVE BacklogExact
    OBVIOUS
  <2>1. backlog \in 0 .. Budget /\ Budget \in Nat
    BY ProcessorAssumption DEF Inv, Recording, Base, TypeInv, TypeOK
  <2>2. QED BY <2>1 DEF Inv, Exact, BacklogExact
<1>2. QED BY <1>1, BacklogInvariant, PTL

(***************************************************************************)
(* The pipeline implements CaptureSession.                                 *)
(***************************************************************************)
(* The abstract module counts as this one does. *)
LEMMA SameCardinality == \A S : Session!Cardinality(S) = Cardinality(S)
BY DEF Session!Cardinality, Cardinality

LEMMA SessionInit == Init => Session!Init
<1> SUFFICES ASSUME Init PROVE Session!Init
  OBVIOUS
<1>1. Recording BY BaseInit, DrainedInit DEF Recording
<1>2. Held = {} BY <1>1, Flushed DEF Init, Open
<1>3. QED BY <1>2 DEF Init, Session!Init

LEMMA FlushedNext == (Recording /\ ~Open => Held = {})'
<1>1. Recording /\ ~Open => Held = {} BY Flushed
<1>2. QED BY <1>1, PTL

LEMMA SessionStep ==
  ASSUME Inv, Inv', [Next]_vars
  PROVE  [Session!Next]_(Session!sessionVars)
<1>1. CASE Keeps
  <2>1. CASE Open' = Open
    BY <1>1, <2>1 DEF Keeps, Open, Session!sessionVars
  <2>2. CASE ~Open /\ Open'
    <3>1. Session!Begin BY <1>1, <2>2 DEF Keeps, Open, Session!Begin
    <3>2. QED BY <3>1 DEF Session!Next
  <2>3. CASE Open /\ ~Open'
    <3>1. Held' = {} BY <2>3, FlushedNext DEF Inv
    <3>2. Session!End BY <1>1, <2>3, <3>1 DEF Keeps, Open, Session!End
    <3>3. QED BY <3>2 DEF Session!Next
  <2>4. QED BY <2>1, <2>2, <2>3 DEF Open
<1>2. ASSUME NEW f, LetsIn(f) PROVE Session!Next
  <2>1. Cardinality(Held) < Budget
    BY <1>2, ProcessorAssumption
    DEF LetsIn, hasRoom, Inv, Exact, Recording, Base, TypeInv, TypeOK
  <2>2. f \in Frames /\ f \notin Held \cup disk \cup lost
    BY <1>2 DEF LetsIn, Known
  <2>3. /\ Open /\ Open' /\ Held' = Held \cup {f}
        /\ UNCHANGED <<disk, lost>>
    BY <1>2 DEF LetsIn
  <2>4. Session!Accept(f)
    BY <2>1, <2>2, <2>3, SameCardinality DEF Open, Session!Accept
  <2>5. QED BY <2>2, <2>4 DEF Session!Next
<1>3. ASSUME NEW S \in SUBSET Held, LetsGo(S) PROVE Session!Next
  <2>1. Session!Write(S) BY <1>3 DEF LetsGo, Open, Session!Write
  <2>2. QED BY <2>1 DEF Session!Next
<1>4. QED BY <1>1, <1>2, <1>3, MovesStep DEF Inv

(* The pipeline, with all its queues and threads, implements the abstract  *)
(* session: an accepted frame is new, is held within the budget, leaves    *)
(* once, for the disk or as a failed write, and the session ends only when *)
(* none is left.                                                           *)
THEOREM PipelineImplementsSession ==
  ASSUME Writers # {}, ~ModeWhileRunning,
         StartMayFail => "BUFFER" \notin Modes
  PROVE  Spec => ImplementsSession
<1>1. Inv /\ Inv' /\ [Next]_vars => [Session!Next]_(Session!sessionVars)
  BY SessionStep
<1>2. QED
  BY <1>1, SessionInit, BacklogInvariant, PTL
  DEF Spec, ImplementsSession, Session!Spec

(***************************************************************************)
(* What a trigger result names is written, given room in the budget for    *)
(* every frame.                                                            *)
(***************************************************************************)
LEMMA FramesCount ==
  IsFiniteSet(Frames) /\ Cardinality(Frames) <= NumCameras * MaxFrames
<1> DEFINE P == Cameras \X (1 .. MaxFrames)
           g == [p \in P |-> [cam |-> p[1], n |-> p[2]]]
<1>1. IsFiniteSet(Cameras) /\ Cardinality(Cameras) = NumCameras
  BY ProcessorAssumption, FS_Interval DEF Cameras
<1>2. IsFiniteSet(1 .. MaxFrames) /\ Cardinality(1 .. MaxFrames) = MaxFrames
  BY ProcessorAssumption, FS_Interval
<1>3. IsFiniteSet(P) /\ Cardinality(P) = NumCameras * MaxFrames
  BY <1>1, <1>2, FS_Product
<1>4. g \in [P -> Frames] BY DEF Frames
<1>5. \A f \in Frames : \E p \in P : g[p] = f
  <2> SUFFICES ASSUME NEW f \in Frames PROVE \E p \in P : g[p] = f
    OBVIOUS
  <2>1. f.cam \in Cameras /\ f.n \in 1 .. MaxFrames BY DEF Frames
  <2>2. <<f.cam, f.n>> \in P BY <2>1
  <2>3. g[<<f.cam, f.n>>] = [cam |-> f.cam, n |-> f.n] BY <2>2
  <2>4. [cam |-> f.cam, n |-> f.n] = f BY DEF Frames
  <2>5. QED BY <2>2, <2>3, <2>4
<1> HIDE DEF P, g
<1>6. g \in Surjection(P, Frames) BY <1>4, <1>5, Fun_IsSurj
<1>7. QED BY <1>3, <1>6, FS_Surjection

(* The room there is for a frame not held yet.                             *)
LEMMA RoomForAll ==
  ASSUME Inv, NumCameras * MaxFrames <= Budget, NEW f \in Frames, f \notin Held
  PROVE  hasRoom
<1>1. Held \cup {f} \subseteq Frames BY HeldFrames DEF Inv, Recording, Base
<1>2. /\ IsFiniteSet(Held) /\ backlog = Cardinality(Held)
      /\ Cardinality(Held \cup {f}) = Cardinality(Held) + 1
  BY FS_AddElement DEF Inv, Exact
<1>3. Cardinality(Held \cup {f}) <= Cardinality(Frames)
  BY <1>1, FramesCount, FS_Subset
<1>4. /\ Cardinality(Held) \in Nat /\ Cardinality(Frames) \in Nat
      /\ NumCameras * MaxFrames \in Nat /\ Budget \in Nat
  BY <1>2, FramesCount, FS_CardinalityType, ProcessorAssumption
<1> DEFINE m == NumCameras * MaxFrames
<1>5. Cardinality(Frames) <= m /\ m <= Budget /\ m \in Nat
  BY <1>4, FramesCount
<1> HIDE DEF m
<1>6. QED BY <1>2, <1>3, <1>4, <1>5 DEF hasRoom

(* A frame that is or will be accepted.                                    *)
Safe(f) ==
  f \in Known \/ \E d \in Cameras : cap[d].pc = "reserve" /\ f \in cap[d].f

(* What triggers have captured to save is safe, from the capture to the    *)
(* answer.                                                                 *)
CapturesSafe ==
  /\ config.save_frames =>
       \A t \in pending_trigger : \A f \in t.captures : Safe(f)
  /\ \A c \in Cameras : \A r \in cap[c].done :
       r.save => \A f \in r.captures : Safe(f)
  /\ \A i \in DOMAIN acks : acks[i].save => \A f \in acks[i].captures : Safe(f)

LEMMA ReserveWaits ==
  ASSUME TypeInv, [Next]_vars, NEW d \in Cameras, cap[d].pc = "reserve"
  PROVE  cap'[d] = cap[d] \/ reserve(d)
<1> USE DEF TypeInv, CapOK, ctlVars, queueVars, trigVars, detVars, slotVars,
            camVars, resetVars, threadVars, readVars, histVars, fileVars
<1>1. ASSUME NEW c \in Cameras, copyFrame(c) PROVE cap'[d] = cap[d]
  BY <1>1 DEF copyFrame, Idle
<1>2. ASSUME NEW c \in Cameras, saveFrame_Ignored(c) PROVE cap'[d] = cap[d]
  BY <1>2 DEF saveFrame_Ignored, Captured
<1>3. ASSUME NEW c \in Cameras, saveFrame_Record(c) PROVE cap'[d] = cap[d]
  BY <1>3 DEF saveFrame_Record, Captured
<1>4. ASSUME NEW c \in Cameras, saveFrame_Trigger(c) PROVE cap'[d] = cap[d]
  <2>1. c # d BY <1>4 DEF saveFrame_Trigger, Captured
  <2>2. QED BY <1>4, <2>1, TriggerMoves
<1>5. ASSUME NEW c \in Cameras, saveFrame_Detect(c) PROVE cap'[d] = cap[d]
  BY <1>5 DEF saveFrame_Detect, Captured
<1>6. ASSUME NEW c \in Cameras, reserve(c) PROVE cap'[d] = cap[d] \/ reserve(d)
  BY <1>6 DEF reserve
<1>7. ASSUME NEW c \in Cameras, push(c) PROVE cap'[d] = cap[d]
  BY <1>7 DEF push
<1>8. ASSUME NEW c \in Cameras, ack(c) PROVE cap'[d] = cap[d]
  BY <1>8 DEF ack
<1>9. CASE UNCHANGED cap BY <1>9
<1>10. QED
  BY <1>1, <1>2, <1>3, <1>4, <1>5, <1>6, <1>7, <1>8, <1>9
  DEF Next, vars, Command, Handler, Worker, Callback, Writer, saveFrame,
      configure, start, startNone, stopCameras, resetFrameCounts,
      handleTriggerCapture, armTrigger, checkCaptureFeasibility, allStarted,
      unwound, startCamera, queueRequestFails, stopCamera, flushBufferedFrames,
      stop, joinWorker, stopWriters, joinWriters, resetFramesSavedCounts,
      getDetectedFrame, takePending, workerExit, processDetection,
      pushDetection, publishDetection, takeTask, writeTask, writerExit

LEMMA KnownGrows ==
  ASSUME Inv, [Next]_vars, NEW f \in Known PROVE f \in Known'
<1>1. CASE Keeps BY <1>1 DEF Keeps, Known
<1>2. ASSUME NEW g, LetsIn(g) PROVE f \in Known' BY <1>2 DEF LetsIn, Known
<1>3. ASSUME NEW S \in SUBSET Held, LetsGo(S) PROVE f \in Known'
  BY <1>3 DEF LetsGo, Known
<1>4. QED BY <1>1, <1>2, <1>3, MovesStep DEF Inv

LEMMA SafeStays ==
  ASSUME Inv, NumCameras * MaxFrames <= Budget, [Next]_vars, NEW f, Safe(f)
  PROVE  Safe(f)'
<1>1. TypeInv /\ Fresh BY DEF Inv, Recording, Base
<1>2. CASE f \in Known
  <2>1. f \in Known' BY <1>2, KnownGrows
  <2>2. QED BY <2>1 DEF Safe
<1>3. ASSUME NEW d \in Cameras, cap[d].pc = "reserve", f \in cap[d].f
      PROVE  Safe(f)'
  <2>1. CASE cap'[d] = cap[d] BY <1>3, <2>1 DEF Safe
  <2>2. CASE reserve(d)
    <3>1. f = FrameOf(d) /\ f \in Frames BY <1>1, <1>3, <2>2, ReservedPast
    <3>2. f \notin Held BY <1>1, <1>3, <3>1, ReservedNew DEF Known
    <3>3. hasRoom BY <3>1, <3>2, RoomForAll
    <3>4. InHand(d)' = {FrameOf(d)} BY <1>1, <2>2, <3>3, ReserveEffect
    <3>5. f \in Held' BY <3>1, <3>4, HeldIs
    <3>6. QED BY <3>5 DEF Safe, Known
  <2>3. QED BY <1>1, <1>3, <2>1, <2>2, ReserveWaits
<1>4. QED BY <1>2, <1>3 DEF Safe

(* A frame a trigger gains is on its way to the backlog, if it is saved.   *)
LEMMA CapturesMove ==
  ASSUME TypeInv, NEW c \in Cameras, saveFrame_Trigger(c)
  PROVE  /\ \A u \in pending_trigger' : \E t \in pending_trigger :
              \A f \in u.captures :
                \/ f \in t.captures
                \/ config.save_frames =>
                     cap'[c].pc = "reserve" /\ f \in cap'[c].f
         /\ \A r \in cap'[c].done : \E t \in pending_trigger :
              \A f \in r.captures :
                \/ f \in t.captures
                \/ config.save_frames =>
                     cap'[c].pc = "reserve" /\ f \in cap'[c].f
         /\ \A r \in cap'[c].done : r.save = config.save_frames
<1>1. PICK f \in Frames : Captured(c, f) /\ handleTriggerFrame(c, f)
  BY DEF saveFrame_Trigger
<1>2. cap \in [Cameras -> CapStates] /\ pending_trigger \subseteq Triggers
  BY DEF TypeInv, CapOK, TrigOK
<1>3. CASE cap' = [cap EXCEPT ![c] = Idle] /\ UNCHANGED pending_trigger
  BY <1>2, <1>3, IdleType
<1>4. ASSUME NEW t \in pending_trigger, cap' = [cap EXCEPT ![c] = Idle],
             pending_trigger' = {[t EXCEPT !.waiting[c] = @ - 1]}
      PROVE  /\ cap'[c].done = {}
             /\ \A u \in pending_trigger' : u.captures = t.captures
  <2>1. Skipped(t, c).captures = t.captures BY <1>2, SkippedType
  <2>2. QED BY <1>2, <1>4, <2>1, IdleType DEF Skipped
<1>5. ASSUME NEW t \in pending_trigger, capture(t, c, f)
      PROVE  /\ \A u \in pending_trigger' : u.captures = t.captures \cup {f}
             /\ \A r \in cap'[c].done :
                  /\ r.captures = t.captures \cup {f}
                  /\ r.save = config.save_frames
             /\ config.save_frames => cap'[c].pc = "reserve" /\ f \in cap'[c].f
  <2> DEFINE task == Task(t, c, f)
             v == Taken(t, c, f)
             r == Result(v, FALSE)
  <2>1. /\ cap' = [cap EXCEPT ![c] =
                     IF config.save_frames THEN task ELSE Finish(task)]
        /\ pending_trigger' = IF LastOf(t, c, f) THEN {} ELSE {v}
    BY <1>2, <1>5, CaptureIs
  <2>2. v \in Triggers /\ v.captures = t.captures \cup {f}
    <3>1. t \in Triggers BY <1>2
    <3>2. QED BY <3>1, TakenType
  <2> HIDE DEF v
  <2>3. r \in Results BY <2>2, ResultType DEF TypeInv
  <2>4. r.captures = v.captures /\ r.save = config.save_frames BY DEF Result
  <2> HIDE DEF r
  <2>5. /\ task \in CapStates /\ task.pc = "reserve" /\ f \in task.f
        /\ \A x \in task.done : x = r
    BY <2>3 DEF Task, CapStates, r, v
  <2> HIDE DEF task
  <2>6. cap'[c].done = task.done BY <1>2, <2>1, <2>5, FinishType
  <2>7. config.save_frames => cap'[c] = task BY <1>2, <2>1
  <2>8. QED BY <2>1, <2>2, <2>4, <2>5, <2>6, <2>7
<1>6. CASE \E t \in pending_trigger :
             /\ pending_trigger' = {[t EXCEPT !.waiting[c] = @ - 1]}
             /\ cap' = [cap EXCEPT ![c] = Idle]
  BY <1>4, <1>6
<1>7. CASE \E t \in pending_trigger : capture(t, c, f)
  <2>1. PICK t \in pending_trigger : capture(t, c, f) BY <1>7
  <2>2. /\ \A u \in pending_trigger' : u.captures = t.captures \cup {f}
        /\ \A r \in cap'[c].done :
             /\ r.captures = t.captures \cup {f}
             /\ r.save = config.save_frames
        /\ config.save_frames => cap'[c].pc = "reserve" /\ f \in cap'[c].f
    BY <1>5, <2>1
  <2>3. QED BY <2>2
<1>8. QED BY <1>1, <1>3, <1>6, <1>7 DEF handleTriggerFrame

LEMMA SafeAnswer ==
  ASSUME acks \in Seq(Results), NEW r \in Results, acks' = Append(acks, r),
         \A f : Safe(f) => Safe(f)',
         \A i \in DOMAIN acks :
           acks[i].save => \A f \in acks[i].captures : Safe(f),
         r.save => \A f \in r.captures : Safe(f)
  PROVE  \A i \in DOMAIN acks' :
           acks'[i].save => \A f \in acks'[i].captures : Safe(f)'
<1>1. /\ Len(acks) \in Nat /\ DOMAIN acks = 1 .. Len(acks)
      /\ DOMAIN acks' = 1 .. Len(acks) + 1
      /\ \A i \in 1 .. Len(acks) : acks'[i] = acks[i]
      /\ acks'[Len(acks) + 1] = r
  OBVIOUS
<1>2. \A i \in 1 .. Len(acks) + 1 : i \in 1 .. Len(acks) \/ i = Len(acks) + 1
  BY <1>1
<1>3. QED BY <1>1, <1>2

(* The mode is set between sessions. *)
LEMMA ConfigKept ==
  ASSUME ~ModeWhileRunning, [Next]_vars
  PROVE  UNCHANGED config \/ phase = "configured"
BY DEF Next, configure, vars, Command, Handler, Worker, Callback, Writer,
       saveFrame, start, startNone, stopCameras, resetFrameCounts,
       handleTriggerCapture, armTrigger, checkCaptureFeasibility, allStarted,
       unwound, startCamera, queueRequestFails, stopCamera,
       flushBufferedFrames, stop, joinWorker, stopWriters, joinWriters,
       resetFramesSavedCounts, copyFrame, saveFrame_Ignored, saveFrame_Record,
       saveFrame_Trigger, saveFrame_Detect, reserve, push, ack,
       getDetectedFrame, takePending, workerExit, processDetection,
       pushDetection, publishDetection, takeTask, writeTask, writerExit,
       ctlVars, queueVars, trigVars, detVars, slotVars, camVars, resetVars,
       threadVars, readVars, histVars, fileVars

LEMMA CapturesSafeStep ==
  ASSUME Inv, ~ModeWhileRunning, NumCameras * MaxFrames <= Budget,
         CapturesSafe, [Next]_vars
  PROVE  CapturesSafe'
<1>1. TypeInv /\ ArmedWhileOpen BY DEF Inv, Recording, Base
<1>2. \A f : Safe(f) => Safe(f)' BY SafeStays
<1>3. acks \in Seq(Results) /\ cap \in [Cameras -> CapStates]
  BY <1>1 DEF TypeInv, TrigOK, CapOK
<1>4. CASE start
  <2>1. pending_trigger' = {} /\ UNCHANGED <<cap, acks>> BY <1>4 DEF start
  <2>2. QED BY <1>2, <2>1 DEF CapturesSafe
<1>5. CASE handleTriggerCapture
  <2>1. PICK skip \in Skips, ids \in SUBSET Cameras : armTrigger(ids, skip)
    BY <1>5 DEF handleTriggerCapture
  <2>2. \A t \in pending_trigger' : t.captures = {} BY <2>1 DEF armTrigger
  <2>3. UNCHANGED <<cap, acks>> BY <2>1 DEF armTrigger, threadVars
  <2>4. QED BY <1>2, <2>2, <2>3 DEF CapturesSafe
<1>6. CASE stop
  <2>1. /\ pending_trigger' = {} /\ UNCHANGED cap
        /\ \/ UNCHANGED acks
           \/ \E t \in pending_trigger : acks' = Append(acks, Result(t, TRUE))
    BY <1>6 DEF stop, threadVars
  <2>2. CASE UNCHANGED acks BY <1>2, <2>1, <2>2 DEF CapturesSafe
  <2>3. ASSUME NEW t \in pending_trigger, acks' = Append(acks, Result(t, TRUE))
        PROVE  CapturesSafe'
    <3> DEFINE r == Result(t, TRUE)
    <3>1. r \in Results BY <1>1, ResultType DEF TypeInv, TrigOK
    <3>2. r.captures = t.captures /\ r.save = config.save_frames
      BY DEF Result
    <3>3. acks' = Append(acks, r) BY <2>3
    <3> HIDE DEF r
    <3>4. r.save => \A f \in r.captures : Safe(f) BY <3>2 DEF CapturesSafe
    <3>5. \A i \in DOMAIN acks' :
            acks'[i].save => \A f \in acks'[i].captures : Safe(f)'
      BY <1>2, <1>3, <3>1, <3>3, <3>4, SafeAnswer DEF CapturesSafe
    <3>6. QED BY <1>2, <2>1, <3>5 DEF CapturesSafe
  <2>4. QED BY <2>1, <2>2, <2>3
<1>7. ASSUME NEW c \in Cameras, saveFrame_Trigger(c) PROVE CapturesSafe'
  <2>1. /\ UNCHANGED <<acks, config>>
        /\ \A d \in Cameras \ {c} : cap'[d] = cap[d]
    BY <1>1, <1>7, TriggerMoves DEF saveFrame_Trigger, ctlVars
  <2>2. \A f : cap'[c].pc = "reserve" /\ f \in cap'[c].f => Safe(f)'
    BY DEF Safe
  <2>3. ASSUME config.save_frames, NEW u \in pending_trigger',
               NEW f \in u.captures
        PROVE  Safe(f)'
    BY <1>1, <1>2, <1>7, <2>2, <2>3, CapturesMove DEF CapturesSafe
  <2>4. ASSUME NEW d \in Cameras, NEW r \in cap'[d].done, r.save,
               NEW f \in r.captures
        PROVE  Safe(f)'
    <3>1. CASE d = c
      BY <1>1, <1>2, <1>7, <2>2, <2>4, <3>1, CapturesMove DEF CapturesSafe
    <3>2. CASE d # c BY <1>2, <2>1, <2>4, <3>2 DEF CapturesSafe
    <3>3. QED BY <3>1, <3>2
  <2>5. QED BY <1>2, <2>1, <2>3, <2>4 DEF CapturesSafe
<1>8. ASSUME NEW c \in Cameras, ack(c) PROVE CapturesSafe'
  <2>1. PICK r \in cap[c].done : acks' = Append(acks, r) BY <1>8 DEF ack
  <2>2. /\ UNCHANGED <<pending_trigger, config>>
        /\ cap' = [cap EXCEPT ![c] = Idle]
    BY <1>8 DEF ack, ctlVars
  <2>3. r \in Results BY <1>3 DEF CapStates
  <2>4. r.save => \A f \in r.captures : Safe(f) BY DEF CapturesSafe
  <2>5. \A i \in DOMAIN acks' :
          acks'[i].save => \A f \in acks'[i].captures : Safe(f)'
    BY <1>2, <1>3, <2>1, <2>3, <2>4, SafeAnswer DEF CapturesSafe
  <2>6. \A d \in Cameras : cap'[d].done \subseteq cap[d].done
    BY <1>3, <2>2, IdleType
  <2>7. QED BY <1>2, <2>2, <2>5, <2>6 DEF CapturesSafe
<1>9. CASE UNCHANGED trigVars /\ DonesKept
  <2>1. UNCHANGED <<pending_trigger, acks>> BY <1>9 DEF trigVars
  <2>2. UNCHANGED config \/ pending_trigger = {}
    BY <1>1, ConfigKept DEF ArmedWhileOpen
  <2>3. QED BY <1>2, <1>9, <2>1, <2>2 DEF CapturesSafe, DonesKept
<1>10. QED
  BY <1>1, <1>4, <1>5, <1>6, <1>7, <1>8, <1>9, TriggerActors, DonesKeptStep

(* With room for every frame, the files a trigger result names are on disk *)
(* once the cameras have stopped, or their write has failed, though the    *)
(* result may be sent before its frames are queued.                        *)
THEOREM AcksAreWritten ==
  ASSUME Writers # {}, ~ModeWhileRunning,
         StartMayFail => "BUFFER" \notin Modes,
         NumCameras * MaxFrames <= Budget
  PROVE  Spec => []AckedAreWritten
<1>1. Init => CapturesSafe BY IdleType DEF Init, CapturesSafe
<1>2. Inv /\ CapturesSafe /\ [Next]_vars => CapturesSafe'
  BY CapturesSafeStep
<1>3. Inv /\ CapturesSafe => AckedAreWritten
  <2> SUFFICES ASSUME Inv, CapturesSafe, phase = "configured",
                      NEW i \in DOMAIN acks, acks[i].save,
                      NEW f \in acks[i].captures
               PROVE  f \in disk \cup lost
    BY DEF AckedAreWritten
  <2>1. Safe(f) BY DEF CapturesSafe
  <2>2. \A d \in Cameras : cap[d].pc # "reserve"
    BY DEF Inv, Recording, Base, CallbacksOn, Idle
  <2>3. Held = {} BY Flushed DEF Inv, Open
  <2>4. QED BY <2>1, <2>2, <2>3 DEF Safe, Known
<1>4. QED BY <1>1, <1>2, <1>3, BacklogInvariant, PTL DEF Spec
=============================================================================
