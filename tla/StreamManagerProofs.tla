------------------------ MODULE StreamManagerProofs ------------------------
(***************************************************************************)
(* Proofs about one streaming session, for any number of cameras and       *)
(* chunks, any water marks and any behaviour of the commander's session.   *)
(***************************************************************************)
EXTENDS StreamManager, FiniteSetTheorems, WellFoundedInduction, TLAPS

(***************************************************************************)
(* The inductive invariant, one part for each question.                    *)
(***************************************************************************)

(* The streaming thread from its pick of a frame to the end of it. *)
HasFrame == {"begin", "header"} \cup InFrame

(* The thread lives only while a sink is attached: the subscriptions go    *)
(* before the sink, the join before both, and a new thread is started only *)
(* when the old one has been joined.                                       *)
Threads ==
  /\ pc # "off" => streaming_active
  /\ streaming_active => sink
  /\ streaming_active /\ loop = "poll" => ~should_stop /\ pc # "off"
  /\ streaming_cameras # {} => streaming_active /\ loop = "poll"
  /\ loop # "poll" => sink

(* The chunk counter within the frame; what the socket is owed. *)
Chunking ==
  /\ pc \notin InFrame => chunk = 0
  /\ pc \in InFrame => total = Chunks /\ wire = total - chunk

(* A round visits each camera of camera_order once. *)
Round ==
  /\ pc \in {"pick"} \cup HasFrame => checked <= Cardinality(camera_order)
  /\ pc \in HasFrame => checked > 0

(* The messages since the commander congested are at most one for each     *)
(* camera the round has visited; before a chunk is sent there are none.    *)
Yields ==
  /\ Clear(higher) => excess = 0
  /\ pc \in {"pick"} \cup InFrame => excess <= checked
  /\ pc \in {"begin", "header"} => excess < checked
  /\ pc = "data" => excess = 0
  /\ excess <= NumCameras

(* A camera is known to be wanted from the check to the next message.      *)
Prompt ==
  /\ \A c \in streaming_cameras : late[c] = 0
  /\ pc \in HasFrame \ {"chunk"} => late[cam] = 0
  /\ \A c \in Cameras : late[c] <= 1

(* The cameras the round robin has visited since c, c itself first: in     *)
(* the cyclic order of S, from c up to but without t.                      *)
Since(S, c, t) ==
  {d \in S : IF c < t THEN c <= d /\ d < t ELSE c <= d \/ d < t}

(* The thread in a round: from the copy of the subscriptions to the end of *)
(* the frame.                                                              *)
InRound == {"drain", "prio", "pick"} \cup HasFrame

(* A frame of c in waiting has seen at most one frame go out for each      *)
(* camera visited since c; after a change of the subscriptions, which      *)
(* starts the count again, only the one frame the thread had begun.        *)
RoundRobin ==
  /\ \A c \in Cameras \ streaming_cameras : passed[c] = 0
  /\ streaming_cameras # camera_order =>
       \A c \in Cameras :
         passed[c] + (IF pc \in InRound THEN 1 ELSE 0) <= 1
  /\ streaming_cameras = camera_order =>
       \A c \in camera_order :
         passed[c] + (IF pc \in HasFrame THEN 1 ELSE 0)
           <= Cardinality(Since(camera_order, c, turn))

Inv == TypeOK /\ Threads /\ Chunking /\ Round /\ Yields /\ Prompt /\ RoundRobin

(***************************************************************************)
(* The order of the cameras.                                               *)
(***************************************************************************)

(* A set of cameras has a first one. *)
LEMMA MinCamera ==
  ASSUME NEW S \in SUBSET Nat, S # {}
  PROVE  Min(S) \in S /\ \A d \in S : Min(S) <= d
<1>1. PICK x \in S : \A y \in S : ~(<<y, x>> \in OpToRel(<, Nat))
  BY NatLessThanWellFounded, WFMin
<1>2. \A y \in S : x <= y
  <2> SUFFICES ASSUME NEW y \in S PROVE ~(y < x) OBVIOUS
  <2>1. y < x => <<y, x>> \in OpToRel(<, Nat) BY DEF OpToRel
  <2>2. QED BY <1>1, <2>1
<1>3. QED BY <1>2, Zenon DEF Min

LEMMA CameraSets ==
  ASSUME NEW S \in SUBSET Cameras
  PROVE  IsFiniteSet(S) /\ Cardinality(S) \in 0 .. NumCameras
<1>1. IsFiniteSet(Cameras) /\ Cardinality(Cameras) = NumCameras
  BY FS_Interval, StreamAssumption DEF Cameras
<1>2. QED BY <1>1, FS_Subset, FS_CardinalityType, StreamAssumption

LEMMA FirstCamera ==
  ASSUME NEW S \in SUBSET Cameras
  PROVE  /\ First(S) \in Cameras
         /\ S # {} => First(S) \in S /\ \A d \in S : First(S) <= d
<1>1. CASE S = {} BY <1>1, StreamAssumption DEF First, Cameras
<1>2. CASE S # {}
  <2>1. S \in SUBSET Nat BY StreamAssumption DEF Cameras
  <2>2. First(S) = Min(S) BY <1>2 DEF First
  <2>3. Min(S) \in S /\ \A d \in S : Min(S) <= d
    BY <1>2, <2>1, MinCamera
  <2>4. QED BY <2>2, <2>3
<1>3. QED BY <1>1, <1>2

(* The camera after t is the next higher one, or the first of all. *)
LEMMA AfterCamera ==
  ASSUME NEW S \in SUBSET Cameras, NEW t \in S
  PROVE  /\ After(S, t) \in S
         /\ \/ /\ t < After(S, t)
               /\ \A d \in S : d <= t \/ After(S, t) <= d
            \/ /\ \A d \in S : d <= t
               /\ \A d \in S : After(S, t) <= d
<1>1. CASE \E d \in S : d > t
  <2> DEFINE H == {d \in S : d > t}
  <2>1. H \in SUBSET Cameras /\ H # {} BY <1>1
  <2>2. After(S, t) = First(H) BY <1>1 DEF After
  <2>3. First(H) \in H /\ \A d \in H : First(H) <= d BY <2>1, FirstCamera
  <2> HIDE DEF H
  <2>4. \A d \in S : d <= t \/ d \in H BY StreamAssumption DEF Cameras, H
  <2>5. After(S, t) \in S /\ t < After(S, t) BY <2>2, <2>3 DEF H
  <2>6. QED BY <2>2, <2>3, <2>4, <2>5
<1>2. CASE ~ \E d \in S : d > t
  <2>1. After(S, t) = First(S) BY <1>2 DEF After
  <2>2. \A d \in S : d <= t BY <1>2, StreamAssumption DEF Cameras
  <2>3. QED BY <2>1, <2>2, FirstCamera
<1>3. QED BY <1>1, <1>2

(* A visit to t adds t, and nobody else, to the cameras visited since c.   *)
LEMMA SinceAfter ==
  ASSUME NEW S \in SUBSET Cameras, NEW t \in S, NEW c \in S, c # t
  PROVE  /\ t \notin Since(S, c, t)
         /\ Since(S, c, After(S, t)) = Since(S, c, t) \cup {t}
<1> DEFINE u == After(S, t)
<1>1. S \subseteq Int BY StreamAssumption DEF Cameras
<1>2. u \in S /\ \/ t < u /\ \A d \in S : d <= t \/ u <= d
                 \/ (\A d \in S : d <= t) /\ \A d \in S : u <= d
  BY AfterCamera
<1> HIDE DEF u
<1>3. t \notin Since(S, c, t) BY <1>1 DEF Since
<1>4. ASSUME NEW d \in S
      PROVE  d \in Since(S, c, u) <=> d \in Since(S, c, t) \/ d = t
  BY <1>1, <1>2 DEF Since
<1>5. Since(S, c, u) \subseteq S /\ Since(S, c, t) \subseteq S BY DEF Since
<1>6. Since(S, c, u) = Since(S, c, t) \cup {t} BY <1>4, <1>5
<1>7. QED BY <1>3, <1>6 DEF u

LEMMA SinceCount ==
  ASSUME NEW S \in SUBSET Cameras, NEW c \in S, NEW t \in S
  PROVE  /\ IsFiniteSet(Since(S, c, t))
         /\ Cardinality(Since(S, c, t)) \in 1 .. NumCameras
<1>1. Since(S, c, t) \in SUBSET Cameras BY DEF Since
<1>2. c \in Since(S, c, t) BY StreamAssumption DEF Since, Cameras
<1>3. Cardinality(Since(S, c, t)) # 0 BY <1>1, <1>2, CameraSets, FS_EmptySet
<1>4. QED BY <1>1, <1>3, CameraSets, StreamAssumption

(***************************************************************************)
(* The initial state and the steps, one lemma for each part.               *)
(***************************************************************************)
LEMMA InvInit == Init => Inv
<1> SUFFICES ASSUME Init PROVE Inv
  OBVIOUS
<1> USE StreamAssumption DEF Init
<1>1. /\ sink \in BOOLEAN /\ in_backpressure \in BOOLEAN
      /\ has_backpressure \in BOOLEAN /\ header_only_mode \in BOOLEAN
      /\ should_stop \in BOOLEAN /\ streaming_active \in BOOLEAN
      /\ in_progress \in BOOLEAN
  BY Zenon
<1>2. TypeOK BY <1>1 DEF TypeOK, Cameras, NobodyPassed
<1>3. Threads /\ Chunking BY DEF Threads, Chunking, InFrame
<1>4. Round /\ Yields /\ Prompt
  BY DEF Round, Yields, Prompt, HasFrame, InFrame, Cameras
<1>5. RoundRobin BY DEF RoundRobin, InRound, HasFrame, InFrame, NobodyPassed
<1>6. QED BY <1>2, <1>3, <1>4, <1>5 DEF Inv

(* A step of the chunk loop that sends nothing: on to l, or out of it. *)
LEMMA ChunkStepTypes ==
  ASSUME TypeOK, NEW l \in InFrame,
         FrameLost \/ (Goto(l) /\ UNCHANGED frameVars),
         UNCHANGED <<envVars, linkVars, subVars, ctlVars, orderVars, pastVars>>
  PROVE  TypeOK'
<1> USE StreamAssumption
<1> USE DEF TypeOK, envVars, linkVars, subVars, ctlVars, orderVars, pastVars
<1>1. in_progress' \in BOOLEAN BY Zenon DEF FrameLost, frameVars
<1>2. 0 \in Cameras BY DEF Cameras
<1>3. /\ cam' \in Cameras /\ total' \in {0, Chunks}
      /\ chunk' \in 0 .. Chunks - 1 /\ pc' \in {"pick"} \cup InFrame
  BY <1>2 DEF FrameLost, Goto, frameVars
<1>4. QED BY <1>1, <1>3

(* A round with cameras left to check has a camera. *)
LEMMA RoundNotEmpty ==
  ASSUME TypeOK, checked < Cardinality(camera_order)
  PROVE  camera_order # {}
<1>1. checked \in 0 .. NumCameras BY DEF TypeOK
<1>2. QED BY <1>1, FS_EmptySet, StreamAssumption

LEMMA HandBounded ==
  ASSUME TypeOK PROVE Min({buffered + 1, MaxBuffered}) \in 0 .. MaxBuffered
<1>1. {buffered + 1, MaxBuffered} \in SUBSET Nat BY StreamAssumption DEF TypeOK
<1>2. Min({buffered + 1, MaxBuffered}) \in {buffered + 1, MaxBuffered}
  BY <1>1, MinCamera
<1>3. Min({buffered + 1, MaxBuffered}) <= MaxBuffered BY <1>1, MinCamera
<1>4. QED BY <1>2, <1>3, StreamAssumption DEF TypeOK

(* Types need Chunking for the chunk and the debt of the wire, and Round   *)
(* for the number of cameras checked.                                      *)

LEMMA TypeStep == Inv /\ [Next]_vars => TypeOK'
<1> SUFFICES ASSUME Inv, [Next]_vars PROVE TypeOK'
  OBVIOUS
<1> USE StreamAssumption
<1> USE DEF Inv, TypeOK, InFrame, envVars, linkVars, subVars, ctlVars,
            orderVars, frameVars, threadVars, pastVars, Goto
<1>1. CASE setSink
  <2>1. streaming_cameras = {} BY <1>1 DEF setSink, Threads
  <2>2. UNCHANGED <<should_stop, streaming_active, pc, orderVars>>
    BY <1>1, <2>1 DEF setSink, SpawnIf
  <2>3. in_backpressure' \in BOOLEAN /\ has_backpressure' \in BOOLEAN
    BY <1>1, Zenon DEF setSink
  <2>4. QED BY <1>1, <2>2, <2>3 DEF setSink
<1>2. CASE clearSink
  <2>1. should_stop' \in BOOLEAN BY <1>2, Zenon DEF clearSink, stopAllStreaming
  <2>2. QED BY <1>2, <2>1 DEF clearSink, stopAllStreaming, NobodyPassed
<1>3. CASE handleStopCameras
  <2>1. should_stop' \in BOOLEAN
    BY <1>3, Zenon DEF handleStopCameras, stopAllStreaming
  <2>2. QED BY <1>3, <2>1 DEF handleStopCameras, stopAllStreaming, NobodyPassed
<1>4. CASE joinStreaming
  <2>1. /\ streaming_active' \in BOOLEAN /\ in_progress' \in BOOLEAN
        /\ sink' \in BOOLEAN /\ in_backpressure' \in BOOLEAN
    BY <1>4, Zenon DEF joinStreaming
  <2>2. QED BY <1>4, <2>1 DEF joinStreaming
<1>5. ASSUME NEW c \in Cameras, startStreamingCamera(c) PROVE TypeOK'
  <2>1. should_stop' \in BOOLEAN /\ streaming_active' \in BOOLEAN
    BY <1>5, Zenon DEF startStreamingCamera, SpawnIf
  <2>2. /\ camera_order' \in SUBSET Cameras /\ turn' \in Cameras
        /\ camera_order' # {} => turn' \in camera_order'
        /\ checked' \in 0 .. NumCameras /\ pc' \in {"top", pc}
    <3>1. CASE streaming_active
      BY <1>5, <3>1 DEF startStreamingCamera, SpawnIf
    <3>2. CASE ~streaming_active
      <4>1. 0 \in Cameras BY DEF Cameras
      <4>2. QED BY <1>5, <3>2, <4>1 DEF startStreamingCamera, SpawnIf
    <3>3. QED BY <3>1, <3>2
  <2>3. /\ late' \in [Cameras -> Nat] /\ passed' \in [Cameras -> Nat]
        /\ streaming_cameras' \in SUBSET Cameras
        /\ fresh' \in SUBSET streaming_cameras'
        /\ resting' \in SUBSET (streaming_cameras' \cap Paced)
    BY <1>5 DEF startStreamingCamera, NobodyPassed
  <2>4. UNCHANGED <<envVars, linkVars, header_only_mode, loop, frameVars,
                    wire, excess>>
    BY <1>5 DEF startStreamingCamera
  <2>5. QED BY <2>1, <2>2, <2>3, <2>4
<1>6. ASSUME NEW c \in Cameras, stopStreamingCamera(c) PROVE TypeOK'
  <2>1. in_progress' \in BOOLEAN BY <1>6, Zenon DEF stopStreamingCamera
  <2>2. QED BY <1>6, <2>1 DEF stopStreamingCamera, NobodyPassed
<1>7. CASE setHeaderOnlyMode
  <2>1. header_only_mode' \in BOOLEAN BY <1>7, Zenon DEF setHeaderOnlyMode
  <2>2. QED BY <1>7, <2>1 DEF setHeaderOnlyMode
<1>8. CASE drain
  <2> DEFINE Pressure(live) ==
        IF in_backpressure THEN live > LowWater ELSE live > Soft
  <2>1. PICK k \in 0 .. buffered - 1, live \in Nat :
          /\ buffered' = k /\ in_backpressure' = Pressure(live)
          /\ has_backpressure' = IF Pressure(live) # in_backpressure
                                 THEN Pressure(live) ELSE has_backpressure
    BY <1>8 DEF drain
  <2>2. (live > LowWater) \in BOOLEAN /\ (live > Soft) \in BOOLEAN
    OBVIOUS
  <2>3. Pressure(live) \in BOOLEAN BY <2>2, Zenon
  <2> HIDE DEF Pressure
  <2>4. in_backpressure' \in BOOLEAN /\ has_backpressure' \in BOOLEAN
    BY <2>1, <2>3, Zenon
  <2>5. buffered' \in 0 .. MaxBuffered BY <2>1
  <2>6. QED BY <1>8, <2>4, <2>5 DEF drain
<1>9. ASSUME NEW c \in Cameras, publishFrame(c) PROVE TypeOK'
  BY <1>9 DEF publishFrame
<1>10. CASE switchSource BY <1>10 DEF switchSource
<1>11. ASSUME NEW c \in Cameras, periodElapses(c) PROVE TypeOK'
  BY <1>11 DEF periodElapses
<1>12. CASE higherMoves BY <1>12 DEF higherMoves
<1>13. CASE loopTop BY <1>13 DEF loopTop
<1>14. CASE refreshOrder
  <2>1. turn' \in Cameras /\ (camera_order' # {} => turn' \in camera_order')
    BY <1>14, FirstCamera DEF refreshOrder
  <2>2. QED BY <1>14, <2>1 DEF refreshOrder
<1>15. CASE beforeFrame BY <1>15 DEF beforeFrame, drainFails
<1>16. CASE withhold BY <1>16 DEF withhold
<1>17. CASE pickCamera
  <2>1. CASE checked = Cardinality(camera_order) \/ should_stop
    BY <1>17, <2>1 DEF pickCamera
  <2>2. CASE ~(checked = Cardinality(camera_order) \/ should_stop)
    <3>1. checked' \in 0 .. NumCameras
      BY <1>17, <2>2, CameraSets DEF pickCamera, Round
    <3>2. checked < Cardinality(camera_order)
      BY <1>17, <2>2, CameraSets DEF pickCamera, Round
    <3>3. camera_order # {} BY <3>2, RoundNotEmpty
    <3>4. After(camera_order, turn) \in camera_order BY <3>3, AfterCamera
    <3>5. turn' \in camera_order BY <1>17, <2>2, <3>4 DEF pickCamera
    <3>6. passed' \in [Cameras -> Nat] BY <1>17, <2>2 DEF pickCamera
    <3>7. /\ fresh' \in SUBSET streaming_cameras /\ cam' \in Cameras
          /\ total' \in {0, Chunks} /\ pc' \in {"begin", "pick"}
      BY <1>17, <2>2 DEF pickCamera
    <3>8. UNCHANGED <<envVars, linkVars, streaming_cameras, resting,
                      header_only_mode, ctlVars, camera_order, chunk,
                      in_progress, wire, excess, late>>
      BY <1>17 DEF pickCamera
    <3>9. QED BY <3>1, <3>5, <3>6, <3>7, <3>8
  <2>3. QED BY <2>1, <2>2
<1>18. CASE beginTransfer
  <2>1. in_progress' \in BOOLEAN BY <1>18, Zenon DEF beginTransfer
  <2>2. QED BY <1>18, <2>1 DEF beginTransfer
<1>19. CASE sendChunkHeader
  <2>1. Hand(cam, total) /\ sink => buffered' \in 0 .. MaxBuffered
    BY HandBounded DEF Hand
  <2>2. in_progress' \in BOOLEAN
    BY <1>19, Zenon DEF sendChunkHeader, SendFails, FrameLost, FrameSent
  <2>3. /\ late' \in [Cameras -> Nat] /\ excess' \in Nat
        /\ wire' \in 0 .. Chunks
    BY <1>19
    DEF sendChunkHeader, SendFails, FrameLost, FrameSent, Hand, Chunking
  <2>4. passed' \in [Cameras -> Nat]
    BY <1>19 DEF sendChunkHeader, SendFails, FrameLost, FrameSent
  <2>5. resting' \in SUBSET (streaming_cameras \cap Paced)
    BY <1>19 DEF sendChunkHeader, SendFails, FrameLost, FrameSent
  <2>6. /\ cam' \in Cameras /\ total' \in {0, Chunks}
        /\ chunk' \in 0 .. Chunks - 1
        /\ pc' \in {"pick", "top", "chunk"}
    BY <1>19
    DEF sendChunkHeader, SendFails, FrameLost, FrameSent, Chunking, Cameras
  <2>7. /\ buffered' \in 0 .. MaxBuffered
        /\ UNCHANGED <<envVars, sink, in_backpressure, has_backpressure,
                       streaming_cameras, fresh, header_only_mode, ctlVars,
                       orderVars>>
    BY <1>19, <2>1 DEF sendChunkHeader, SendFails
  <2>8. QED BY <2>2, <2>3, <2>4, <2>5, <2>6, <2>7
<1>20. CASE beforeChunk
  BY <1>20, ChunkStepTypes DEF beforeChunk
<1>21. CASE waitPressure
  BY <1>21, ChunkStepTypes DEF waitPressure
<1>22. CASE waitForBufferDrain
  BY <1>22, ChunkStepTypes DEF waitForBufferDrain
<1>23. CASE waitForPriorityClear
  BY <1>23, ChunkStepTypes DEF waitForPriorityClear
<1>24. CASE sendChunkData
  <2>1. Hand(cam, wire - 1) /\ sink => buffered' \in 0 .. MaxBuffered
    BY HandBounded DEF Hand
  <2>2. in_progress' \in BOOLEAN
    BY <1>24, Zenon DEF sendChunkData, SendFails, FrameLost, FrameSent
  <2>3. /\ late' \in [Cameras -> Nat] /\ excess' \in Nat
        /\ wire' \in 0 .. Chunks
    BY <1>24
    DEF sendChunkData, SendFails, FrameLost, FrameSent, Hand,
        Chunking
  <2>4. passed' \in [Cameras -> Nat]
    BY <1>24 DEF sendChunkData, SendFails, FrameLost, FrameSent
  <2>5. resting' \in SUBSET (streaming_cameras \cap Paced)
    BY <1>24 DEF sendChunkData, SendFails, FrameLost, FrameSent
  <2>6. /\ cam' \in Cameras /\ total' \in {0, Chunks}
        /\ chunk' \in 0 .. Chunks - 1
        /\ pc' \in {"pick", "top", "chunk"}
    BY <1>24, SMTT(30)
    DEF sendChunkData, SendFails, FrameLost, FrameSent, Chunking, Cameras
  <2>7. /\ buffered' \in 0 .. MaxBuffered
        /\ UNCHANGED <<envVars, sink, in_backpressure, has_backpressure,
                       streaming_cameras, fresh, header_only_mode, ctlVars,
                       orderVars>>
    BY <1>24, <2>1 DEF sendChunkData, SendFails
  <2>8. QED BY <2>2, <2>3, <2>4, <2>5, <2>6, <2>7
<1>25. CASE UNCHANGED vars BY <1>25 DEF vars
<1>26. QED
  BY <1>1, <1>2, <1>3, <1>4, <1>5, <1>6, <1>7, <1>8, <1>9, <1>10, <1>11,
     <1>12, <1>13, <1>14, <1>15, <1>16, <1>17, <1>18, <1>19, <1>20,
     <1>21, <1>22, <1>23, <1>24, <1>25
  DEF Next, streamingLoop

LEMMA ThreadsStep == Inv /\ [Next]_vars => Threads'
<1> SUFFICES ASSUME Inv, [Next]_vars PROVE Threads'
  OBVIOUS
<1> USE StreamAssumption
<1> USE DEF Inv, TypeOK, Threads, InFrame, envVars, linkVars, subVars,
            ctlVars, orderVars, frameVars, threadVars, pastVars,
            Goto
<1>1. CASE setSink BY <1>1 DEF setSink, SpawnIf
<1>2. CASE clearSink BY <1>2 DEF clearSink, stopAllStreaming
<1>3. CASE handleStopCameras BY <1>3 DEF handleStopCameras, stopAllStreaming
<1>4. CASE joinStreaming BY <1>4 DEF joinStreaming
<1>5. ASSUME NEW c \in Cameras, startStreamingCamera(c) PROVE Threads'
  BY <1>5 DEF startStreamingCamera, SpawnIf
<1>6. ASSUME NEW c \in Cameras, stopStreamingCamera(c) PROVE Threads'
  BY <1>6 DEF stopStreamingCamera
<1>7. CASE setHeaderOnlyMode BY <1>7 DEF setHeaderOnlyMode
<1>8. CASE drain BY <1>8 DEF drain
<1>9. ASSUME NEW c \in Cameras, publishFrame(c) PROVE Threads'
  BY <1>9 DEF publishFrame
<1>10. CASE switchSource BY <1>10 DEF switchSource
<1>11. ASSUME NEW c \in Cameras, periodElapses(c) PROVE Threads'
  BY <1>11 DEF periodElapses
<1>12. CASE higherMoves BY <1>12 DEF higherMoves
<1>13. CASE loopTop BY <1>13 DEF loopTop
<1>14. CASE refreshOrder BY <1>14 DEF refreshOrder
<1>15. CASE beforeFrame BY <1>15 DEF beforeFrame, drainFails
<1>16. CASE withhold BY <1>16 DEF withhold
<1>17. CASE pickCamera BY <1>17 DEF pickCamera
<1>18. CASE beginTransfer BY <1>18 DEF beginTransfer
<1>19. CASE sendChunkHeader
  BY <1>19 DEF sendChunkHeader, SendFails, FrameLost, FrameSent, Hand
<1>20. CASE beforeChunk BY <1>20 DEF beforeChunk, FrameLost
<1>21. CASE waitPressure BY <1>21 DEF waitPressure, FrameLost
<1>22. CASE waitForBufferDrain
  BY <1>22 DEF waitForBufferDrain, FrameLost, drainFails
<1>23. CASE waitForPriorityClear BY <1>23 DEF waitForPriorityClear, FrameLost
<1>24. CASE sendChunkData
  BY <1>24 DEF sendChunkData, SendFails, FrameLost, FrameSent, Hand
<1>25. CASE UNCHANGED vars BY <1>25 DEF vars
<1>26. QED
  BY <1>1, <1>2, <1>3, <1>4, <1>5, <1>6, <1>7, <1>8, <1>9, <1>10, <1>11,
     <1>12, <1>13, <1>14, <1>15, <1>16, <1>17, <1>18, <1>19, <1>20,
     <1>21, <1>22, <1>23, <1>24, <1>25
  DEF Next, streamingLoop

LEMMA ChunkingStep == Inv /\ [Next]_vars => Chunking'
<1> SUFFICES ASSUME Inv, [Next]_vars PROVE Chunking'
  OBVIOUS
<1> USE StreamAssumption
<1> USE DEF Inv, TypeOK, Threads, Chunking, InFrame, envVars, linkVars,
            subVars, ctlVars, orderVars, frameVars, threadVars,
            pastVars, Goto
<1>1. CASE setSink BY <1>1 DEF setSink, SpawnIf
<1>2. CASE clearSink BY <1>2 DEF clearSink, stopAllStreaming
<1>3. CASE handleStopCameras BY <1>3 DEF handleStopCameras, stopAllStreaming
<1>4. CASE joinStreaming BY <1>4 DEF joinStreaming
<1>5. ASSUME NEW c \in Cameras, startStreamingCamera(c) PROVE Chunking'
  BY <1>5 DEF startStreamingCamera, SpawnIf
<1>6. ASSUME NEW c \in Cameras, stopStreamingCamera(c) PROVE Chunking'
  BY <1>6 DEF stopStreamingCamera
<1>7. CASE setHeaderOnlyMode BY <1>7 DEF setHeaderOnlyMode
<1>8. CASE drain BY <1>8 DEF drain
<1>9. ASSUME NEW c \in Cameras, publishFrame(c) PROVE Chunking'
  BY <1>9 DEF publishFrame
<1>10. CASE switchSource BY <1>10 DEF switchSource
<1>11. ASSUME NEW c \in Cameras, periodElapses(c) PROVE Chunking'
  BY <1>11 DEF periodElapses
<1>12. CASE higherMoves BY <1>12 DEF higherMoves
<1>13. CASE loopTop BY <1>13 DEF loopTop
<1>14. CASE refreshOrder BY <1>14 DEF refreshOrder
<1>15. CASE beforeFrame BY <1>15 DEF beforeFrame, drainFails
<1>16. CASE withhold BY <1>16 DEF withhold
<1>17. CASE pickCamera BY <1>17 DEF pickCamera
<1>18. CASE beginTransfer BY <1>18 DEF beginTransfer
<1>19. CASE sendChunkHeader
  BY <1>19 DEF sendChunkHeader, SendFails, FrameLost, FrameSent, Hand
<1>20. CASE beforeChunk BY <1>20 DEF beforeChunk, FrameLost
<1>21. CASE waitPressure BY <1>21 DEF waitPressure, FrameLost
<1>22. CASE waitForBufferDrain
  BY <1>22 DEF waitForBufferDrain, FrameLost, drainFails
<1>23. CASE waitForPriorityClear BY <1>23 DEF waitForPriorityClear, FrameLost
<1>24. CASE sendChunkData
  BY <1>24 DEF sendChunkData, SendFails, FrameLost, FrameSent, Hand
<1>25. CASE UNCHANGED vars BY <1>25 DEF vars
<1>26. QED
  BY <1>1, <1>2, <1>3, <1>4, <1>5, <1>6, <1>7, <1>8, <1>9, <1>10, <1>11,
     <1>12, <1>13, <1>14, <1>15, <1>16, <1>17, <1>18, <1>19, <1>20,
     <1>21, <1>22, <1>23, <1>24, <1>25
  DEF Next, streamingLoop

LEMMA RoundStep == Inv /\ [Next]_vars => Round'
<1> SUFFICES ASSUME Inv, [Next]_vars PROVE Round'
  OBVIOUS
<1> USE StreamAssumption
<1> USE DEF Inv, TypeOK, Threads, Round, HasFrame, InFrame, envVars, linkVars,
            subVars, ctlVars, orderVars, frameVars, threadVars,
            pastVars, Goto
<1>1. CASE setSink BY <1>1 DEF setSink, SpawnIf
<1>2. CASE clearSink BY <1>2 DEF clearSink, stopAllStreaming
<1>3. CASE handleStopCameras BY <1>3 DEF handleStopCameras, stopAllStreaming
<1>4. CASE joinStreaming BY <1>4 DEF joinStreaming
<1>5. ASSUME NEW c \in Cameras, startStreamingCamera(c) PROVE Round'
  BY <1>5 DEF startStreamingCamera, SpawnIf
<1>6. ASSUME NEW c \in Cameras, stopStreamingCamera(c) PROVE Round'
  BY <1>6 DEF stopStreamingCamera
<1>7. CASE setHeaderOnlyMode BY <1>7 DEF setHeaderOnlyMode
<1>8. CASE drain BY <1>8 DEF drain
<1>9. ASSUME NEW c \in Cameras, publishFrame(c) PROVE Round'
  BY <1>9 DEF publishFrame
<1>10. CASE switchSource BY <1>10 DEF switchSource
<1>11. ASSUME NEW c \in Cameras, periodElapses(c) PROVE Round'
  BY <1>11 DEF periodElapses
<1>12. CASE higherMoves BY <1>12 DEF higherMoves
<1>13. CASE loopTop BY <1>13 DEF loopTop
<1>14. CASE refreshOrder BY <1>14 DEF refreshOrder
<1>15. CASE beforeFrame BY <1>15 DEF beforeFrame, drainFails
<1>16. CASE withhold
  BY <1>16, CameraSets DEF withhold
<1>17. CASE pickCamera
  BY <1>17, CameraSets DEF pickCamera
<1>18. CASE beginTransfer BY <1>18 DEF beginTransfer
<1>19. CASE sendChunkHeader
  BY <1>19 DEF sendChunkHeader, SendFails, FrameLost, FrameSent, Hand
<1>20. CASE beforeChunk BY <1>20 DEF beforeChunk, FrameLost
<1>21. CASE waitPressure BY <1>21 DEF waitPressure, FrameLost
<1>22. CASE waitForBufferDrain
  BY <1>22 DEF waitForBufferDrain, FrameLost, drainFails
<1>23. CASE waitForPriorityClear BY <1>23 DEF waitForPriorityClear, FrameLost
<1>24. CASE sendChunkData
  BY <1>24 DEF sendChunkData, SendFails, FrameLost, FrameSent, Hand
<1>25. CASE UNCHANGED vars BY <1>25 DEF vars
<1>26. QED
  BY <1>1, <1>2, <1>3, <1>4, <1>5, <1>6, <1>7, <1>8, <1>9, <1>10, <1>11,
     <1>12, <1>13, <1>14, <1>15, <1>16, <1>17, <1>18, <1>19, <1>20,
     <1>21, <1>22, <1>23, <1>24, <1>25
  DEF Next, streamingLoop

LEMMA YieldsStep == Inv /\ [Next]_vars => Yields'
<1> SUFFICES ASSUME Inv, [Next]_vars PROVE Yields'
  OBVIOUS
<1> USE StreamAssumption
<1> USE DEF Inv, TypeOK, Threads, Round, Yields, Clear, HasFrame, InFrame,
            envVars, linkVars, subVars, ctlVars, orderVars,
            frameVars, threadVars, pastVars, Goto
<1>1. CASE setSink BY <1>1 DEF setSink, SpawnIf
<1>2. CASE clearSink BY <1>2 DEF clearSink, stopAllStreaming
<1>3. CASE handleStopCameras BY <1>3 DEF handleStopCameras, stopAllStreaming
<1>4. CASE joinStreaming BY <1>4 DEF joinStreaming
<1>5. ASSUME NEW c \in Cameras, startStreamingCamera(c) PROVE Yields'
  BY <1>5 DEF startStreamingCamera, SpawnIf
<1>6. ASSUME NEW c \in Cameras, stopStreamingCamera(c) PROVE Yields'
  BY <1>6 DEF stopStreamingCamera
<1>7. CASE setHeaderOnlyMode BY <1>7 DEF setHeaderOnlyMode
<1>8. CASE drain BY <1>8 DEF drain
<1>9. ASSUME NEW c \in Cameras, publishFrame(c) PROVE Yields'
  BY <1>9 DEF publishFrame
<1>10. CASE switchSource BY <1>10 DEF switchSource
<1>11. ASSUME NEW c \in Cameras, periodElapses(c) PROVE Yields'
  BY <1>11 DEF periodElapses
<1>12. CASE higherMoves BY <1>12 DEF higherMoves
<1>13. CASE loopTop BY <1>13 DEF loopTop
<1>14. CASE refreshOrder BY <1>14 DEF refreshOrder
<1>15. CASE beforeFrame BY <1>15 DEF beforeFrame, drainFails
<1>16. CASE withhold BY <1>16 DEF withhold
<1>17. CASE pickCamera
  BY <1>17, CameraSets DEF pickCamera
<1>18. CASE beginTransfer BY <1>18 DEF beginTransfer
<1>19. CASE sendChunkHeader
  BY <1>19, CameraSets
  DEF sendChunkHeader, SendFails, FrameLost, FrameSent, Hand
<1>20. CASE beforeChunk BY <1>20 DEF beforeChunk, FrameLost
<1>21. CASE waitPressure BY <1>21 DEF waitPressure, FrameLost
<1>22. CASE waitForBufferDrain
  BY <1>22 DEF waitForBufferDrain, FrameLost, drainFails
<1>23. CASE waitForPriorityClear BY <1>23 DEF waitForPriorityClear, FrameLost
<1>24. CASE sendChunkData
  BY <1>24, CameraSets
  DEF sendChunkData, SendFails, FrameLost, FrameSent, Hand
<1>25. CASE UNCHANGED vars BY <1>25 DEF vars
<1>26. QED
  BY <1>1, <1>2, <1>3, <1>4, <1>5, <1>6, <1>7, <1>8, <1>9, <1>10, <1>11,
     <1>12, <1>13, <1>14, <1>15, <1>16, <1>17, <1>18, <1>19, <1>20,
     <1>21, <1>22, <1>23, <1>24, <1>25
  DEF Next, streamingLoop

LEMMA PromptStep == Inv /\ [Next]_vars => Prompt'
<1> SUFFICES ASSUME Inv, [Next]_vars PROVE Prompt'
  OBVIOUS
<1> USE StreamAssumption
<1> USE DEF Inv, TypeOK, Threads, Prompt, HasFrame, InFrame, envVars,
            linkVars, subVars, ctlVars, orderVars, frameVars,
            threadVars, pastVars, Goto
<1>1. CASE setSink BY <1>1 DEF setSink, SpawnIf
<1>2. CASE clearSink BY <1>2 DEF clearSink, stopAllStreaming
<1>3. CASE handleStopCameras BY <1>3 DEF handleStopCameras, stopAllStreaming
<1>4. CASE joinStreaming BY <1>4 DEF joinStreaming
<1>5. ASSUME NEW c \in Cameras, startStreamingCamera(c) PROVE Prompt'
  BY <1>5 DEF startStreamingCamera, SpawnIf
<1>6. ASSUME NEW c \in Cameras, stopStreamingCamera(c) PROVE Prompt'
  BY <1>6 DEF stopStreamingCamera
<1>7. CASE setHeaderOnlyMode BY <1>7 DEF setHeaderOnlyMode
<1>8. CASE drain BY <1>8 DEF drain
<1>9. ASSUME NEW c \in Cameras, publishFrame(c) PROVE Prompt'
  BY <1>9 DEF publishFrame
<1>10. CASE switchSource BY <1>10 DEF switchSource
<1>11. ASSUME NEW c \in Cameras, periodElapses(c) PROVE Prompt'
  BY <1>11 DEF periodElapses
<1>12. CASE higherMoves BY <1>12 DEF higherMoves
<1>13. CASE loopTop BY <1>13 DEF loopTop
<1>14. CASE refreshOrder BY <1>14 DEF refreshOrder
<1>15. CASE beforeFrame BY <1>15 DEF beforeFrame, drainFails
<1>16. CASE withhold BY <1>16 DEF withhold
<1>17. CASE pickCamera BY <1>17 DEF pickCamera
<1>18. CASE beginTransfer BY <1>18 DEF beginTransfer
<1>19. CASE sendChunkHeader
  BY <1>19 DEF sendChunkHeader, SendFails, FrameLost, FrameSent, Hand
<1>20. CASE beforeChunk BY <1>20 DEF beforeChunk, FrameLost
<1>21. CASE waitPressure BY <1>21 DEF waitPressure, FrameLost
<1>22. CASE waitForBufferDrain
  BY <1>22 DEF waitForBufferDrain, FrameLost, drainFails
<1>23. CASE waitForPriorityClear BY <1>23 DEF waitForPriorityClear, FrameLost
<1>24. CASE sendChunkData
  BY <1>24 DEF sendChunkData, SendFails, FrameLost, FrameSent, Hand
<1>25. CASE UNCHANGED vars BY <1>25 DEF vars
<1>26. QED
  BY <1>1, <1>2, <1>3, <1>4, <1>5, <1>6, <1>7, <1>8, <1>9, <1>10, <1>11,
     <1>12, <1>13, <1>14, <1>15, <1>16, <1>17, <1>18, <1>19, <1>20,
     <1>21, <1>22, <1>23, <1>24, <1>25
  DEF Next, streamingLoop

(* A step that advances no count and no round. *)
LEMMA RoundRobinKept ==
  ASSUME Inv, UNCHANGED <<streaming_cameras, camera_order, turn>>,
         UNCHANGED passed,
         pc' \in InRound => pc \in InRound, pc' \in HasFrame => pc \in HasFrame
  PROVE  RoundRobin'
<1> USE DEF Inv, TypeOK, RoundRobin
<1>1. streaming_cameras # camera_order =>
        \A c \in Cameras :
          passed[c] + (IF pc' \in InRound THEN 1 ELSE 0) <= 1
  OBVIOUS
<1>2. streaming_cameras = camera_order =>
        \A c \in camera_order :
          passed[c] + (IF pc' \in HasFrame THEN 1 ELSE 0)
            <= Cardinality(Since(camera_order, c, turn))
  <2> SUFFICES ASSUME streaming_cameras = camera_order,
                      NEW c \in camera_order
               PROVE  passed[c] + (IF pc' \in HasFrame THEN 1 ELSE 0)
                        <= Cardinality(Since(camera_order, c, turn))
    OBVIOUS
  <2>1. Cardinality(Since(camera_order, c, turn)) \in Int BY SinceCount
  <2>2. QED BY <2>1, StreamAssumption DEF Cameras
<1>3. QED BY <1>1, <1>2

(* A step that starts the counts again. *)
LEMMA RoundRobinReset ==
  ASSUME TypeOK', passed' = NobodyPassed
  PROVE  RoundRobin'
<1> USE DEF TypeOK
<1>1. \A c \in Cameras : passed'[c] = 0 BY DEF NobodyPassed
<1>2. \A c \in camera_order' :
        Cardinality(Since(camera_order', c, turn')) \in 1 .. NumCameras
  BY SinceCount
<1>3. camera_order' \subseteq Cameras OBVIOUS
<1>4. QED BY <1>1, <1>2, <1>3, StreamAssumption DEF RoundRobin

LEMMA RoundRobinStep == Inv /\ [Next]_vars => RoundRobin'
<1> SUFFICES ASSUME Inv, [Next]_vars PROVE RoundRobin'
  OBVIOUS
<1> USE StreamAssumption
<1> USE DEF Inv, TypeOK, Threads, RoundRobin, InRound, HasFrame, InFrame,
            envVars, linkVars, subVars, ctlVars, orderVars,
            frameVars, threadVars, pastVars, Goto
<1>1. CASE setSink
  <2>1. streaming_cameras = {} BY <1>1 DEF setSink
  <2>2. QED BY <1>1, <2>1, RoundRobinKept DEF setSink, SpawnIf
<1>2. CASE clearSink
  BY <1>2, TypeStep, RoundRobinReset DEF clearSink, stopAllStreaming
<1>3. CASE handleStopCameras
  BY <1>3, TypeStep, RoundRobinReset DEF handleStopCameras, stopAllStreaming
<1>4. CASE joinStreaming
  BY <1>4, RoundRobinKept DEF joinStreaming
<1>5. ASSUME NEW c \in Cameras, startStreamingCamera(c) PROVE RoundRobin'
  <2>1. CASE c \in streaming_cameras
    <3>1. streaming_cameras' = streaming_cameras
      BY <1>5, <2>1 DEF startStreamingCamera
    <3>2. QED BY <1>5, <2>1, <3>1, RoundRobinKept
          DEF startStreamingCamera, SpawnIf
  <2>2. CASE c \notin streaming_cameras
    BY <1>5, <2>2, TypeStep, RoundRobinReset DEF startStreamingCamera
  <2>3. QED BY <2>1, <2>2
<1>6. ASSUME NEW c \in Cameras, stopStreamingCamera(c) PROVE RoundRobin'
  BY <1>6, TypeStep, RoundRobinReset DEF stopStreamingCamera
<1>7. CASE setHeaderOnlyMode
  BY <1>7, RoundRobinKept DEF setHeaderOnlyMode
<1>8. CASE drain
  BY <1>8, RoundRobinKept DEF drain
<1>9. ASSUME NEW c \in Cameras, publishFrame(c) PROVE RoundRobin'
  BY <1>9, RoundRobinKept DEF publishFrame
<1>10. CASE switchSource
  <2>1. \A c \in Cameras : passed'[c] = passed[c] \/ passed'[c] = 0
    BY <1>10 DEF switchSource
  <2>2. UNCHANGED <<streaming_cameras, camera_order, turn, pc>>
    BY <1>10 DEF switchSource
  <2>3. \A c \in camera_order :
          Cardinality(Since(camera_order, c, turn)) \in 1 .. NumCameras
    BY SinceCount
  <2>4. QED BY <2>1, <2>2, <2>3
<1>11. ASSUME NEW c \in Cameras, periodElapses(c) PROVE RoundRobin'
  BY <1>11, RoundRobinKept DEF periodElapses
<1>12. CASE higherMoves
  BY <1>12, RoundRobinKept DEF higherMoves
<1>13. CASE loopTop
  BY <1>13, RoundRobinKept DEF loopTop
<1>14. CASE refreshOrder
  <2>1. CASE streaming_cameras = camera_order
    <3>1. UNCHANGED <<streaming_cameras, camera_order, turn, passed>>
      BY <1>14, <2>1 DEF refreshOrder
    <3>2. pc' \notin HasFrame BY <1>14 DEF refreshOrder
    <3>3. \A c \in camera_order :
            Cardinality(Since(camera_order, c, turn)) \in 1 .. NumCameras
      BY SinceCount
    <3>4. QED BY <2>1, <3>1, <3>2, <3>3
  <2>2. CASE streaming_cameras # camera_order
    <3>1. /\ camera_order' = streaming_cameras /\ UNCHANGED passed
          /\ streaming_cameras' = streaming_cameras
      BY <1>14 DEF refreshOrder
    <3>2. pc' \notin HasFrame BY <1>14 DEF refreshOrder
    <3>3. \A c \in Cameras : passed[c] <= 1 BY <2>2
    <3>4. TypeOK' BY TypeStep
    <3>5. \A c \in camera_order' :
            Cardinality(Since(camera_order', c, turn')) \in 1 .. NumCameras
      BY <3>4, SinceCount
    <3>6. camera_order' \subseteq Cameras BY <3>1
    <3>7. QED BY <3>1, <3>2, <3>3, <3>5, <3>6
  <2>3. QED BY <2>1, <2>2
<1>15. CASE beforeFrame
  BY <1>15, RoundRobinKept DEF beforeFrame
<1>16. CASE withhold
  BY <1>16, RoundRobinKept DEF withhold
<1>17. CASE pickCamera
  <2>1. CASE checked = Cardinality(camera_order) \/ should_stop
    BY <1>17, <2>1, RoundRobinKept DEF pickCamera
  <2>2. CASE ~(checked = Cardinality(camera_order) \/ should_stop)
    <3>1. checked < Cardinality(camera_order)
      BY <1>17, <2>2, CameraSets DEF pickCamera, Round
    <3>2. camera_order # {} BY <3>1, RoundNotEmpty
    <3>3. turn \in camera_order /\ camera_order \subseteq Cameras BY <3>2
    <3>4. /\ UNCHANGED <<streaming_cameras, camera_order>>
          /\ turn' = After(camera_order, turn)
          /\ passed' = [passed EXCEPT ![turn] = 0]
          /\ pc = "pick" /\ pc' \in {"pick", "begin"}
      BY <1>17, <2>2 DEF pickCamera
    <3>5. passed'[turn] = 0 /\
          \A c \in Cameras \ {turn} : passed'[c] = passed[c]
      BY <3>3, <3>4
    <3>6. turn' \in camera_order BY <3>3, <3>4, AfterCamera
    <3>7. ASSUME streaming_cameras = camera_order, NEW c \in camera_order
          PROVE  passed'[c] + 1 <= Cardinality(Since(camera_order, c, turn'))
      <4>1. Cardinality(Since(camera_order, c, turn')) \in 1 .. NumCameras
        BY <3>6, SinceCount
      <4>2. CASE c = turn BY <3>5, <4>1, <4>2
      <4>3. CASE c # turn
        <5>1. /\ turn \notin Since(camera_order, c, turn)
              /\ Since(camera_order, c, turn')
                   = Since(camera_order, c, turn) \cup {turn}
          BY <3>3, <3>4, <4>3, SinceAfter
        <5>2. /\ IsFiniteSet(Since(camera_order, c, turn))
              /\ Cardinality(Since(camera_order, c, turn)) \in Nat
          BY <3>3, SinceCount
        <5>3. Cardinality(Since(camera_order, c, turn'))
                = Cardinality(Since(camera_order, c, turn)) + 1
          BY <5>1, <5>2, FS_AddElement
        <5>4. passed[c] <= Cardinality(Since(camera_order, c, turn))
          BY <3>3, <3>4, <3>7
        <5>5. passed'[c] = passed[c] /\ passed[c] \in Nat
          BY <3>3, <3>5, <4>3
        <5>6. QED BY <5>2, <5>3, <5>4, <5>5
      <4>4. QED BY <4>2, <4>3
    <3>8. streaming_cameras = camera_order =>
            \A c \in camera_order :
              passed'[c] + (IF pc' \in HasFrame THEN 1 ELSE 0)
                <= Cardinality(Since(camera_order, c, turn'))
      <4> SUFFICES ASSUME streaming_cameras = camera_order,
                          NEW c \in camera_order
                   PROVE  passed'[c] + (IF pc' \in HasFrame THEN 1 ELSE 0)
                            <= Cardinality(Since(camera_order, c, turn'))
        OBVIOUS
      <4>1. passed'[c] + 1 <= Cardinality(Since(camera_order, c, turn'))
        BY <3>7
      <4>2. passed'[c] \in Nat BY <3>3, <3>5
      <4>3. Cardinality(Since(camera_order, c, turn')) \in Int
        BY <3>6, SinceCount
      <4>4. QED BY <4>1, <4>2, <4>3
    <3>9. streaming_cameras # camera_order =>
            \A c \in Cameras : passed'[c] + 1 <= 1
      BY <3>4, <3>5
    <3>10. \A c \in Cameras \ streaming_cameras : passed'[c] = 0 BY <3>5
    <3>11. QED BY <3>4, <3>8, <3>9, <3>10
  <2>3. QED BY <2>1, <2>2
<1>18. CASE beginTransfer
  BY <1>18, RoundRobinKept DEF beginTransfer
<1>19. CASE sendChunkHeader
  <2>1. CASE FrameSent /\ sink
    <3>1. pc' = "top" BY <2>1 DEF FrameSent
    <3>2. \A c \in Cameras :
            passed'[c] = IF c \in fresh /\ c \notin resting'
                         THEN passed[c] + 1 ELSE 0
      BY <2>1 DEF FrameSent
    <3>3. UNCHANGED <<streaming_cameras, camera_order, turn>>
      BY <1>19 DEF sendChunkHeader
    <3>4. pc \in HasFrame BY <1>19 DEF sendChunkHeader
    <3>5. \A c \in Cameras : passed'[c] <= passed[c] + 1
      BY <3>2
    <3>6. \A c \in Cameras \ streaming_cameras : passed'[c] = 0
      BY <3>2
    <3>7. streaming_cameras # camera_order =>
            \A c \in Cameras : passed'[c] <= 1
      BY <3>4, <3>5
    <3>8. streaming_cameras = camera_order =>
            \A c \in camera_order :
              passed'[c] <= Cardinality(Since(camera_order, c, turn))
      <4> SUFFICES ASSUME streaming_cameras = camera_order,
                          NEW c \in camera_order
                   PROVE  passed'[c]
                            <= Cardinality(Since(camera_order, c, turn))
        OBVIOUS
      <4>1. Cardinality(Since(camera_order, c, turn)) \in Int BY SinceCount
      <4>2. passed[c] + 1 <= Cardinality(Since(camera_order, c, turn))
        BY <3>4
      <4>3. passed'[c] \in Nat BY <3>2
      <4>4. QED BY <3>5, <4>1, <4>2, <4>3
    <3>9. QED BY <3>1, <3>3, <3>6, <3>7, <3>8, TypeStep
  <2>2. CASE ~(FrameSent /\ sink)
    BY <1>19, <2>2, RoundRobinKept DEF sendChunkHeader, SendFails, FrameLost
  <2>3. QED BY <2>1, <2>2
<1>20. CASE beforeChunk
  BY <1>20, RoundRobinKept DEF beforeChunk, FrameLost
<1>21. CASE waitPressure
  BY <1>21, RoundRobinKept DEF waitPressure, FrameLost
<1>22. CASE waitForBufferDrain
  BY <1>22, RoundRobinKept DEF waitForBufferDrain, FrameLost
<1>23. CASE waitForPriorityClear
  BY <1>23, RoundRobinKept DEF waitForPriorityClear, FrameLost
<1>24. CASE sendChunkData
  <2>1. CASE FrameSent /\ sink
    <3>1. pc' = "top" BY <2>1 DEF FrameSent
    <3>2. \A c \in Cameras :
            passed'[c] = IF c \in fresh /\ c \notin resting'
                         THEN passed[c] + 1 ELSE 0
      BY <2>1 DEF FrameSent
    <3>3. UNCHANGED <<streaming_cameras, camera_order, turn>>
      BY <1>24 DEF sendChunkData
    <3>4. pc \in HasFrame BY <1>24 DEF sendChunkData
    <3>5. \A c \in Cameras : passed'[c] <= passed[c] + 1
      BY <3>2
    <3>6. \A c \in Cameras \ streaming_cameras : passed'[c] = 0
      BY <3>2
    <3>7. streaming_cameras # camera_order =>
            \A c \in Cameras : passed'[c] <= 1
      BY <3>4, <3>5
    <3>8. streaming_cameras = camera_order =>
            \A c \in camera_order :
              passed'[c] <= Cardinality(Since(camera_order, c, turn))
      <4> SUFFICES ASSUME streaming_cameras = camera_order,
                          NEW c \in camera_order
                   PROVE  passed'[c]
                            <= Cardinality(Since(camera_order, c, turn))
        OBVIOUS
      <4>1. Cardinality(Since(camera_order, c, turn)) \in Int BY SinceCount
      <4>2. passed[c] + 1 <= Cardinality(Since(camera_order, c, turn))
        BY <3>4
      <4>3. passed'[c] \in Nat BY <3>2
      <4>4. QED BY <3>5, <4>1, <4>2, <4>3
    <3>9. QED BY <3>1, <3>3, <3>6, <3>7, <3>8, TypeStep
  <2>2. CASE ~(FrameSent /\ sink)
    BY <1>24, <2>2, RoundRobinKept DEF sendChunkData, SendFails, FrameLost
  <2>3. QED BY <2>1, <2>2
<1>25. CASE UNCHANGED vars BY <1>25 DEF vars
<1>26. QED
  BY <1>1, <1>2, <1>3, <1>4, <1>5, <1>6, <1>7, <1>8, <1>9, <1>10, <1>11,
     <1>12, <1>13, <1>14, <1>15, <1>16, <1>17, <1>18, <1>19, <1>20,
     <1>21, <1>22, <1>23, <1>24, <1>25
  DEF Next, streamingLoop

(* The whole invariant holds throughout. *)
THEOREM SessionInvariant == Spec => []Inv
<1>1. Inv /\ [Next]_vars => Inv'
  BY TypeStep, ThreadsStep, ChunkingStep, RoundStep, YieldsStep, PromptStep,
     RoundRobinStep
  DEF Inv
<1>2. QED BY InvInit, <1>1, PTL DEF Spec

(***************************************************************************)
(* What the invariant means for the clients.                               *)
(***************************************************************************)

(* Every variable of the session has its type, the chunk counter and the   *)
(* round robin's index among them.                                         *)
THEOREM SessionTypes == Spec => []TypeOK
<1>1. Inv => TypeOK BY DEF Inv
<1>2. QED BY SessionInvariant, <1>1, PTL

(* A socket receives whole frames, or the beginnings of frames: a chunk is *)
(* on the socket of its header, and the header counted it.                 *)
THEOREM SocketGetsFrames == Spec => []FramesWhole
<1>1. Inv => FramesWhole
  BY DEF Inv, TypeOK, Threads, Chunking, FramesWhole, InFrame
<1>2. QED BY SessionInvariant, <1>1, PTL

(* At most one message of a camera leaves after its subscription ended. *)
THEOREM StopIsPrompt == Spec => []StopStreamPrompt
<1>1. Inv => StopStreamPrompt BY DEF Inv, Prompt, StopStreamPrompt
<1>2. QED BY SessionInvariant, <1>1, PTL

(* The observer's session sends at most one message for each camera while  *)
(* the commander's is congested.                                           *)
THEOREM ObserverGivesWay == Spec => []ObserverYields
<1>1. Inv => ObserverYields BY DEF Inv, Yields, ObserverYields
<1>2. QED BY SessionInvariant, <1>1, PTL

(* The round robin is fair: a frame that is due goes out before every      *)
(* camera has had its turn once more.                                      *)
THEOREM RoundRobinFair == Spec => []NoCameraStarved
<1>1. Inv => NoCameraStarved
  <2> SUFFICES ASSUME Inv, NEW c \in Cameras PROVE passed[c] <= NumCameras
    BY DEF NoCameraStarved
  <2> USE StreamAssumption DEF Inv, TypeOK, RoundRobin
  <2>1. CASE c \notin streaming_cameras BY <2>1
  <2>2. CASE streaming_cameras # camera_order BY <2>2
  <2>3. CASE c \in streaming_cameras /\ streaming_cameras = camera_order
    <3>1. c \in camera_order /\ turn \in camera_order BY <2>3
    <3>2. Cardinality(Since(camera_order, c, turn)) \in 1 .. NumCameras
      BY <3>1, SinceCount
    <3>3. QED BY <2>3, <3>1, <3>2
  <2>4. QED BY <2>1, <2>2, <2>3
<1>2. QED BY SessionInvariant, <1>1, PTL
=============================================================================
