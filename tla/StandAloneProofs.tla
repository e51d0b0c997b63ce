-------------------------- MODULE StandAloneProofs --------------------------
(***************************************************************************)
(* Why the parts that stand alone do what they should, for any number of   *)
(* threads, clients, floors, messages and calculations.                    *)
(***************************************************************************)
EXTENDS FloorTrip, Messages, MessageQueue, SharedWorker, ChatServer, PidPrinter,
        FiniteSetTheorems, DataLemmas

-----------------------------------------------------------------------------
(* FloorTrip: a trip goes to a floor the car serves, which is what keeps   *)
(* its steps in range.                                                     *)

TripTypeOK == start \in FloorText /\ current \in FloorText /\ destination \in FloorText

TripInv ==
    /\ TripTypeOK
    /\ StaysInRange
    /\ Position(Lowest) <= Position(destination)
    /\ Position(destination) <= Position(Highest)

LEMMA PositionType ==
    ASSUME NEW f \in FloorText
    PROVE  Position(f) \in Int
BY DEF FloorText, Position, floor_str_to_int

\* The text of a number is at the place of the number.
LEMMA TextOfNumber ==
    ASSUME NEW i \in Int
    PROVE  floor_int_to_str(i) \in FloorText /\ Position(floor_int_to_str(i)) = i
BY DEF floor_int_to_str, Basement, Storey, FloorText, Position, floor_str_to_int

\* One step goes one floor towards the destination, or nowhere.
LEMMA OneFloor ==
    ASSUME NEW from \in FloorText, NEW to \in FloorText
    PROVE  /\ move_floor(from, to) \in FloorText
           /\ Position(move_floor(from, to)) =
                  IF Position(from) < Position(to) THEN Position(from) + 1
                  ELSE IF Position(from) > Position(to) THEN Position(from) - 1
                  ELSE Position(from)
<1>1. Position(from) \in Int /\ Position(to) \in Int
  BY PositionType
<1>2. move_floor(from, to) =
          IF Position(from) < Position(to) THEN floor_int_to_str(Position(from) + 1)
          ELSE IF Position(from) > Position(to) THEN floor_int_to_str(Position(from) - 1)
          ELSE from
  BY DEF move_floor, Position
<1>3. CASE Position(from) < Position(to)
  <2>1. Position(from) + 1 \in Int
    BY <1>1
  <2> QED BY <1>2, <1>3, <2>1, TextOfNumber
<1>4. CASE Position(from) > Position(to)
  <2>1. Position(from) - 1 \in Int /\ ~(Position(from) < Position(to))
    BY <1>1, <1>4
  <2> QED BY <1>2, <1>4, <2>1, TextOfNumber
<1>5. CASE Position(from) = Position(to)
  BY <1>1, <1>2, <1>5
<1> QED BY <1>1, <1>3, <1>4, <1>5

LEMMA CallKeeps ==
    ASSUME TripInv, NEW to \in Texts, Call(to)
    PROVE  TripInv'
<1>1. to \in FloorText /\ Lowest \in FloorText /\ Highest \in FloorText
  BY FloorTripAssumption
<1>2. /\ Position(Lowest) <= Position(to) /\ Position(to) <= Position(Highest)
      /\ start' = current /\ destination' = to /\ current' = current
  BY DEF Call, can_access_floors, Position
<1>3. Position(to) \in Int /\ Position(current) \in Int
  BY <1>1, PositionType DEF TripInv, TripTypeOK
<1>4. StaysInRange'
  BY <1>2, <1>3 DEF TripInv, StaysInRange
<1> QED BY <1>1, <1>2, <1>4 DEF TripInv, TripTypeOK

LEMMA MoveKeeps ==
    ASSUME TripInv, Move
    PROVE  TripInv'
<1>1. /\ current' = move_floor(current, destination)
      /\ start' = start /\ destination' = destination
  BY DEF Move
<1>2. current \in FloorText /\ destination \in FloorText /\ start \in FloorText
  BY DEF TripInv, TripTypeOK
<1>3. /\ Position(current) \in Int /\ Position(destination) \in Int /\ Position(start) \in Int
      /\ Position(Lowest) \in Int /\ Position(Highest) \in Int
  BY <1>2, FloorTripAssumption, PositionType
<1>4. /\ current' \in FloorText
      /\ Position(current') =
             IF Position(current) < Position(destination) THEN Position(current) + 1
             ELSE IF Position(current) > Position(destination) THEN Position(current) - 1
             ELSE Position(current)
  BY <1>1, <1>2, OneFloor
<1>5. StaysInRange'
  BY <1>1, <1>3, <1>4 DEF TripInv, StaysInRange
<1> QED BY <1>1, <1>2, <1>4, <1>5 DEF TripInv, TripTypeOK

\* If the car's range is one at all, it never leaves it, and a trip never leaves the
\* floors between its two ends, whatever texts name them (car.c, move_floor;
\* controller.c, can_access_floors).
THEOREM NeverOutOfRange ==
    ASSUME Position(Lowest) <= Position(Highest)
    PROVE  TripSpec => []StaysInRange
<1>1. TripInit => TripInv
  <2>1. Position(Lowest) \in Int
    BY FloorTripAssumption, PositionType
  <2> QED BY <2>1, FloorTripAssumption DEF TripInit, TripInv, TripTypeOK, StaysInRange
<1>2. TripInv /\ [TripNext]_tripVars => TripInv'
  <2> SUFFICES ASSUME TripInv, [TripNext]_tripVars PROVE TripInv'
    OBVIOUS
  <2>1. CASE UNCHANGED tripVars
    BY <2>1 DEF tripVars, TripInv, TripTypeOK, StaysInRange
  <2> QED BY <2>1, CallKeeps, MoveKeeps DEF TripNext
<1>3. TripInv => StaysInRange
  BY DEF TripInv
<1> QED BY <1>1, <1>2, <1>3, PTL DEF TripSpec

-----------------------------------------------------------------------------
(* MessageQueue: a single consumer that has found a message still finds    *)
(* one when it loads the position, since only it counts down.              *)

MqPlaces == {"checking", "done", "loading", "storing", "sending", "counting", "closing",
             "receiving", "opening", "late"}

MqInv ==
    /\ position \in Nat /\ register \in [MqThreads -> Nat]
    /\ mqThread \in [MqThreads -> MqPlaces]
    /\ \A c \in MqConsumers : MqConsumers = {c} =>
          /\ mqThread[c] = "loading" => position > 0
          /\ mqThread[c] \in {"storing", "late"} => register[c] > 0

\* A step of one thread leaves what the others have loaded and where they are.
LEMMA MqOthers ==
    ASSUME MqInv, NEW t \in MqThreads, NEW here, NEW there \in MqPlaces, MqMoves(t, here, there)
    PROVE  /\ mqThread' \in [MqThreads -> MqPlaces]
           /\ mqThread[t] = here /\ mqThread'[t] = there
           /\ \A s \in MqThreads : s # t => mqThread'[s] = mqThread[s]
BY DEF MqInv, MqMoves

LEMMA MqChecks ==
    ASSUME MqInv, NEW t \in MqThreads, NEW there \in {"sending", "receiving"}, Checks(t, there)
    PROVE  MqInv'
<1>1. PICK q \in {"sending", "receiving", "done"} : MqMoves(t, "checking", q)
  BY DEF Checks
<1>2. UNCHANGED <<position, register>>
  BY DEF Checks, fieldVars
<1> QED BY <1>1, <1>2, MqOthers DEF MqInv, MqThreads, MqPlaces

LEMMA MqLoads ==
    ASSUME MqInv, NEW t \in MqThreads, Loads(t)
    PROVE  MqInv'
<1>1. /\ MqMoves(t, "loading", "storing")
      /\ register' = [register EXCEPT ![t] = position] /\ position' = position
  BY DEF Loads, fieldVars
<1> QED BY <1>1, MqOthers DEF MqInv, MqThreads, MqPlaces

LEMMA MqProduces ==
    ASSUME MqInv, NEW t \in MqProducers, FindsRoom(t) \/ StoresUp(t) \/ Counts(t) \/ Closes(t)
    PROVE  MqInv'
<1>1. t \in MqThreads /\ t \notin MqConsumers /\ \A c \in MqConsumers : c \in MqThreads /\ c # t
  BY MessageQueueAssumption DEF MqThreads
<1>2. /\ position' \in Nat
      /\ position' = position \/ position' > 0
      /\ register' \in [MqThreads -> Nat]
      /\ \A s \in MqThreads : s # t => register'[s] = register[s]
  BY <1>1 DEF MqInv, FindsRoom, StoresUp, Counts, Closes, fieldVars
<1>3. /\ mqThread' \in [MqThreads -> MqPlaces]
      /\ \A s \in MqThreads : s # t => mqThread'[s] = mqThread[s]
  BY <1>1, MqOthers DEF FindsRoom, StoresUp, Counts, Closes, MqPlaces
<1>4. \A c \in MqConsumers : mqThread'[c] = mqThread[c] /\ register'[c] = register[c]
  BY <1>1, <1>2, <1>3
<1> QED BY <1>2, <1>3, <1>4 DEF MqInv

LEMMA MqConsumes ==
    ASSUME MqInv, NEW t \in MqConsumers, FindsMessage(t) \/ StoresDown(t) \/ Opens(t)
    PROVE  MqInv'
<1>1. t \in MqThreads
  BY DEF MqThreads
<1>2. CASE FindsMessage(t)
  <2>1. MqMoves(t, "receiving", "loading") /\ position # 0 /\ UNCHANGED <<position, register>>
    BY <1>2 DEF FindsMessage, fieldVars
  <2> QED BY <1>1, <2>1, MqOthers DEF MqInv, MqThreads, MqPlaces
<1>3. CASE StoresDown(t)
  <2>1. PICK here \in {"storing", "late"}, q \in {"opening", "checking"} : MqMoves(t, here, q)
    BY <1>3 DEF StoresDown
  <2>2. position' \in Nat /\ register' = [register EXCEPT ![t] = 0]
    BY <1>1, <1>3 DEF StoresDown, MqInv
  <2> QED BY <1>1, <2>1, <2>2, MqOthers DEF MqInv, MqThreads, MqPlaces
<1>4. CASE Opens(t)
  <2>1. UNCHANGED <<position, register>>
    BY <1>4 DEF Opens
  <2>2. CASE MqMoves(t, "opening", "checking")
    BY <1>1, <2>1, <2>2, MqOthers DEF MqInv, MqThreads, MqPlaces
  <2>3. CASE MqMoves(t, "storing", "late")
    BY <1>1, <2>1, <2>3, MqOthers DEF MqInv, MqThreads, MqPlaces
  <2> QED BY <1>4, <2>2, <2>3 DEF Opens
<1> QED BY <1>2, <1>3, <1>4

\* A single consumer never reads in front of the buffer, whatever updates the producers
\* lose or undo, however many they are and however large the buffer is (msgq.c:90-101).
THEOREM SingleConsumer == MqSpec => []NeverUnderruns
<1>1. MqInit => MqInv
  BY DEF MqInit, MqInv, MqPlaces, MqThreads
<1>2. MqInv /\ [MqNext]_mqVars => MqInv'
  <2> SUFFICES ASSUME MqInv, [MqNext]_mqVars PROVE MqInv'
    OBVIOUS
  <2>1. CASE MqLaunch \/ HitEnter \/ MqJoins \/ UNCHANGED mqVars
    BY <2>1 DEF MqLaunch, HitEnter, MqJoins, mqVars, fieldVars, MqInv
  <2>2. ASSUME NEW t \in MqThreads, MqStep(t) PROVE MqInv'
    BY <2>2, MqLoads, MqChecks, MqProduces, MqConsumes DEF MqStep
  <2> QED BY <2>1, <2>2 DEF MqNext
<1>3. MqInv => NeverUnderruns
  BY DEF MqInv, NeverUnderruns
<1> QED BY <1>1, <1>2, <1>3, PTL DEF MqSpec

-----------------------------------------------------------------------------
(* SharedWorker: a request is in one place at a time - posted, in work, or *)
(* answered - and from when it was worked on the result is its result.     *)

AtWork == worker \in {"computing", "posting"}

ResultThere == operation # Quit => result = operation

WorkerInv ==
    /\ controller_semaphore \in Nat /\ worker_semaphore \in Nat
    /\ controller # "awaiting" => /\ controller_semaphore = 0 /\ worker_semaphore = 0 /\ ~AtWork
    /\ controller = "awaiting" =>
          \/ controller_semaphore = 1 /\ worker_semaphore = 0 /\ ~AtWork
          \/ controller_semaphore = 0 /\ worker_semaphore = 0 /\ worker = "computing"
          \/ controller_semaphore = 0 /\ worker_semaphore = 0 /\ worker = "posting" /\ ResultThere
          \/ controller_semaphore = 0 /\ worker_semaphore = 1 /\ ~AtWork /\ ResultThere
    /\ controller = "reading" => ResultThere

LEMMA WorkerInvariance == WorkerInv /\ [WorkerNext]_workerVars => WorkerInv'
<1> SUFFICES ASSUME WorkerInv, [WorkerNext]_workerVars PROVE WorkerInv'
  OBVIOUS
<1> USE DEF WorkerInv, AtWork, ResultThere, Quit
<1>1. CASE UNCHANGED workerVars
  BY <1>1 DEF workerVars, segmentVars
<1>2. CASE ForkFails \/ \E leftover \in {"none", "old"} : Fork(leftover)
  BY <1>2 DEF ForkFails, Fork, Controller, Worker, segmentVars
<1>3. CASE CreateUnlinks \/ CreateOpens \/ CreateSizes \/ CreateInitialises
  BY <1>3 DEF CreateUnlinks, CreateOpens, CreateSizes, CreateInitialises, Controller, segmentVars
<1>4. CASE Ask
  BY <1>4 DEF Ask, Controller
<1>5. CASE Answered
  BY <1>5 DEF Answered, Controller
<1>6. CASE ReadResult \/ Destroy
  BY <1>6 DEF ReadResult, Destroy, Controller, segmentVars
<1>7. CASE GetShared \/ Unmap
  BY <1>7 DEF GetShared, Unmap, Worker, segmentVars
<1>8. CASE WaitForWork
  BY <1>8 DEF WaitForWork, Worker
<1>9. CASE Compute
  BY <1>9 DEF Compute, Worker
<1>10. CASE PostAnswer
  BY <1>10 DEF PostAnswer, Worker
<1> QED BY <1>1, <1>2, <1>3, <1>4, <1>5, <1>6, <1>7, <1>8, <1>9, <1>10
        DEF WorkerNext, ControllerStep, WorkerStep

\* Each result the controller reads is that of the calculation it asked for, however
\* many there are and whenever the worker comes to the segment (shm_ipc.c:148-154,
\* 223-249).
THEOREM ResultsAreAnswers == WorkerSpec => []ResultsMatch
<1>1. WorkerInit => WorkerInv
  BY DEF WorkerInit, WorkerInv, AtWork
<1>2. WorkerInv /\ [WorkerNext]_workerVars => WorkerInv'
  BY WorkerInvariance
<1>3. WorkerInv => ResultsMatch
  BY DEF WorkerInv, ResultsMatch, ResultThere
<1> QED BY <1>1, <1>2, <1>3, PTL DEF WorkerSpec

-----------------------------------------------------------------------------
(* ChatServer: rows and the threads that will clear them are counted by    *)
(* descriptor.  Whatever adds a row adds a thread, and a thread that ends  *)
(* takes a row of its number along if there is one.                        *)

ChatPlaces == {"absent", "calling", "naming", "serving", "receiving", "sending", "clearing",
               "over"}
Serves     == {"serving", "receiving", "sending", "clearing"}

RowsWith(d)   == {r \in Rows : client_sockets[r] = d}
ServedWith(d) == {c \in ChatClients : fd[c] = d /\ handler[c] \in Serves}

ChatInv ==
    /\ client_sockets \in [Rows -> Descriptors \cup {0}]
    /\ fd \in [ChatClients -> Descriptors \cup {0}]
    /\ handler \in [ChatClients -> ChatPlaces]
    /\ NoStaleRows

LEMMA ChatCounts ==
    ASSUME NEW d
    PROVE  /\ IsFiniteSet(RowsWith(d)) /\ IsFiniteSet(ServedWith(d))
           /\ Cardinality(RowsWith(d)) \in Nat /\ Cardinality(ServedWith(d)) \in Nat
<1>1. IsFiniteSet(Rows) /\ IsFiniteSet(ChatClients)
  BY ChatAssumption, FS_Interval DEF Rows, ChatClients
<1>2. IsFiniteSet(RowsWith(d)) /\ IsFiniteSet(ServedWith(d))
  BY <1>1, FS_Subset DEF RowsWith, ServedWith
<1> QED BY <1>2, FS_CardinalityType

LEMMA NoStale ==
    NoStaleRows <=> \A d \in Descriptors : Cardinality(RowsWith(d)) <= Cardinality(ServedWith(d))
BY DEF NoStaleRows, RowsWith, ServedWith, Serves

\* A step that adds no row and takes no thread away.
LEMMA ChatGrows ==
    ASSUME ChatInv,
           \A d \in Descriptors : RowsWith(d)' \subseteq RowsWith(d),
           \A d \in Descriptors : ServedWith(d) \subseteq ServedWith(d)'
    PROVE  NoStaleRows'
<1>1. ASSUME NEW d \in Descriptors
      PROVE  Cardinality(RowsWith(d)') <= Cardinality(ServedWith(d)')
  <2> DEFINE rows == RowsWith(d)'
             served == ServedWith(d)'
  <2>1. IsFiniteSet(served)
    <3>1. IsFiniteSet(ChatClients)
      BY ChatAssumption, FS_Interval DEF ChatClients
    <3> QED BY <3>1, FS_Subset DEF ServedWith
  <2>2. rows \subseteq RowsWith(d) /\ ServedWith(d) \subseteq served
    OBVIOUS
  <2>3. Cardinality(RowsWith(d)) <= Cardinality(ServedWith(d))
    BY NoStale DEF ChatInv, ChatPlaces
  <2> HIDE DEF rows, served
  <2>4. Cardinality(rows) <= Cardinality(RowsWith(d)) /\ Cardinality(rows) \in Nat
    BY <2>2, ChatCounts, FS_Subset, FS_CardinalityType
  <2>5. Cardinality(ServedWith(d)) <= Cardinality(served) /\ Cardinality(served) \in Nat
    BY <2>1, <2>2, FS_Subset, FS_CardinalityType
  <2>6. Cardinality(rows) <= Cardinality(served)
    BY <2>3, <2>4, <2>5, ChatCounts
  <2> QED BY <2>6 DEF rows, served
<1> QED BY <1>1 DEF NoStaleRows, RowsWith, ServedWith, Serves

\* The smallest of some numbers is one of them.
LEMMA MinOf ==
    ASSUME NEW S \in SUBSET Nat, S # {}
    PROVE  Min(S) \in S
BY LeastNat DEF Min

LEMMA RegisterKeeps ==
    ASSUME ChatInv, NEW c \in ChatClients, Register(c)
    PROVE  ChatInv'
<1>1. /\ handler[c] = "naming" /\ handler' = [handler EXCEPT ![c] = "serving"]
      /\ fd' = fd
  BY DEF Register, Goes
<1>2. CASE FreeRows = {}
  <2>1. client_sockets' = client_sockets
    BY <1>2 DEF Register
  <2>2. \A d \in Descriptors : RowsWith(d)' \subseteq RowsWith(d)
    BY <2>1 DEF RowsWith
  <2>3. \A d \in Descriptors : ServedWith(d) \subseteq ServedWith(d)'
    BY <1>1 DEF ServedWith, Serves, ChatInv
  <2> QED BY <1>1, <2>1, <2>2, <2>3, ChatGrows DEF ChatInv, ChatPlaces
<1>3. CASE FreeRows # {}
  <2>1. PICK r \in Rows : /\ client_sockets[r] = 0
                          /\ client_sockets' = [client_sockets EXCEPT ![r] = fd[c]]
    <3>1. FreeRows \in SUBSET Nat
      BY ChatAssumption DEF FreeRows, Rows
    <3>2. Min(FreeRows) \in FreeRows
      BY <1>3, <3>1, MinOf
    <3> QED BY <1>3, <3>2 DEF Register, FreeRows
  <2>2. ASSUME NEW d \in Descriptors
        PROVE  Cardinality(RowsWith(d)') <= Cardinality(ServedWith(d)')
    <3>1. Cardinality(RowsWith(d)) <= Cardinality(ServedWith(d))
      BY NoStale DEF ChatInv, ChatPlaces
    <3>2. CASE d = fd[c]
      <4>1. RowsWith(d)' = RowsWith(d) \cup {r} /\ r \notin RowsWith(d)
        BY <2>1, <3>2, ChatAssumption DEF RowsWith, ChatInv
      <4>2. ServedWith(d)' = ServedWith(d) \cup {c} /\ c \notin ServedWith(d)
        BY <1>1, <3>2 DEF ServedWith, Serves, ChatInv
      <4>3. Cardinality(RowsWith(d)') = Cardinality(RowsWith(d)) + 1
        BY <4>1, ChatCounts, FS_AddElement
      <4>4. Cardinality(ServedWith(d)') = Cardinality(ServedWith(d)) + 1
        BY <4>2, ChatCounts, FS_AddElement
      <4> QED BY <3>1, <4>3, <4>4, ChatCounts
    <3>3. CASE d # fd[c]
      <4>1. RowsWith(d)' = RowsWith(d)
        BY <2>1, <3>3, ChatAssumption DEF RowsWith, ChatInv
      <4>2. ServedWith(d)' = ServedWith(d)
        BY <1>1, <3>3 DEF ServedWith, Serves, ChatInv
      <4> QED BY <3>1, <4>1, <4>2
    <3> QED BY <3>2, <3>3
  <2>3. NoStaleRows'
    BY <2>2 DEF NoStaleRows, RowsWith, ServedWith, Serves
  <2> QED BY <1>1, <2>1, <2>3 DEF ChatInv, ChatPlaces
<1> QED BY <1>2, <1>3

LEMMA ClearKeeps ==
    ASSUME ChatInv, NEW c \in ChatClients, Clear(c)
    PROVE  ChatInv'
<1> DEFINE rows == RowsWith(fd[c])
<1>1. /\ handler[c] = "clearing" /\ handler' = [handler EXCEPT ![c] = "over"]
      /\ fd' = fd
  BY DEF Clear, Goes
<1>2. CASE rows = {}
  <2>1. client_sockets' = client_sockets
    BY <1>2 DEF Clear, RowsWith
  <2>2. ASSUME NEW d \in Descriptors
        PROVE  Cardinality(RowsWith(d)') <= Cardinality(ServedWith(d)')
    <3>1. Cardinality(RowsWith(d)) <= Cardinality(ServedWith(d)) /\ RowsWith(d)' = RowsWith(d)
      BY <2>1, NoStale DEF ChatInv, RowsWith
    <3>2. CASE d = fd[c]
      <4>1. ServedWith(d)' = ServedWith(d) \ {c}
        BY <1>1, <3>2 DEF ServedWith, Serves, ChatInv
      <4>2. Cardinality(ServedWith(d)') \in Nat
        BY <4>1, ChatCounts, FS_Subset, FS_CardinalityType
      <4>3. Cardinality(RowsWith(d)') = 0
        BY <1>2, <3>1, <3>2, FS_EmptySet
      <4> QED BY <4>2, <4>3
    <3>3. CASE d # fd[c]
      <4>1. ServedWith(d)' = ServedWith(d)
        BY <1>1, <3>3 DEF ServedWith, Serves, ChatInv
      <4> QED BY <3>1, <4>1
    <3> QED BY <3>2, <3>3
  <2>3. NoStaleRows'
    BY <2>2 DEF NoStaleRows, RowsWith, ServedWith, Serves
  <2> QED BY <1>1, <2>1, <2>3 DEF ChatInv, ChatPlaces
<1>3. CASE rows # {}
  <2>1. PICK r \in Rows : /\ client_sockets[r] = fd[c]
                          /\ client_sockets' = [client_sockets EXCEPT ![r] = 0]
    <3>1. rows \in SUBSET Nat
      BY ChatAssumption DEF RowsWith, Rows
    <3>2. Min(rows) \in rows
      BY <1>3, <3>1, MinOf
    <3> QED BY <1>3, <3>2 DEF Clear, RowsWith
  <2>2. ASSUME NEW d \in Descriptors
        PROVE  Cardinality(RowsWith(d)') <= Cardinality(ServedWith(d)')
    <3>1. Cardinality(RowsWith(d)) <= Cardinality(ServedWith(d))
      BY NoStale DEF ChatInv, ChatPlaces
    <3>2. CASE d = fd[c]
      <4>1. RowsWith(d)' = RowsWith(d) \ {r} /\ r \in RowsWith(d)
        BY <2>1, <3>2, ChatAssumption DEF RowsWith, ChatInv
      <4>2. ServedWith(d)' = ServedWith(d) \ {c} /\ c \in ServedWith(d)
        BY <1>1, <3>2 DEF ServedWith, Serves, ChatInv
      <4>3. Cardinality(RowsWith(d)') = Cardinality(RowsWith(d)) - 1
        BY <4>1, ChatCounts, FS_RemoveElement
      <4>4. Cardinality(ServedWith(d)') = Cardinality(ServedWith(d)) - 1
        BY <4>2, ChatCounts, FS_RemoveElement
      <4> QED BY <3>1, <4>3, <4>4, ChatCounts
    <3>3. CASE d # fd[c]
      <4>1. RowsWith(d)' = RowsWith(d)
        BY <2>1, <3>3, ChatAssumption DEF RowsWith, ChatInv
      <4>2. ServedWith(d)' = ServedWith(d)
        BY <1>1, <3>3 DEF ServedWith, Serves, ChatInv
      <4> QED BY <3>1, <4>1, <4>2
    <3> QED BY <3>2, <3>3
  <2>3. NoStaleRows'
    BY <2>2 DEF NoStaleRows, RowsWith, ServedWith, Serves
  <2> QED BY <1>1, <2>1, <2>3 DEF ChatInv, ChatPlaces
<1> QED BY <1>2, <1>3

\* A thread that goes from one place to another, outside or inside the chat.
LEMMA ThreadGoes ==
    ASSUME ChatInv, NEW c \in ChatClients, NEW here, NEW there \in ChatPlaces,
           handler[c] = here, handler' = [handler EXCEPT ![c] = there],
           here \in Serves => there \in Serves,
           fd' = fd, client_sockets' = client_sockets
    PROVE  ChatInv'
<1>1. \A d \in Descriptors : RowsWith(d)' \subseteq RowsWith(d)
  BY DEF RowsWith
<1>2. \A d \in Descriptors : ServedWith(d) \subseteq ServedWith(d)'
  BY DEF ServedWith, ChatInv
<1> QED BY <1>1, <1>2, ChatGrows DEF ChatInv, ChatPlaces

LEMMA AcceptKeeps ==
    ASSUME ChatInv, NEW c \in ChatClients, Accept(c)
    PROVE  ChatInv'
<1> DEFINE free == {d \in Descriptors : fds[d] = None}
<1>1. handler[c] = "absent" /\ client_sockets' = client_sockets
  BY DEF Accept, tableVars
<1>2. \A d \in Descriptors : RowsWith(d)' \subseteq RowsWith(d)
  BY <1>1 DEF RowsWith
<1>3. CASE free = {}
  <2>1. UNCHANGED <<handler, fd>>
    BY <1>3 DEF Accept
  <2>2. \A d \in Descriptors : ServedWith(d) \subseteq ServedWith(d)'
    BY <2>1 DEF ServedWith
  <2> QED BY <1>1, <1>2, <2>1, <2>2, ChatGrows DEF ChatInv, ChatPlaces
<1>4. CASE free # {}
  <2>1. Min(free) \in Descriptors
    <3>1. free \in SUBSET Nat
      BY ChatAssumption
    <3> QED BY <1>4, <3>1, MinOf
  <2>2. fd' = [fd EXCEPT ![c] = Min(free)] /\ handler' = [handler EXCEPT ![c] = "calling"]
    BY <1>4 DEF Accept
  <2>3. \A d \in Descriptors : ServedWith(d) \subseteq ServedWith(d)'
    BY <1>1, <2>2 DEF ServedWith, Serves, ChatInv
  <2>4. fd' \in [ChatClients -> Descriptors \cup {0}] /\ handler' \in [ChatClients -> ChatPlaces]
    BY <2>1, <2>2 DEF ChatInv, ChatPlaces
  <2> QED BY <1>1, <1>2, <2>3, <2>4, ChatGrows DEF ChatInv, ChatPlaces
<1> QED BY <1>3, <1>4

LEMMA SendRowKeeps ==
    ASSUME ChatInv, SendRow \/ Unblock
    PROVE  ChatInv'
<1>1. fd' = fd /\ handler' = handler
  BY DEF SendRow, Unblock, threadVars
<1>2. \/ client_sockets' = client_sockets
      \/ client_sockets' = [client_sockets EXCEPT ![cursor] = 0]
  BY DEF SendRow, Unblock, DropRow
<1>3. \A d \in Descriptors : RowsWith(d)' \subseteq RowsWith(d)
  BY <1>2, ChatAssumption DEF RowsWith, ChatInv
<1>4. \A d \in Descriptors : ServedWith(d) \subseteq ServedWith(d)'
  BY <1>1 DEF ServedWith
<1>5. client_sockets' \in [Rows -> Descriptors \cup {0}]
  BY <1>2 DEF ChatInv, ChatPlaces
<1> QED BY <1>1, <1>3, <1>4, <1>5, ChatGrows DEF ChatInv, ChatPlaces

LEMMA ClientKeeps ==
    ASSUME ChatInv, NEW c \in ChatClients, Listens(c) \/ Finishes(c) \/ ClientStep(c)
    PROVE  ChatInv'
<1>1. CASE Listens(c)
  BY <1>1, ThreadGoes DEF Listens, CallRecv, Goes, Serves, tableVars, ChatPlaces
<1>2. CASE Register(c) BY <1>2, RegisterKeeps
<1>3. CASE Close(c)
  BY <1>3, ThreadGoes DEF Close, Goes, Serves, tableVars, ChatPlaces
<1>4. CASE Clear(c) BY <1>4, ClearKeeps
<1>5. CASE Accept(c) BY <1>5, AcceptKeeps
<1>6. CASE Leaves(c)
  BY <1>6 DEF Leaves, threadVars, tableVars, ChatInv, NoStaleRows
<1>7. CASE RejectName(c)
  BY <1>7, ThreadGoes DEF RejectName, Goes, Serves, tableVars, ChatPlaces
<1>8. CASE Broadcast(c)
  BY <1>8, ThreadGoes DEF Broadcast, Goes, Serves, ChatPlaces
<1> QED BY <1>1, <1>2, <1>3, <1>4, <1>5, <1>6, <1>7, <1>8 DEF Finishes, ClientStep

LEMMA ChatInvariance == ChatInv /\ [ChatNext]_chatVars => ChatInv'
<1> SUFFICES ASSUME ChatInv, [ChatNext]_chatVars PROVE ChatInv'
  OBVIOUS
<1>1. CASE ChatLaunch \/ Block \/ UNCHANGED chatVars
  BY <1>1 DEF ChatLaunch, Block, chatVars, threadVars, tableVars, ChatInv, NoStaleRows
<1>2. CASE SendRow \/ Unblock BY <1>2, SendRowKeeps
<1>3. CASE EndBroadcast
  <2>1. /\ handler' = [handler EXCEPT ![sender] = "serving"]
        /\ fd' = fd /\ client_sockets' = client_sockets
    BY <1>3 DEF EndBroadcast
  <2>2. \A d \in Descriptors : RowsWith(d)' \subseteq RowsWith(d)
    BY <2>1 DEF RowsWith
  <2>3. \A d \in Descriptors : ServedWith(d) \subseteq ServedWith(d)'
    BY <2>1 DEF ServedWith, Serves, ChatInv
  <2>4. handler' \in [ChatClients -> ChatPlaces]
    BY <2>1 DEF ChatInv, ChatPlaces
  <2> QED BY <2>1, <2>2, <2>3, <2>4, ChatGrows DEF ChatInv, ChatPlaces
<1>4. CASE \E c \in ChatClients : Listens(c) \/ Finishes(c) \/ ClientStep(c)
  BY <1>4, ClientKeeps
<1> QED BY <1>1, <1>2, <1>3, <1>4 DEF ChatNext

\* No row outlives its client, however many clients, rows and descriptors there are,
\* although descriptors are closed before rows are cleared and given out again in
\* between (server.c:74, 91-98).
THEOREM RowsAreCleared == ChatSpec => []NoStaleRows
<1>1. ChatInit => ChatInv
  <2> SUFFICES ASSUME ChatInit PROVE ChatInv
    OBVIOUS
  <2>1. \A d \in Descriptors : RowsWith(d) = {} /\ d # 0
    BY ChatAssumption DEF ChatInit, RowsWith
  <2>2. \A d \in Descriptors : Cardinality(RowsWith(d)) <= Cardinality(ServedWith(d))
    BY <2>1, ChatCounts, FS_EmptySet
  <2> QED BY <2>2, NoStale DEF ChatInit, ChatInv, ChatPlaces
<1>2. ChatInv /\ [ChatNext]_chatVars => ChatInv'
  BY ChatInvariance
<1>3. ChatInv => NoStaleRows
  BY DEF ChatInv, ChatPlaces
<1> QED BY <1>1, <1>2, <1>3, PTL DEF ChatSpec

-----------------------------------------------------------------------------
(* PidPrinter: whoever prints has the semaphore and the buffer, and the    *)
(* line on the screen is his from its first character on.                  *)

Width    == LineLength + 1
Start(k) == k * Width                \* how many characters there are in k lines
Line(i)  == (i - 1) \div Width       \* the line of a character

\* After k whole lines come p characters of c, and nothing else.
LineBegun(k, p, c) ==
    /\ k \in Nat /\ Len(screen) = Start(k) + p
    /\ \A i \in 1 .. Len(screen) : i > Start(k) => screen[i] = c

PrinterInv ==
    /\ screen \in Seq(Nat)
    /\ child \in [ForkedChildren -> {"unborn", "born", "printing", "done"}]
    /\ ptr \in [ForkedChildren -> 0 .. LineLength]
    /\ child_process_lock \in {0, 1}
    /\ \A c \in ForkedChildren :
          /\ child[c] \in {"unborn", "born"} => ptr[c] = 0
          /\ child[c] = "printing" =>
                /\ child_process_lock = 0 /\ lineBuffer = c
                /\ \E k \in Nat : LineBegun(k, ptr[c], c)
    /\ child_process_lock = 1 => \E k \in Nat : Len(screen) = Start(k)
    /\ LinesAreWhole

LEMMA Widths ==
    /\ LineLength \in Nat /\ Width \in Nat /\ Width > 0 /\ Width = LineLength + 1
    /\ \A k \in Nat : Start(k) \in Nat /\ Start(k + 1) = Start(k) + Width
BY PidPrinterAssumption DEF Width, Start

\* A character joins the line that was begun, and no earlier one.
LEMMA SameLine ==
    ASSUME NEW k \in Nat, NEW p \in 0 .. LineLength, NEW n \in Nat, n = Start(k) + p,
           NEW i \in 1 .. n, Line(i) = Line(n + 1)
    PROVE  i > Start(k)
<1>1. Width \in Nat /\ Width > 0 /\ p < Width
  BY Widths
<1>2. n = k * Width + p
  BY DEF Start
<1>3. n \div Width = k
  BY <1>1, <1>2, Rounds
<1>4. Line(n + 1) = k
  BY <1>3 DEF Line
<1>5. SUFFICES ASSUME ~(i > Start(k)) PROVE FALSE
  OBVIOUS
<1>6. i - 1 \in Nat /\ i - 1 < k * Width
  BY <1>5, Widths DEF Start
<1>7. (i - 1) \div Width < k
  BY <1>1, <1>6, FewerRounds
<1>8. Line(i) = k
  BY <1>4
<1> QED BY <1>7, <1>8 DEF Line

\* Printing the next character of the line that was begun.
LEMMA PrintsOn ==
    ASSUME screen \in Seq(Nat), LinesAreWhole, NEW k \in Nat, NEW p \in 0 .. LineLength,
           NEW c \in Nat, LineBegun(k, p, c), screen' = Append(screen, c)
    PROVE  /\ screen' \in Seq(Nat) /\ LinesAreWhole' /\ Len(screen') = Start(k) + p + 1
           /\ \A i \in 1 .. Len(screen') : i > Start(k) => screen'[i] = c
<1> DEFINE n == Len(screen)
<1>1. n \in Nat /\ n = Start(k) + p
  BY DEF LineBegun
<1>2. /\ screen' \in Seq(Nat) /\ Len(screen') = n + 1 /\ screen'[n + 1] = c
      /\ \A i \in 1 .. n : screen'[i] = screen[i]
  BY AppendProperties
<1>3. \A i \in 1 .. n : i > Start(k) => screen[i] = c
  BY DEF LineBegun
<1>4. \A i, j \in 1 .. n : Line(i) = Line(j) => screen[i] = screen[j]
  BY DEF LinesAreWhole, Line, Width
<1> HIDE DEF n
<1>5. \A i \in 1 .. n : Line(i) = Line(n + 1) => screen[i] = c
  BY <1>1, <1>3, SameLine
<1>6. \A i, j \in 1 .. n + 1 : Line(i) = Line(j) => screen'[i] = screen'[j]
  <2> SUFFICES ASSUME NEW i \in 1 .. n + 1, NEW j \in 1 .. n + 1, Line(i) = Line(j)
               PROVE  screen'[i] = screen'[j]
    OBVIOUS
  <2>1. CASE i \in 1 .. n /\ j \in 1 .. n
    BY <1>2, <1>4, <2>1
  <2>2. CASE i = n + 1 /\ j \in 1 .. n
    BY <1>2, <1>5, <2>2
  <2>3. CASE i \in 1 .. n /\ j = n + 1
    BY <1>2, <1>5, <2>3
  <2>4. CASE i = n + 1 /\ j = n + 1
    BY <2>4
  <2>5. (i \in 1 .. n \/ i = n + 1) /\ (j \in 1 .. n \/ j = n + 1)
    BY <1>1
  <2> QED BY <2>1, <2>2, <2>3, <2>4, <2>5
<1>7. LinesAreWhole'
  <2>1. DOMAIN screen' = 1 .. n + 1
    BY <1>2
  <2> QED BY <1>6, <2>1 DEF LinesAreWhole, Line, Width
<1>8. \A i \in 1 .. n + 1 : i > Start(k) => screen'[i] = c
  BY <1>1, <1>2, <1>3
<1> QED BY <1>1, <1>2, <1>7, <1>8, Widths

LEMMA TakeLockKeeps ==
    ASSUME PrinterInv, NEW c \in ForkedChildren, TakeLock(c)
    PROVE  PrinterInv'
<1>1. /\ child[c] = "born" /\ child' = [child EXCEPT ![c] = "printing"] /\ lineBuffer' = c
      /\ child_process_lock = 1 /\ child_process_lock' = 0 /\ ptr' = ptr /\ screen' = screen
  BY DEF TakeLock, ChildGoes, PrinterInv
<1>2. PICK k \in Nat : Len(screen) = Start(k)
  BY <1>1 DEF PrinterInv
<1>3. LineBegun(k, ptr[c], c)' /\ ptr[c] = 0
  <2>1. ptr[c] = 0
    BY <1>1 DEF PrinterInv
  <2>2. Start(k) \in Nat
    BY Widths
  <2>3. Len(screen) = Start(k) + 0 /\ \A i \in 1 .. Len(screen) : ~(i > Start(k))
    BY <1>2, <2>2
  <2> QED BY <1>1, <2>1, <2>3 DEF LineBegun
<1>4. \A d \in ForkedChildren : child'[d] = "printing" => d = c
  BY <1>1 DEF PrinterInv
<1>5. LinesAreWhole'
  BY <1>1 DEF PrinterInv, LinesAreWhole
<1> QED BY <1>1, <1>3, <1>4, <1>5 DEF PrinterInv

LEMMA PrintCharacterKeeps ==
    ASSUME PrinterInv, NEW c \in ForkedChildren, PrintCharacter(c)
    PROVE  PrinterInv'
<1>1. /\ child[c] = "printing" /\ child' = child /\ lineBuffer = c /\ lineBuffer' = c
      /\ child_process_lock = 0 /\ child_process_lock' = 0
      /\ ptr[c] < LineLength /\ ptr' = [ptr EXCEPT ![c] = ptr[c] + 1]
      /\ screen' = Append(screen, c)
  BY DEF PrintCharacter, PrinterInv
<1>2. PICK k \in Nat : LineBegun(k, ptr[c], c)
  BY <1>1 DEF PrinterInv
<1>3. c \in Nat /\ ptr[c] \in 0 .. LineLength /\ LineLength \in Nat
  BY PidPrinterAssumption DEF ForkedChildren, PrinterInv
<1>4. /\ screen' \in Seq(Nat) /\ LinesAreWhole' /\ Len(screen') = Start(k) + ptr[c] + 1
      /\ \A i \in 1 .. Len(screen') : i > Start(k) => screen'[i] = c
  BY <1>1, <1>2, <1>3, PrintsOn DEF PrinterInv
<1>5. ptr'[c] = ptr[c] + 1 /\ ptr' \in [ForkedChildren -> 0 .. LineLength]
  BY <1>1, <1>3 DEF PrinterInv
<1>6. LineBegun(k, ptr[c], c)'
  <2>1. Start(k) \in Nat
    BY Widths
  <2>2. Len(screen') = Start(k) + ptr'[c]
    BY <1>3, <1>4, <1>5, <2>1
  <2> QED BY <1>4, <2>2 DEF LineBegun
<1>7. \A d \in ForkedChildren : child[d] = "printing" => d = c
  BY <1>1 DEF PrinterInv
<1>8. \A d \in ForkedChildren : d # c => ptr'[d] = ptr[d]
  BY <1>1 DEF PrinterInv
<1> QED BY <1>1, <1>4, <1>5, <1>6, <1>7, <1>8 DEF PrinterInv

LEMMA EndLineKeeps ==
    ASSUME PrinterInv, NEW c \in ForkedChildren, EndLine(c)
    PROVE  PrinterInv'
<1>1. /\ child[c] = "printing" /\ child' = [child EXCEPT ![c] = "done"]
      /\ child_process_lock = 0 /\ child_process_lock' = 1
      /\ ptr[c] = LineLength /\ ptr' = ptr /\ lineBuffer' = lineBuffer /\ lineBuffer = c
      /\ screen' = Append(screen, c)
  BY DEF EndLine, ChildGoes, PrinterInv
<1>2. PICK k \in Nat : LineBegun(k, ptr[c], c)
  BY <1>1 DEF PrinterInv
<1>3. c \in Nat /\ ptr[c] \in 0 .. LineLength /\ LineLength \in Nat
  BY PidPrinterAssumption DEF ForkedChildren, PrinterInv
<1>4. screen' \in Seq(Nat) /\ LinesAreWhole' /\ Len(screen') = Start(k) + ptr[c] + 1
  BY <1>1, <1>2, <1>3, PrintsOn DEF PrinterInv
<1>5. k + 1 \in Nat /\ Len(screen') = Start(k + 1)
  <2>1. Start(k) \in Nat /\ Start(k + 1) = Start(k) + LineLength + 1
    BY Widths
  <2> QED BY <1>1, <1>3, <1>4, <2>1
<1>6. \A d \in ForkedChildren : child'[d] # "printing"
  BY <1>1 DEF PrinterInv
<1>7. child' \in [ForkedChildren -> {"unborn", "born", "printing", "done"}]
      /\ \A d \in ForkedChildren : child'[d] \in {"unborn", "born"} => child[d] \in {"unborn", "born"}
  BY <1>1 DEF PrinterInv
<1> QED BY <1>1, <1>4, <1>5, <1>6, <1>7 DEF PrinterInv

\* What touches neither the screen nor whoever prints.
LEMMA ParentKeeps ==
    ASSUME PrinterInv, StartForking \/ ParentStep \/ BirthFails \/ UNCHANGED printerVars
    PROVE  PrinterInv'
<1>1. UNCHANGED <<child_process_lock, lineBuffer, ptr, screen>>
  BY DEF StartForking, ParentStep, WaitChild, ForkChild, BirthFails, printerVars, printingVars
<1>2. /\ child' \in [ForkedChildren -> {"unborn", "born", "printing", "done"}]
      /\ \A c \in ForkedChildren :
            \/ child'[c] = child[c]
            \/ child[c] = "unborn" /\ child'[c] = "born"
  BY DEF StartForking, ParentStep, WaitChild, ForkChild, ChildGoes, BirthFails, printerVars,
         printingVars, PrinterInv
<1>3. LinesAreWhole'
  BY <1>1 DEF LinesAreWhole, PrinterInv
<1>4. ASSUME NEW k, NEW p, NEW c PROVE LineBegun(k, p, c)' <=> LineBegun(k, p, c)
  BY <1>1 DEF LineBegun
<1>5. \A c \in ForkedChildren :
          /\ child'[c] \in {"unborn", "born"} => ptr'[c] = 0
          /\ child'[c] = "printing" =>
                /\ child_process_lock' = 0 /\ lineBuffer' = c
                /\ \E k \in Nat : LineBegun(k, ptr[c], c)'
  BY <1>1, <1>2, <1>4 DEF PrinterInv
<1> QED BY <1>1, <1>2, <1>3, <1>5 DEF PrinterInv

\* The lines of any number of children of any length do not mix on the screen
\* (print_pid.c:123-134).
THEOREM LinesStayWhole == PrinterSpec => []LinesAreWhole
<1>1. PrinterInit => PrinterInv
  <2> SUFFICES ASSUME PrinterInit PROVE PrinterInv
    OBVIOUS
  <2>1. 0 \in Nat /\ Len(screen) = Start(0) /\ screen \in Seq(Nat)
    BY Widths DEF PrinterInit, Start
  <2>2. LinesAreWhole
    BY DEF PrinterInit, LinesAreWhole
  <2> QED BY <2>1, <2>2, Widths DEF PrinterInit, PrinterInv
<1>2. PrinterInv /\ [PrinterNext]_printerVars => PrinterInv'
  <2> SUFFICES ASSUME PrinterInv, [PrinterNext]_printerVars PROVE PrinterInv'
    OBVIOUS
  <2>1. CASE StartForking \/ ParentStep \/ BirthFails \/ UNCHANGED printerVars
    BY <2>1, ParentKeeps
  <2>2. CASE \E c \in ForkedChildren : ChildStep(c)
    BY <2>2, TakeLockKeeps, PrintCharacterKeeps, EndLineKeeps DEF ChildStep
  <2> QED BY <2>1, <2>2 DEF PrinterNext
<1>3. PrinterInv => LinesAreWhole
  BY DEF PrinterInv
<1> QED BY <1>1, <1>2, <1>3, PTL DEF PrinterSpec

-----------------------------------------------------------------------------
(* Messages: the units that are written form one stream, in which every    *)
(* message has its place.  `begins' tells after how many units each one    *)
(* starts; what is written, in flight or read is a piece of that stream.   *)

Units == Contents \X Nat

FrameSize(text) == HeaderSize + BodySize[text]

\* The messages of a stream, with the place where each begins and the one where the last ends.
Stream(msgs, begins) ==
    /\ msgs \in Seq(Contents)
    /\ begins \in [1 .. Len(msgs) + 1 -> Nat]
    /\ \A k \in 1 .. Len(msgs) : begins[k + 1] = begins[k] + FrameSize(msgs[k])
    /\ \A j, k \in 1 .. Len(msgs) + 1 : j < k => begins[j] < begins[k]

\* What the unit at place u of the stream must be if message k covers it.
Covers(begins, k, u) == begins[k] < u /\ u <= begins[k + 1]
UnitAt(msgs, begins, k, u) == <<msgs[k], u - begins[k]>>

\* The units are those behind place `from' of the stream.
Placed(units, from, msgs, begins) ==
    /\ units \in Seq(Units)
    /\ \A j \in 1 .. Len(units) : \A k \in 1 .. Len(msgs) :
          Covers(begins, k, from + j) => units[j] = UnitAt(msgs, begins, k, from + j)

LEMMA FrameSizes ==
    \A text \in Contents : /\ FrameSize(text) \in Nat /\ BodySize[text] \in Nat
                           /\ HeaderSize \in Nat /\ HeaderSize > 0 /\ FrameSize(text) > 0
                           /\ FrameSize(text) = HeaderSize + BodySize[text]
BY MessagesAssumption DEF FrameSize

LEMMA StreamFacts ==
    ASSUME NEW msgs, NEW begins, Stream(msgs, begins), NEW k \in 1 .. Len(msgs)
    PROVE  /\ msgs[k] \in Contents /\ begins[k] \in Nat /\ begins[k + 1] \in Nat
           /\ begins[k + 1] = begins[k] + FrameSize(msgs[k])
BY ElementOfSeq DEF Stream

\* A later message begins no earlier.
LEMMA StartsOrdered ==
    ASSUME NEW msgs, NEW begins, Stream(msgs, begins),
           NEW j \in 1 .. Len(msgs) + 1, NEW k \in 1 .. Len(msgs) + 1, j <= k
    PROVE  begins[j] <= begins[k] /\ begins[j] \in Nat /\ begins[k] \in Nat
<1>1. begins[j] \in Nat /\ begins[k] \in Nat
  BY DEF Stream
<1>2. CASE j = k
  BY <1>1, <1>2
<1>3. CASE j < k
  BY <1>1, <1>3 DEF Stream
<1> QED BY <1>1, <1>2, <1>3

\* The first units of a piece, and the others, are pieces.
LEMMA PieceCut ==
    ASSUME NEW msgs, NEW begins, NEW units, NEW from \in Nat, Placed(units, from, msgs, begins),
           NEW n \in 0 .. Len(units)
    PROVE  /\ Placed(SubSeq(units, 1, n), from, msgs, begins)
           /\ Len(SubSeq(units, 1, n)) = n
           /\ Placed(SubSeq(units, n + 1, Len(units)), from + n, msgs, begins)
           /\ Len(SubSeq(units, n + 1, Len(units))) = Len(units) - n
<1> DEFINE m == Len(units)
           a == SubSeq(units, 1, n)
           b == SubSeq(units, n + 1, m)
<1>1. units \in Seq(Units) /\ m \in Nat /\ n \in Nat /\ \A i \in 1 .. m : units[i] \in Units
  BY ElementOfSeq DEF Placed
<1>2. a \in Seq(Units) /\ Len(a) = n /\ \A i \in 1 .. n : a[i] = units[i]
  BY <1>1, SubSeqProperties
<1>3. b \in Seq(Units) /\ Len(b) = m - n /\ \A i \in 1 .. m - n : b[i] = units[n + i]
  <2>1. b \in Seq(Units) /\ Len(b) = (IF n + 1 <= m THEN m - (n + 1) + 1 ELSE 0)
        /\ \A i \in 1 .. m - (n + 1) + 1 : b[i] = units[n + 1 + i - 1]
    BY <1>1, SubSeqProperties
  <2> HIDE DEF b
  <2> QED BY <1>1, <2>1
<1> HIDE DEF a, b
<1>4. ASSUME NEW j \in 1 .. n, NEW k \in 1 .. Len(msgs), Covers(begins, k, from + j)
      PROVE  a[j] = UnitAt(msgs, begins, k, from + j)
  <2>1. j \in 1 .. m
    BY <1>1
  <2> QED BY <1>2, <1>4, <2>1 DEF Placed
<1>5. ASSUME NEW j \in 1 .. m - n, NEW k \in 1 .. Len(msgs), Covers(begins, k, (from + n) + j)
      PROVE  b[j] = UnitAt(msgs, begins, k, (from + n) + j)
  <2> DEFINE i == n + j
  <2>1. i \in 1 .. m /\ (from + n) + j = from + i
    BY <1>1
  <2>2. b[j] = units[i]
    BY <1>3
  <2> HIDE DEF i
  <2>3. units[i] = UnitAt(msgs, begins, k, from + i)
    BY <1>5, <2>1 DEF Placed
  <2> QED BY <2>1, <2>2, <2>3
<1> QED BY <1>1, <1>2, <1>3, <1>4, <1>5 DEF Placed, a, b

\* Two pieces, one behind the other, are one.
LEMMA PiecesJoin ==
    ASSUME NEW msgs, NEW begins, NEW a, NEW b, NEW from \in Nat, Placed(a, from, msgs, begins),
           Placed(b, from + Len(a), msgs, begins)
    PROVE  Placed(a \o b, from, msgs, begins) /\ Len(a \o b) = Len(a) + Len(b)
<1> DEFINE n == Len(a)
           m == Len(b)
           c == a \o b
<1>1. a \in Seq(Units) /\ b \in Seq(Units) /\ n \in Nat /\ m \in Nat
  BY LenProperties DEF Placed
<1>2. /\ c \in Seq(Units) /\ Len(c) = n + m
      /\ \A i \in 1 .. n + m : c[i] = IF i <= n THEN a[i] ELSE b[i - n]
  BY <1>1, ConcatProperties
<1> HIDE DEF c
<1>3. ASSUME NEW j \in 1 .. n + m, NEW k \in 1 .. Len(msgs), Covers(begins, k, from + j)
      PROVE  c[j] = UnitAt(msgs, begins, k, from + j)
  <2>1. CASE j <= n
    <3>1. j \in 1 .. n
      BY <1>1, <2>1
    <3> QED BY <1>2, <1>3, <2>1, <3>1 DEF Placed
  <2>2. CASE ~(j <= n)
    <3> DEFINE i == j - n
    <3>1. i \in 1 .. m /\ (from + n) + i = from + j
      BY <1>1, <2>2
    <3>2. c[j] = b[i]
      BY <1>2, <2>2
    <3> HIDE DEF i
    <3>3. b[i] = UnitAt(msgs, begins, k, (from + n) + i)
      BY <1>3, <3>1 DEF Placed
    <3> QED BY <3>1, <3>2, <3>3
  <2> QED BY <2>1, <2>2
<1> QED BY <1>1, <1>2, <1>3 DEF Placed, c

\* A frame is the piece of its message.
LEMMA FrameUnits ==
    ASSUME NEW text \in Contents
    PROVE  /\ Frame(text) \in Seq(Units) /\ Len(Frame(text)) = FrameSize(text)
           /\ \A i \in 1 .. FrameSize(text) : Frame(text)[i] = <<text, i>>
           /\ Body(text) \in Seq(Units) /\ Len(Body(text)) = BodySize[text]
           /\ \A i \in 1 .. BodySize[text] : Body(text)[i] = <<text, HeaderSize + i>>
<1> DEFINE h == HeaderSize
           n == BodySize[text]
           head == [i \in 1 .. h |-> <<text, i>>]
           body == Body(text)
           all  == head \o body
<1>1. h \in Nat /\ n \in Nat
  BY FrameSizes
<1>2. head \in Seq(Units) /\ Len(head) = h /\ \A i \in 1 .. h : head[i] = <<text, i>>
  <2>1. head \in [1 .. h -> Units]
    BY <1>1 DEF Units
  <2>2. head \in Seq(Units) /\ Len(head) = h
    BY <1>1, <2>1, Written
  <2> QED BY <2>2
<1>3. body \in Seq(Units) /\ Len(body) = n /\ \A i \in 1 .. n : body[i] = <<text, h + i>>
  <2>1. body \in [1 .. n -> Units]
    BY <1>1 DEF Units, Body
  <2>2. body \in Seq(Units) /\ Len(body) = n
    BY <1>1, <2>1, Written
  <2> QED BY <2>2 DEF Body
<1> HIDE DEF head, body
<1>4. /\ all \in Seq(Units) /\ Len(all) = h + n
      /\ \A i \in 1 .. h + n : all[i] = IF i <= h THEN head[i] ELSE body[i - h]
  <2>1. /\ all \in Seq(Units) /\ Len(all) = Len(head) + Len(body)
        /\ \A i \in 1 .. Len(head) + Len(body) :
              all[i] = IF i <= Len(head) THEN head[i] ELSE body[i - Len(head)]
    BY <1>2, <1>3, ConcatProperties
  <2> HIDE DEF all
  <2> QED BY <1>1, <1>2, <1>3, <2>1
<1> HIDE DEF all
<1>5. ASSUME NEW i \in 1 .. h + n PROVE all[i] = <<text, i>>
  <2>1. CASE i <= h
    BY <1>1, <1>2, <1>4, <2>1
  <2>2. CASE ~(i <= h)
    <3>1. i - h \in 1 .. n /\ h + (i - h) = i
      BY <1>1, <2>2
    <3>2. body[i - h] = <<text, i>>
      BY <1>3, <3>1
    <3> QED BY <1>4, <2>2, <3>2
  <2> QED BY <2>1, <2>2
<1> QED BY <1>1, <1>3, <1>4, <1>5 DEF all, head, body, Frame, FrameSize

\* A message more: what was a piece of the stream still is, and the new frame is one at its end.
Longer(begins, n, text) ==
    [k \in 1 .. n + 2 |-> IF k <= n + 1 THEN begins[k] ELSE begins[n + 1] + FrameSize(text)]

LEMMA StreamGrows ==
    ASSUME NEW msgs, NEW begins, Stream(msgs, begins), NEW text \in Contents
    PROVE  /\ Stream(Append(msgs, text), Longer(begins, Len(msgs), text))
           /\ Len(Append(msgs, text)) = Len(msgs) + 1 /\ Append(msgs, text)[Len(msgs) + 1] = text
           /\ \A k \in 1 .. Len(msgs) : Append(msgs, text)[k] = msgs[k]
           /\ \A k \in 1 .. Len(msgs) + 1 : Longer(begins, Len(msgs), text)[k] = begins[k]
           /\ Longer(begins, Len(msgs), text)[Len(msgs) + 2] = begins[Len(msgs) + 1] + FrameSize(text)
<1> DEFINE n == Len(msgs)
           more == Append(msgs, text)
           new == Longer(begins, n, text)
           size == FrameSize(text)
<1>1. msgs \in Seq(Contents) /\ n \in Nat /\ size \in Nat /\ size > 0
  BY FrameSizes, LenProperties DEF Stream
<1>2. /\ more \in Seq(Contents) /\ Len(more) = n + 1 /\ more[n + 1] = text
      /\ \A k \in 1 .. n : more[k] = msgs[k]
  BY <1>1, AppendProperties
<1>3. begins \in [1 .. n + 1 -> Nat] /\ begins[n + 1] \in Nat
  BY <1>1 DEF Stream
<1>4. /\ new \in [1 .. n + 2 -> Nat]
      /\ \A k \in 1 .. n + 1 : new[k] = begins[k]
      /\ new[n + 2] = begins[n + 1] + size
  <2> HIDE DEF size
  <2>1. new = [k \in 1 .. n + 2 |-> IF k <= n + 1 THEN begins[k] ELSE begins[n + 1] + size]
    BY DEF Longer, size
  <2> HIDE DEF new
  <2>2. ASSUME NEW k \in 1 .. n + 2
        PROVE  (IF k <= n + 1 THEN begins[k] ELSE begins[n + 1] + size) \in Nat
    BY <1>1, <1>3
  <2>3. n + 2 \in 1 .. n + 2 /\ ~(n + 2 <= n + 1) /\ \A k \in 1 .. n + 1 : k \in 1 .. n + 2 /\ k <= n + 1
    BY <1>1
  <2> QED BY <2>1, <2>2, <2>3
<1> HIDE DEF more, new, size
<1>5. ASSUME NEW k \in 1 .. n + 1 PROVE new[k + 1] = new[k] + FrameSize(more[k])
  <2>1. CASE k \in 1 .. n
    <3>1. begins[k + 1] = begins[k] + FrameSize(msgs[k])
      BY <2>1 DEF Stream
    <3>2. k + 1 \in 1 .. n + 1
      BY <1>1, <2>1
    <3> QED BY <1>2, <1>4, <2>1, <3>1, <3>2
  <2>2. CASE k = n + 1
    <3>1. k + 1 = n + 2 /\ FrameSize(more[k]) = size
      BY <1>1, <1>2, <2>2 DEF size
    <3> QED BY <1>4, <2>2, <3>1
  <2> QED BY <1>1, <2>1, <2>2
<1>6. ASSUME NEW j \in 1 .. n + 2, NEW k \in 1 .. n + 2, j < k PROVE new[j] < new[k]
  <2>1. CASE k \in 1 .. n + 1
    <3>1. j \in 1 .. n + 1
      BY <1>1, <1>6, <2>1
    <3>2. begins[j] < begins[k]
      BY <1>6, <2>1, <3>1 DEF Stream
    <3> QED BY <1>4, <2>1, <3>1, <3>2
  <2>2. CASE k = n + 2
    <3>1. j \in 1 .. n + 1 /\ n + 1 \in 1 .. n + 1 /\ j <= n + 1
      BY <1>1, <1>6, <2>2
    <3>2. begins[j] <= begins[n + 1] /\ begins[j] \in Nat
      BY <3>1, StartsOrdered
    <3> QED BY <1>1, <1>3, <1>4, <2>2, <3>1, <3>2
  <2> QED BY <1>1, <2>1, <2>2
<1>7. n + 2 = Len(more) + 1
  BY <1>1, <1>2
<1>8. Stream(more, new)
  BY <1>2, <1>4, <1>5, <1>6, <1>7 DEF Stream
<1> QED BY <1>2, <1>4, <1>8 DEF more, new, size

LEMMA PieceStays ==
    ASSUME NEW msgs, NEW begins, Stream(msgs, begins), NEW text \in Contents,
           NEW units, NEW from \in Nat, Placed(units, from, msgs, begins),
           from + Len(units) <= begins[Len(msgs) + 1]
    PROVE  Placed(units, from, Append(msgs, text), Longer(begins, Len(msgs), text))
<1> DEFINE n == Len(msgs)
           more == Append(msgs, text)
           new == Longer(begins, n, text)
<1>1. /\ Len(more) = n + 1 /\ \A k \in 1 .. n : more[k] = msgs[k]
      /\ \A k \in 1 .. n + 1 : new[k] = begins[k]
  BY StreamGrows
<1> HIDE DEF more, new
<1>2. n \in Nat /\ units \in Seq(Units) /\ Len(units) \in Nat /\ begins[n + 1] \in Nat
  BY LenProperties DEF Stream, Placed
<1>3. ASSUME NEW j \in 1 .. Len(units), NEW k \in 1 .. n + 1, Covers(new, k, from + j)
      PROVE  units[j] = UnitAt(more, new, k, from + j)
  <2>1. k # n + 1
    <3> SUFFICES ASSUME k = n + 1 PROVE FALSE
      OBVIOUS
    <3>1. begins[n + 1] < from + j
      BY <1>1, <1>2, <1>3 DEF Covers
    <3> QED BY <1>2, <3>1
  <2>2. k \in 1 .. n /\ k \in 1 .. n + 1 /\ k + 1 \in 1 .. n + 1
    BY <1>2, <2>1
  <2>3. new[k] = begins[k] /\ new[k + 1] = begins[k + 1] /\ more[k] = msgs[k]
    BY <1>1, <2>2
  <2>4. Covers(begins, k, from + j)
    BY <1>3, <2>3 DEF Covers
  <2>5. units[j] = UnitAt(msgs, begins, k, from + j)
    BY <2>2, <2>4 DEF Placed
  <2> QED BY <2>3, <2>5 DEF UnitAt
<1> QED BY <1>1, <1>2, <1>3 DEF Placed, more, new

LEMMA FrameIsPiece ==
    ASSUME NEW msgs, NEW begins, Stream(msgs, begins), NEW text \in Contents
    PROVE  Placed(Frame(text), begins[Len(msgs) + 1], Append(msgs, text),
                  Longer(begins, Len(msgs), text))
<1> DEFINE n == Len(msgs)
           more == Append(msgs, text)
           new == Longer(begins, n, text)
           from == begins[n + 1]
<1>1. /\ Stream(more, new) /\ Len(more) = n + 1 /\ more[n + 1] = text
      /\ \A k \in 1 .. n + 1 : new[k] = begins[k]
  BY StreamGrows
<1> HIDE DEF more, new
<1>2. /\ n \in Nat /\ from \in Nat /\ n + 1 \in 1 .. n + 1
  BY LenProperties DEF Stream
<1>3. /\ Frame(text) \in Seq(Units) /\ Len(Frame(text)) = FrameSize(text)
      /\ \A i \in 1 .. FrameSize(text) : Frame(text)[i] = <<text, i>>
      /\ FrameSize(text) \in Nat
  BY FrameUnits, FrameSizes
<1>4. ASSUME NEW j \in 1 .. FrameSize(text), NEW k \in 1 .. n + 1, Covers(new, k, from + j)
      PROVE  Frame(text)[j] = UnitAt(more, new, k, from + j)
  <2>1. CASE k = n + 1
    <3>1. new[k] = from /\ more[k] = text /\ (from + j) - from = j
      BY <1>1, <1>2, <1>3, <2>1
    <3> QED BY <1>3, <3>1 DEF UnitAt
  <2>2. CASE k # n + 1
    <3>1. k + 1 \in 1 .. n + 1 /\ k + 1 <= n + 1 /\ n + 1 \in 1 .. n + 1
      BY <1>2, <2>2
    <3>2. begins[k + 1] <= from /\ begins[k + 1] \in Nat
      BY <3>1, StartsOrdered
    <3>3. from + j <= begins[k + 1]
      BY <1>1, <1>4, <3>1 DEF Covers
    <3> QED BY <1>2, <1>3, <3>2, <3>3
  <2> QED BY <2>1, <2>2
<1> QED BY <1>1, <1>3, <1>4 DEF Placed, more, new

\* A whole header tells the length of its message, and a whole body its text.
LEMMA HeaderDecoded ==
    ASSUME NEW msgs, NEW begins, Stream(msgs, begins), NEW k \in 1 .. Len(msgs),
           NEW units, Placed(units, begins[k], msgs, begins), Len(units) = HeaderSize
    PROVE  Decoded(units) = {BodySize[msgs[k]]}
<1> DEFINE text == msgs[k]
           h == HeaderSize
<1>1. /\ text \in Contents /\ begins[k] \in Nat /\ begins[k + 1] = begins[k] + FrameSize(text)
      /\ h \in Nat /\ h > 0 /\ BodySize[text] \in Nat /\ FrameSize(text) = h + BodySize[text]
  BY StreamFacts, FrameSizes
<1>2. ASSUME NEW i \in 1 .. h PROVE units[i] = <<text, i>>
  <2>1. Covers(begins, k, begins[k] + i) /\ (begins[k] + i) - begins[k] = i
    BY <1>1 DEF Covers
  <2> QED BY <2>1 DEF Placed, UnitAt
<1> HIDE DEF text
<1>3. ASSUME NEW u \in Contents
      PROVE  /\ SubSeq(Frame(u), 1, h) \in Seq(Units) /\ Len(SubSeq(Frame(u), 1, h)) = h
             /\ \A i \in 1 .. h : SubSeq(Frame(u), 1, h)[i] = <<u, i>>
  <2> DEFINE f == Frame(u)
             s == SubSeq(f, 1, h)
  <2>1. /\ f \in Seq(Units) /\ Len(f) = FrameSize(u) /\ \A i \in 1 .. FrameSize(u) : f[i] = <<u, i>>
        /\ h <= FrameSize(u) /\ FrameSize(u) \in Nat
    BY FrameUnits, FrameSizes
  <2> HIDE DEF f
  <2>2. \A i \in 1 .. h : i \in 1 .. Len(f) /\ f[i] = <<u, i>>
    BY <1>1, <2>1
  <2>3. /\ s \in Seq(Units) /\ Len(s) = h /\ \A i \in 1 .. h : s[i] = f[i]
    BY <1>1, <2>1, <2>2, ElementOfSeq, SubSeqProperties
  <2> HIDE DEF s
  <2> QED BY <2>2, <2>3 DEF s, f
<1>4. units = SubSeq(Frame(text), 1, h)
  <2> DEFINE s == SubSeq(Frame(text), 1, h)
  <2>1. s \in Seq(Units) /\ Len(s) = h /\ \A i \in 1 .. h : s[i] = <<text, i>>
    BY <1>1, <1>3
  <2> HIDE DEF s
  <2>2. units \in Seq(Units)
    BY DEF Placed
  <2>3. units = s
    BY <1>2, <2>1, <2>2, SeqEqual
  <2> QED BY <2>3 DEF s
<1>5. ASSUME NEW u \in Contents, units = SubSeq(Frame(u), 1, h) PROVE u = text
  <2>1. 1 \in 1 .. h
    BY <1>1
  <2>2. units[1] = <<u, 1>> /\ units[1] = <<text, 1>>
    BY <1>2, <1>3, <1>5, <2>1
  <2> QED BY <2>2
<1>6. {u \in Contents : units = SubSeq(Frame(u), 1, h)} = {text}
  BY <1>1, <1>4, <1>5
<1>7. Lengths(units) = {BodySize[text]}
  BY <1>6 DEF Lengths
<1> QED BY <1>7 DEF Decoded, text

LEMMA BodyDecoded ==
    ASSUME NEW msgs, NEW begins, Stream(msgs, begins), NEW k \in 1 .. Len(msgs),
           NEW units, Placed(units, begins[k] + HeaderSize, msgs, begins),
           Len(units) = BodySize[msgs[k]]
    PROVE  TextOf(units) = msgs[k]
<1> DEFINE text == msgs[k]
           h == HeaderSize
           n == BodySize[text]
<1>1. /\ text \in Contents /\ begins[k] \in Nat /\ begins[k + 1] = begins[k] + FrameSize(text)
      /\ h \in Nat /\ n \in Nat /\ FrameSize(text) = h + n
  BY StreamFacts, FrameSizes
<1>2. ASSUME NEW i \in 1 .. n PROVE units[i] = <<text, h + i>>
  <2>1. Covers(begins, k, (begins[k] + h) + i) /\ ((begins[k] + h) + i) - begins[k] = h + i
    BY <1>1 DEF Covers
  <2> QED BY <2>1 DEF Placed, UnitAt
<1> HIDE DEF text
<1>3. \A u \in Contents : /\ Body(u) \in Seq(Units) /\ Len(Body(u)) = BodySize[u]
                          /\ \A i \in 1 .. BodySize[u] : Body(u)[i] = <<u, h + i>>
  BY FrameUnits
<1>4. units = Body(text)
  <2>1. units \in Seq(Units) /\ Len(units) = n
    BY DEF Placed, text
  <2>2. Body(text) \in Seq(Units) /\ Len(Body(text)) = n
        /\ \A i \in 1 .. n : units[i] = Body(text)[i]
    BY <1>1, <1>2, <1>3
  <2> QED BY <2>1, <2>2, SeqEqual
<1>5. ASSUME NEW u \in Contents, units = Body(u) PROVE u = text
  <2>1. BodySize[u] = n
    BY <1>1, <1>3, <1>4, <1>5
  <2>2. CASE n = 0
    BY <1>1, <2>1, <2>2, MessagesAssumption
  <2>3. CASE n # 0
    <3>1. 1 \in 1 .. n
      BY <1>1, <2>3
    <3>2. units[1] = <<u, h + 1>> /\ units[1] = <<text, h + 1>>
      BY <1>2, <1>3, <1>5, <2>1, <3>1
    <3> QED BY <3>2
  <2> QED BY <2>2, <2>3
<1>6. {u \in Contents : units = Body(u)} = {text}
  BY <1>1, <1>4, <1>5
<1> QED BY <1>6 DEF TextOf, text

-----------------------------------------------------------------------------
(* The invariant.                                                          *)

\* Where in the stream the present header or body begins, and how far the receiver has read.
PartStart(begins) == begins[Len(received) + 1] + (IF receiver = "body" THEN HeaderSize ELSE 0)
ReadTo(begins)    == PartStart(begins) + Len(got)

\* The stream holds what was sent, and one message more while a part of it was written.
SentInStream(msgs, begins, written) ==
    /\ Stream(msgs, begins) /\ written \in Nat
    /\ Len(sent) <= Len(msgs) /\ Len(msgs) <= Len(sent) + 1
    /\ \A i \in 1 .. Len(sent) : sent[i] = msgs[i]
    /\ written <= begins[Len(msgs) + 1]
    /\ Len(msgs) # Len(sent) => begins[Len(msgs)] <= written /\ written < begins[Len(msgs) + 1]

\* As long as the connection is up: who sends has the rest of the stream, and what is written
\* is read or in flight.
RestToWrite(msgs, begins, written) ==
    /\ \A w \in Sending :
          /\ Len(msgs) = Len(sent) + 1
          /\ Placed(toWrite[w], written, msgs, begins)
          /\ written + Len(toWrite[w]) = begins[Len(msgs) + 1]
    /\ Sending = {} => Len(msgs) = Len(sent) /\ written = begins[Len(msgs) + 1]
    /\ ReadTo(begins) + Len(wire) = written

\* The receiver has the beginning of the stream.
ReadFromStream(msgs, begins, written) ==
    /\ Len(received) <= Len(msgs) /\ \A i \in 1 .. Len(received) : received[i] = msgs[i]
    /\ Placed(got, PartStart(begins), msgs, begins)
    /\ Placed(wire, ReadTo(begins), msgs, begins)
    /\ ReadTo(begins) + Len(wire) <= written
    /\ receiver = "header" => Len(got) <= HeaderSize
    /\ receiver = "body" =>
          /\ Len(received) < Len(msgs)
          /\ length = BodySize[msgs[Len(received) + 1]]
          /\ Len(got) <= length

Accounted(msgs, begins, written) ==
    /\ SentInStream(msgs, begins, written)
    /\ connection \in {"off", "up"} => RestToWrite(msgs, begins, written)
    /\ ReadFromStream(msgs, begins, written)

MessagesTypeOK ==
    /\ connection \in {"off", "up", "down", "exited"}
    /\ receiver \in {"header", "body", "ended"}
    /\ toWrite \in [Writers -> Seq(Units)]
    /\ wire \in Seq(Units) /\ got \in Seq(Units)
    /\ sent \in Seq(Contents) /\ received \in Seq(Contents)
    /\ \A v, w \in Sending : v = w

MessagesInv ==
    /\ MessagesTypeOK
    /\ receiver # "ended" => \E msgs, begins, written : Accounted(msgs, begins, written)
    /\ receiver = "ended" => connection \in {"down", "exited"} /\ ArriveInOrder

\* What has been received is the beginning of what was sent: the message that is not yet written
\* is not yet read.
LEMMA AccountedInOrder ==
    ASSUME MessagesTypeOK, NEW msgs, NEW begins, NEW written, Accounted(msgs, begins, written),
           receiver # "ended"
    PROVE  ArriveInOrder /\ Len(received) <= Len(sent)
<1> DEFINE r == Len(received)
           n == Len(msgs)
<1>1. /\ Stream(msgs, begins) /\ written \in Nat
      /\ Len(sent) \in Nat /\ n \in Nat /\ r \in Nat /\ r <= n /\ n <= Len(sent) + 1
      /\ Len(got) \in Nat /\ Len(wire) \in Nat
  BY LenProperties DEF Accounted, SentInStream, ReadFromStream, Stream, MessagesTypeOK
<1>2. begins[r + 1] \in Nat /\ begins[r + 1] <= ReadTo(begins) /\ ReadTo(begins) \in Nat
  <2>1. begins[r + 1] \in Nat
    <3>1. r + 1 \in 1 .. n + 1
      BY <1>1
    <3> QED BY <1>1, <3>1 DEF Stream
  <2>2. PartStart(begins) \in Nat /\ begins[r + 1] <= PartStart(begins)
    BY <2>1, MessagesAssumption DEF PartStart
  <2> QED BY <1>1, <2>1, <2>2 DEF ReadTo
<1>3. begins[r + 1] <= written
  BY <1>1, <1>2 DEF Accounted, ReadFromStream
<1>4. r <= Len(sent)
  <2> SUFFICES ASSUME r > Len(sent) PROVE FALSE
    BY <1>1
  <2>1. n # Len(sent) /\ n = r
    BY <1>1
  <2>2. written < begins[n + 1]
    BY <2>1 DEF Accounted, SentInStream
  <2> QED BY <1>1, <1>2, <1>3, <2>1, <2>2
<1>5. \A i \in 1 .. r : received[i] = sent[i]
  <2>1. ASSUME NEW i \in 1 .. r PROVE received[i] = sent[i]
    <3>1. i \in 1 .. Len(sent)
      BY <1>1, <1>4
    <3> QED BY <3>1 DEF Accounted, SentInStream, ReadFromStream
  <2> QED BY <2>1
<1>6. SubSeq(received, 1, r) = SubSeq(sent, 1, r)
  <2>1. received \in Seq(Contents) /\ sent \in Seq(Contents)
    BY DEF MessagesTypeOK
  <2> DEFINE a == SubSeq(received, 1, r)
             b == SubSeq(sent, 1, r)
  <2>2. a \in Seq(Contents) /\ Len(a) = r /\ \A i \in 1 .. r : a[i] = received[i]
    BY <1>1, <2>1, ElementOfSeq, SubSeqProperties
  <2>3. \A i \in 1 .. r : i \in 1 .. Len(sent) /\ sent[i] \in Contents
    BY <1>1, <1>4, <2>1, ElementOfSeq
  <2>4. b \in Seq(Contents) /\ Len(b) = r /\ \A i \in 1 .. r : b[i] = sent[i]
    BY <1>1, <2>1, <2>3, SubSeqProperties
  <2> HIDE DEF a, b
  <2>5. a = b
    BY <1>5, <2>2, <2>4, SeqEqual
  <2> QED BY <2>5 DEF a, b
<1> QED BY <1>4, <1>6 DEF ArriveInOrder, IsPrefix

LEMMA NoUnits ==
    \A msgs, begins, from : Placed(<<>>, from, msgs, begins)
<1>1. <<>> \in Seq(Units) /\ Len(<<>>) = 0 /\ 1 .. 0 = {}
  BY EmptySeq
<1> QED BY <1>1 DEF Placed

\* A step that leaves the receiver as it is, and what is in flight a piece behind it.
LEMMA ReaderUnmoved ==
    ASSUME UNCHANGED <<receiver, got, length, received>>,
           NEW msgs, NEW begins, NEW written, NEW more,
           ReadFromStream(msgs, begins, written),
           Placed(wire', ReadTo(begins), msgs, begins), ReadTo(begins) + Len(wire') <= more
    PROVE  /\ PartStart(begins)' = PartStart(begins) /\ ReadTo(begins)' = ReadTo(begins)
           /\ ReadFromStream(msgs, begins, more)'
<1>1. PartStart(begins)' = PartStart(begins) /\ ReadTo(begins)' = ReadTo(begins)
  BY DEF PartStart, ReadTo
<1> QED BY <1>1 DEF ReadFromStream

\* The numbers of an accounted state.
LEMMA AccountedNumbers ==
    ASSUME MessagesTypeOK, NEW msgs, NEW begins, NEW written, Accounted(msgs, begins, written)
    PROVE  /\ Stream(msgs, begins) /\ written \in Nat /\ Len(msgs) \in Nat
           /\ Len(sent) \in Nat /\ Len(received) \in Nat /\ Len(received) <= Len(msgs)
           /\ Len(got) \in Nat /\ Len(wire) \in Nat
           /\ begins[Len(received) + 1] \in Nat /\ begins[Len(msgs) + 1] \in Nat
           /\ PartStart(begins) \in Nat /\ ReadTo(begins) \in Nat
           /\ ReadTo(begins) = PartStart(begins) + Len(got)
<1>1. /\ Stream(msgs, begins) /\ written \in Nat /\ Len(msgs) \in Nat
      /\ Len(sent) \in Nat /\ Len(received) \in Nat /\ Len(received) <= Len(msgs)
      /\ Len(got) \in Nat /\ Len(wire) \in Nat
  BY LenProperties DEF Accounted, SentInStream, ReadFromStream, Stream, MessagesTypeOK
<1>2. Len(received) + 1 \in 1 .. Len(msgs) + 1 /\ Len(msgs) + 1 \in 1 .. Len(msgs) + 1
  BY <1>1
<1>3. begins[Len(received) + 1] \in Nat /\ begins[Len(msgs) + 1] \in Nat
  BY <1>1, <1>2 DEF Stream
<1>4. PartStart(begins) \in Nat
  BY <1>3, MessagesAssumption DEF PartStart
<1> QED BY <1>1, <1>3, <1>4 DEF ReadTo

\* The stream with one message more, of which a frame is the end and whose pieces stay pieces.
StreamWith(more, new, msgs, begins, text) ==
    /\ Stream(more, new) /\ Len(more) = Len(msgs) + 1 /\ more[Len(msgs) + 1] = text
    /\ \A k \in 1 .. Len(msgs) : more[k] = msgs[k]
    /\ \A k \in 1 .. Len(msgs) + 1 : new[k] = begins[k]
    /\ new[Len(msgs) + 2] = begins[Len(msgs) + 1] + FrameSize(text)
    /\ Placed(Frame(text), begins[Len(msgs) + 1], more, new)
    /\ \A units : \A from \in Nat :
          Placed(units, from, msgs, begins) /\ from + Len(units) <= begins[Len(msgs) + 1]
          => Placed(units, from, more, new)

LEMMA StreamLonger ==
    ASSUME NEW msgs, NEW begins, Stream(msgs, begins), NEW text \in Contents
    PROVE  \E more, new : StreamWith(more, new, msgs, begins, text)
<1>1. \A units : \A from \in Nat :
          Placed(units, from, msgs, begins) /\ from + Len(units) <= begins[Len(msgs) + 1]
          => Placed(units, from, Append(msgs, text), Longer(begins, Len(msgs), text))
  BY PieceStays
<1>2. StreamWith(Append(msgs, text), Longer(begins, Len(msgs), text), msgs, begins, text)
  BY <1>1, StreamGrows, FrameIsPiece DEF StreamWith
<1> QED BY <1>2

LEMMA BeginAccounted ==
    ASSUME MessagesInv, NEW w \in Writers, NEW text \in Contents, Begin(w, text)
    PROVE  MessagesInv'
<1>1. /\ UNCHANGED <<connection, wire, sent, receiver, got, length, received>>
      /\ Sending = {} /\ connection \in {"up", "down"}
      /\ toWrite' = [toWrite EXCEPT ![w] = Frame(text)]
  BY DEF Begin, receiverVars
<1>2. MessagesTypeOK
  BY DEF MessagesInv
<1>3. /\ Frame(text) \in Seq(Units) /\ Len(Frame(text)) = FrameSize(text)
      /\ FrameSize(text) \in Nat /\ FrameSize(text) > 0
  BY FrameUnits, FrameSizes
<1>4. toWrite' \in [Writers -> Seq(Units)] /\ toWrite'[w] = Frame(text)
      /\ \A v \in Writers : v # w => toWrite'[v] = <<>>
  BY <1>1, <1>2, <1>3 DEF MessagesTypeOK, Sending
<1>5. Sending' = {w}
  <2>1. toWrite'[w] # <<>>
    BY <1>3, <1>4
  <2> QED BY <1>4, <2>1 DEF Sending
<1>6. MessagesTypeOK'
  BY <1>1, <1>2, <1>4, <1>5 DEF MessagesTypeOK
<1>7. CASE receiver = "ended"
  BY <1>1, <1>6, <1>7 DEF MessagesInv, ArriveInOrder
<1>8. CASE receiver # "ended"
  <2>1. PICK msgs, begins, written : Accounted(msgs, begins, written)
    BY <1>8 DEF MessagesInv
  <2>2. PartStart(begins)' = PartStart(begins) /\ ReadTo(begins)' = ReadTo(begins)
    BY <1>1 DEF PartStart, ReadTo
  <2>3. CASE connection = "down"
    <3>1. Accounted(msgs, begins, written)'
      BY <1>1, <2>1, <2>2, <2>3 DEF Accounted, SentInStream, ReadFromStream
    <3> QED BY <1>1, <1>6, <1>8, <3>1 DEF MessagesInv
  <2>4. CASE connection = "up"
    <3> DEFINE n == Len(msgs)
    <3>1. /\ Stream(msgs, begins) /\ written \in Nat /\ n = Len(sent) /\ n \in Nat
          /\ written = begins[n + 1] /\ ReadTo(begins) + Len(wire) = written
          /\ Len(sent) \in Nat /\ Len(received) \in Nat /\ Len(got) \in Nat /\ Len(wire) \in Nat
      BY <1>1, <2>1, <2>4, LenProperties
         DEF Accounted, SentInStream, RestToWrite, MessagesTypeOK
    <3>2. PICK more, new : StreamWith(more, new, msgs, begins, text)
      BY <3>1, StreamLonger
    <3>3. /\ Stream(more, new) /\ Len(more) = n + 1 /\ more[n + 1] = text
          /\ \A k \in 1 .. n : more[k] = msgs[k]
          /\ \A k \in 1 .. n + 1 : new[k] = begins[k]
          /\ new[n + 2] = begins[n + 1] + FrameSize(text)
          /\ Placed(Frame(text), begins[n + 1], more, new)
      BY <3>2 DEF StreamWith
    <3>4. PartStart(begins) \in Nat /\ ReadTo(begins) \in Nat /\ Len(received) <= n
      BY <1>2, <2>1, AccountedNumbers
    <3>5. PartStart(new)' = PartStart(begins) /\ ReadTo(new)' = ReadTo(begins)
      <4>1. Len(received) + 1 \in 1 .. n + 1
        BY <3>1, <3>4
      <4>2. new[Len(received) + 1] = begins[Len(received) + 1]
        BY <3>3, <4>1
      <4> QED BY <1>1, <4>2 DEF PartStart, ReadTo
    <3>6. SentInStream(more, new, written)'
      <4>1. /\ Stream(more, new) /\ written \in Nat
            /\ Len(sent) <= Len(more) /\ Len(more) <= Len(sent) + 1
        BY <3>1, <3>3
      <4>2. ASSUME NEW i \in 1 .. Len(sent) PROVE sent[i] = more[i]
        BY <2>1, <3>1, <3>3, <4>2 DEF Accounted, SentInStream
      <4>3. Len(more) + 1 = n + 2 /\ written < new[n + 2]
        BY <1>3, <3>1, <3>3
      <4>4. written <= new[Len(more) + 1] /\ written < new[Len(more) + 1] /\ new[Len(more)] <= written
        <5>1. n + 1 \in 1 .. n + 1 /\ Len(more) = n + 1
          BY <3>1, <3>3
        <5>2. new[Len(more)] = written
          BY <3>1, <3>3, <5>1
        <5> QED BY <1>3, <3>1, <3>3, <4>3, <5>2
      <4> QED BY <1>1, <4>1, <4>2, <4>4 DEF SentInStream
    <3>7. RestToWrite(more, new, written)'
      <4>1. Len(more) + 1 = n + 2 /\ Len(more) = Len(sent) + 1
        BY <3>1, <3>3
      <4>2. ASSUME NEW v \in {w}
            PROVE  /\ Len(more) = Len(sent') + 1
                   /\ Placed(toWrite'[v], written, more, new)
                   /\ written + Len(toWrite'[v]) = new[Len(more) + 1]
        <5>1. toWrite'[v] = Frame(text)
          BY <1>4
        <5> QED BY <1>1, <1>3, <3>1, <3>3, <4>1, <5>1
      <4>3. ReadTo(new)' + Len(wire') = written
        BY <1>1, <3>1, <3>5
      <4> QED BY <1>5, <4>2, <4>3 DEF RestToWrite
    <3>8. ReadFromStream(more, new, written)'
      <4>1. Placed(got, PartStart(begins), msgs, begins) /\ Placed(wire, ReadTo(begins), msgs, begins)
        BY <2>1 DEF Accounted, ReadFromStream
      <4>2. PartStart(begins) + Len(got) <= begins[n + 1] /\ ReadTo(begins) + Len(wire) <= begins[n + 1]
        BY <3>1, <3>4 DEF ReadTo
      <4>3. Placed(got, PartStart(begins), more, new) /\ Placed(wire, ReadTo(begins), more, new)
        BY <3>2, <3>4, <4>1, <4>2 DEF StreamWith
      <4>4. Placed(got', PartStart(new)', more, new) /\ Placed(wire', ReadTo(new)', more, new)
        BY <1>1, <3>5, <4>3
      <4>5. /\ Len(received') <= Len(more)
            /\ \A i \in 1 .. Len(received') : received'[i] = more[i]
        BY <1>1, <2>1, <3>1, <3>3, <3>4 DEF Accounted, ReadFromStream
      <4>6. ReadTo(new)' + Len(wire') <= written
        BY <1>1, <3>1, <3>5
      <4>7. /\ receiver' = "header" => Len(got') <= HeaderSize
            /\ receiver' = "body" =>
                 /\ Len(received') < Len(more)
                 /\ length' = BodySize[more[Len(received') + 1]]
                 /\ Len(got') <= length'
        <5>1. receiver = "body" =>
                 /\ Len(received) < n
                 /\ length = BodySize[msgs[Len(received) + 1]] /\ Len(got) <= length
          BY <2>1 DEF Accounted, ReadFromStream
        <5>2. receiver = "body" => Len(received) + 1 \in 1 .. n
          BY <3>1, <5>1
        <5>3. receiver = "body" => more[Len(received) + 1] = msgs[Len(received) + 1]
          BY <3>3, <5>2
        <5>4. receiver = "header" => Len(got) <= HeaderSize
          BY <2>1 DEF Accounted, ReadFromStream
        <5> QED BY <1>1, <3>1, <3>3, <5>1, <5>3, <5>4
      <4> QED BY <4>4, <4>5, <4>6, <4>7 DEF ReadFromStream
    <3>9. Accounted(more, new, written)'
      BY <3>6, <3>7, <3>8 DEF Accounted
    <3> QED BY <1>1, <1>6, <1>8, <3>9 DEF MessagesInv
  <2> QED BY <1>1, <2>3, <2>4
<1> QED BY <1>7, <1>8

LEMMA WriteAccounted ==
    ASSUME MessagesInv, NEW w \in Writers, NEW n \in 1 .. SocketRoom, Write(w, n)
    PROVE  MessagesInv'
<1>1. MessagesTypeOK /\ connection = "up" /\ w \in Sending /\ n \in Nat /\ n > 0
  BY MessagesAssumption DEF MessagesInv, Write
<1>2. receiver # "ended"
  BY <1>1 DEF MessagesInv
<1>3. PICK msgs, begins, written : Accounted(msgs, begins, written)
  BY <1>2 DEF MessagesInv
<1> DEFINE L == Len(msgs)
           q == toWrite[w]
           part == SubSeq(q, 1, n)
           rest == SubSeq(q, n + 1, Len(q))
           from == ReadTo(begins)
<1>4. /\ Stream(msgs, begins) /\ written \in Nat /\ L \in Nat
      /\ Len(sent) \in Nat /\ Len(wire) \in Nat /\ begins[L + 1] \in Nat /\ from \in Nat
  BY <1>1, <1>3, AccountedNumbers
<1>5. /\ L = Len(sent) + 1 /\ Placed(q, written, msgs, begins)
      /\ written + Len(q) = begins[L + 1] /\ from + Len(wire) = written
      /\ begins[L] <= written /\ written < begins[L + 1]
  BY <1>1, <1>3, <1>4 DEF Accounted, SentInStream, RestToWrite
<1>6. /\ q \in Seq(Units) /\ Len(q) \in Nat /\ Len(q) > 0
      /\ L \in 1 .. L /\ begins[L] \in Nat /\ msgs[L] \in Contents
  <2>1. q \in Seq(Units)
    BY <1>1 DEF MessagesTypeOK
  <2>2. Len(q) \in Nat /\ L \in 1 .. Len(msgs)
    BY <1>4, <1>5, <2>1, LenProperties
  <2> QED BY <1>4, <1>5, <2>1, <2>2, StreamFacts
<1>7. q[1][1] = msgs[L]
  <2>1. 1 \in 1 .. Len(q) /\ Covers(begins, L, written + 1)
    BY <1>4, <1>5, <1>6 DEF Covers
  <2>2. q[1] = UnitAt(msgs, begins, L, written + 1)
    BY <1>5, <1>6, <2>1 DEF Placed
  <2> QED BY <2>2 DEF UnitAt
<1>8. n \in 0 .. Len(q)
  <2>1. n <= Part(q)
    BY DEF Write
  <2>2. BodySize[msgs[L]] \in Nat
    BY <1>6, FrameSizes
  <2> HIDE DEF q, L
  <2> QED BY <1>1, <1>6, <1>7, <2>1, <2>2 DEF Part
<1>9. /\ Placed(part, written, msgs, begins) /\ Len(part) = n
      /\ Placed(rest, written + n, msgs, begins) /\ Len(rest) = Len(q) - n
  BY <1>4, <1>5, <1>8, PieceCut
<1>10. /\ wire' = wire \o part /\ toWrite' = [toWrite EXCEPT ![w] = rest]
       /\ sent' = IF toWrite'[w] = <<>> THEN Append(sent, msgs[L]) ELSE sent
       /\ UNCHANGED <<connection, receiver, got, length, received>>
  BY <1>7 DEF Write, receiverVars
<1>11. Placed(wire', from, msgs, begins) /\ Len(wire') = Len(wire) + n
  <2>1. Placed(wire, from, msgs, begins)
    BY <1>3 DEF Accounted, ReadFromStream
  <2>2. Placed(part, from + Len(wire), msgs, begins)
    BY <1>5, <1>9
  <2> HIDE DEF part, from
  <2>3. Placed(wire \o part, from, msgs, begins) /\ Len(wire \o part) = Len(wire) + Len(part)
    BY <1>4, <2>1, <2>2, PiecesJoin
  <2> QED BY <1>9, <1>10, <2>3
<1>12. from + Len(wire') = written + n
  BY <1>1, <1>4, <1>5, <1>11
<1>13. rest \in Seq(Units) /\ toWrite'[w] = rest /\ toWrite' \in [Writers -> Seq(Units)]
       /\ \A v \in Writers : v # w => toWrite'[v] = <<>>
  <2>1. rest \in Seq(Units)
    BY <1>9 DEF Placed
  <2> HIDE DEF rest
  <2> QED BY <1>1, <1>10, <2>1 DEF MessagesTypeOK, Sending
<1>14. MessagesTypeOK'
  <2>1. sent' \in Seq(Contents)
    BY <1>1, <1>6, <1>10, AppendProperties DEF MessagesTypeOK
  <2>2. wire' \in Seq(Units)
    BY <1>11 DEF Placed
  <2>3. \A v \in Sending' : v = w
    BY <1>13 DEF Sending
  <2> QED BY <1>1, <1>10, <1>13, <2>1, <2>2, <2>3 DEF MessagesTypeOK
<1>15. /\ from' = from /\ ReadFromStream(msgs, begins, written + n)'
  <2>1. ReadFromStream(msgs, begins, written)
    BY <1>3 DEF Accounted
  <2>2. from + Len(wire') <= written + n
    BY <1>4, <1>12
  <2> QED BY <1>10, <1>11, <2>1, <2>2, ReaderUnmoved
<1>16. CASE rest = <<>>
  <2>1. Len(q) = n /\ written + n = begins[L + 1]
    <3>1. Len(rest) = 0
      BY <1>16, EmptySeq, Zenon
    <3> HIDE DEF rest, q, L
    <3> QED BY <1>1, <1>4, <1>5, <1>6, <1>9, <3>1
  <2>2. /\ sent' = Append(sent, msgs[L]) /\ Len(sent') = L /\ sent'[L] = msgs[L]
        /\ \A i \in 1 .. Len(sent) : sent'[i] = sent[i]
    <3>1. sent' = Append(sent, msgs[L]) /\ sent \in Seq(Contents) /\ msgs[L] \in Contents
      BY <1>1, <1>6, <1>10, <1>13, <1>16 DEF MessagesTypeOK
    <3>2. /\ Len(Append(sent, msgs[L])) = Len(sent) + 1
          /\ Append(sent, msgs[L])[Len(sent) + 1] = msgs[L]
          /\ \A i \in 1 .. Len(sent) : Append(sent, msgs[L])[i] = sent[i]
      BY <3>1, AppendProperties
    <3>3. Len(sent) + 1 = L
      BY <1>4, <1>5
    <3> QED BY <3>1, <3>2, <3>3
  <2>3. Sending' = {}
    BY <1>13, <1>16 DEF Sending
  <2>4. \A i \in 1 .. L : sent'[i] = msgs[i]
    <3>1. ASSUME NEW i \in 1 .. L PROVE sent'[i] = msgs[i]
      <4>1. CASE i = L
        BY <2>2, <4>1
      <4>2. CASE i # L
        <5>1. i \in 1 .. Len(sent)
          BY <1>4, <1>5, <4>2
        <5> QED BY <1>3, <2>2, <5>1 DEF Accounted, SentInStream
      <4> QED BY <4>1, <4>2
    <3> QED BY <3>1
  <2>5. SentInStream(msgs, begins, written + n)'
    <3>1. /\ Stream(msgs, begins) /\ written + n \in Nat
          /\ Len(sent') <= L /\ L <= Len(sent') + 1 /\ L = Len(sent')
          /\ written + n <= begins[L + 1]
      BY <1>1, <1>4, <2>1, <2>2
    <3> QED BY <2>2, <2>4, <3>1 DEF SentInStream
  <2>6. RestToWrite(msgs, begins, written + n)'
    BY <1>12, <1>15, <2>1, <2>2, <2>3 DEF RestToWrite
  <2>7. Accounted(msgs, begins, written + n)'
    BY <1>15, <2>5, <2>6 DEF Accounted
  <2> QED BY <1>2, <1>10, <1>14, <2>7 DEF MessagesInv
<1>17. CASE rest # <<>>
  <2>1. Len(rest) \in Nat /\ Len(rest) > 0
    BY <1>13, <1>17, LenProperties, EmptySeq
  <2>2. /\ written + n < begins[L + 1] /\ begins[L] <= written + n
        /\ (written + n) + Len(rest) = begins[L + 1]
    <3> HIDE DEF rest, q, L
    <3> QED BY <1>1, <1>4, <1>5, <1>6, <1>9, <2>1
  <2>3. sent' = sent /\ Sending' = {w}
    BY <1>10, <1>13, <1>17 DEF Sending
  <2>4. SentInStream(msgs, begins, written + n)'
    <3>1. /\ Stream(msgs, begins) /\ written + n \in Nat
          /\ Len(sent) <= L /\ L <= Len(sent) + 1
      BY <1>1, <1>4, <1>5
    <3>2. \A i \in 1 .. Len(sent) : sent[i] = msgs[i]
      BY <1>3 DEF Accounted, SentInStream
    <3>3. written + n <= begins[L + 1]
      BY <1>4, <2>2, <3>1
    <3> QED BY <2>2, <2>3, <3>1, <3>2, <3>3 DEF SentInStream
  <2>5. RestToWrite(msgs, begins, written + n)'
    <3> HIDE DEF rest
    <3> QED BY <1>5, <1>9, <1>12, <1>13, <1>15, <2>2, <2>3 DEF RestToWrite
  <2>6. Accounted(msgs, begins, written + n)'
    BY <1>15, <2>4, <2>5 DEF Accounted
  <2> QED BY <1>2, <1>10, <1>14, <2>6 DEF MessagesInv
<1> QED BY <1>16, <1>17

LEMMA ReadAccounted ==
    ASSUME MessagesInv, NEW n \in 0 .. SocketRoom, Read(n)
    PROVE  MessagesInv'
<1>1. /\ MessagesTypeOK /\ receiver \in {"header", "body"} /\ n \in Nat
      /\ n <= Len(wire) /\ n <= Wanted
      /\ UNCHANGED <<connection, toWrite, sent>>
  BY MessagesAssumption DEF MessagesInv, MessagesTypeOK, Read, senderVars
<1>2. PICK msgs, begins, written : Accounted(msgs, begins, written)
  BY <1>1 DEF MessagesInv
<1> DEFINE L == Len(msgs)
           r == Len(received)
           from == PartStart(begins)
           read == ReadTo(begins)
           part == SubSeq(wire, 1, n)
           rest == SubSeq(wire, n + 1, Len(wire))
           units == got \o part
<1>3. /\ Stream(msgs, begins) /\ written \in Nat /\ L \in Nat
      /\ r \in Nat /\ r <= L /\ Len(got) \in Nat /\ Len(wire) \in Nat
      /\ begins[r + 1] \in Nat /\ begins[L + 1] \in Nat
      /\ from \in Nat /\ read \in Nat /\ read = from + Len(got)
  BY <1>1, <1>2, AccountedNumbers
<1>4. SentInStream(msgs, begins, written) /\ ReadFromStream(msgs, begins, written)
  BY <1>2 DEF Accounted
<1>5. /\ Placed(got, from, msgs, begins) /\ Placed(wire, read, msgs, begins)
      /\ read + Len(wire) <= written /\ written <= begins[L + 1]
  BY <1>4 DEF ReadFromStream, SentInStream
<1>6. /\ Placed(part, read, msgs, begins) /\ Len(part) = n
      /\ Placed(rest, read + n, msgs, begins) /\ Len(rest) = Len(wire) - n
  <2>1. n \in 0 .. Len(wire)
    BY <1>1, <1>3
  <2> QED BY <1>3, <1>5, <2>1, PieceCut
<1>7. Placed(units, from, msgs, begins) /\ Len(units) = Len(got) + n
  <2>1. Placed(part, from + Len(got), msgs, begins)
    BY <1>3, <1>6
  <2> HIDE DEF part, from
  <2>2. Placed(got \o part, from, msgs, begins) /\ Len(got \o part) = Len(got) + Len(part)
    BY <1>3, <1>5, <2>1, PiecesJoin
  <2> QED BY <1>6, <2>2
<1>7a. read + n = from + Len(units)
  BY <1>1, <1>3, <1>7
<1>8. /\ wire' = rest
      /\ IF n < Wanted
         THEN got' = units /\ UNCHANGED <<receiver, length, received, ending>>
         ELSE IF receiver = "header" THEN TakeHeader(units) ELSE TakeBody(units)
  BY DEF Read
<1>9. /\ receiver = "header" => from = begins[r + 1] /\ Wanted = HeaderSize - Len(got)
      /\ receiver = "body" => from = begins[r + 1] + HeaderSize /\ Wanted = length - Len(got)
  BY <1>3 DEF PartStart, Wanted
<1>10. HeaderSize \in Nat /\ HeaderSize > 0
  BY MessagesAssumption
<1>11. receiver = "body" => /\ r < L /\ r + 1 \in 1 .. L
                            /\ length = BodySize[msgs[r + 1]] /\ length \in Nat
  <2> SUFFICES ASSUME receiver = "body" PROVE r < L /\ r + 1 \in 1 .. L
                            /\ length = BodySize[msgs[r + 1]] /\ length \in Nat
    OBVIOUS
  <2>1. r < L /\ length = BodySize[msgs[r + 1]]
    BY <1>4 DEF ReadFromStream
  <2>2. r + 1 \in 1 .. L
    BY <1>3, <2>1
  <2>3. msgs[r + 1] \in Contents
    BY <1>3, <2>2, StreamFacts
  <2> QED BY <2>1, <2>2, <2>3, FrameSizes

\* What every reading leaves, if the receiver is further by n units, in the place it should be.
<1> DEFINE Further ==
             /\ ReadTo(begins)' = read + n
             /\ received' \in Seq(Contents) /\ Len(received') <= L
             /\ \A i \in 1 .. Len(received') : received'[i] = msgs[i]
             /\ Placed(got', PartStart(begins)', msgs, begins)
             /\ receiver' \in {"header", "body"}
             /\ receiver' = "header" => Len(got') <= HeaderSize
             /\ receiver' = "body" =>
                   /\ Len(received') < L
                   /\ length' = BodySize[msgs[Len(received') + 1]]
                   /\ Len(got') <= length'
<1>12. ASSUME n < Wanted PROVE Further
  <2>1. got' = units /\ UNCHANGED <<receiver, length, received>>
    BY <1>8, <1>12
  <2>2. PartStart(begins)' = from /\ ReadTo(begins)' = from + Len(units)
    <3>1. PartStart(begins)' = from
      BY <2>1 DEF PartStart
    <3> QED BY <2>1, <3>1 DEF ReadTo
  <2>3. ReadTo(begins)' = read + n
    BY <1>1, <1>3, <1>7, <2>2
  <2>4. /\ receiver = "header" => Len(units) <= HeaderSize
        /\ receiver = "body" => Len(units) <= length
    <3> HIDE DEF units
    <3> QED BY <1>1, <1>3, <1>7, <1>9, <1>10, <1>11, <1>12
  <2>5. received \in Seq(Contents) /\ \A i \in 1 .. r : received[i] = msgs[i]
    BY <1>1, <1>4 DEF MessagesTypeOK, ReadFromStream
  <2>6. Placed(got', PartStart(begins)', msgs, begins)
    BY <1>7, <2>1, <2>2
  <2> HIDE DEF units
  <2> QED BY <1>1, <1>3, <1>11, <2>1, <2>3, <2>4, <2>5, <2>6
<1>13. ASSUME n = Wanted /\ receiver = "header" PROVE Further
  <2>1. Len(units) = HeaderSize /\ from = begins[r + 1]
    <3> HIDE DEF units
    <3> QED BY <1>1, <1>3, <1>7, <1>9, <1>10, <1>13
  <2>2. r < L /\ r + 1 \in 1 .. L
    <3> SUFFICES ASSUME r = L PROVE FALSE
      BY <1>3
    <3>1. begins[L + 1] + HeaderSize <= read + Len(wire)
      <4>1. read + n = from + HeaderSize
        BY <1>7a, <2>1
      <4>2. from = begins[L + 1]
        BY <2>1
      <4> HIDE DEF read, from, L
      <4> QED BY <1>1, <1>3, <1>10, <4>1, <4>2
    <3>2. HeaderSize \in Nat /\ HeaderSize > 0 /\ read \in Nat /\ begins[L + 1] \in Nat
          /\ Len(wire) \in Nat /\ written \in Nat
      BY <1>3, <1>10
    <3>3. read + Len(wire) <= written /\ written <= begins[L + 1]
      BY <1>5
    <3> HIDE DEF read, L
    <3> QED BY <3>1, <3>2, <3>3
  <2>3. Decoded(units) = {BodySize[msgs[r + 1]]}
    <3>1. Placed(units, begins[r + 1], msgs, begins) /\ Len(units) = HeaderSize /\ r + 1 \in 1 .. L
      BY <1>7, <2>1, <2>2
    <3> DEFINE k == r + 1
    <3>2. Placed(units, begins[k], msgs, begins) /\ k \in 1 .. Len(msgs)
      BY <3>1
    <3> HIDE DEF k, units
    <3>3. Decoded(units) = {BodySize[msgs[k]]}
      BY <1>3, <3>1, <3>2, HeaderDecoded
    <3> QED BY <3>3 DEF k
  <2>4. /\ receiver' = "body" /\ got' = <<>> /\ length' = BodySize[msgs[r + 1]]
        /\ received' = received
    BY <1>1, <1>8, <1>13, <2>3 DEF TakeHeader, Wanted
  <2>5. PartStart(begins)' = from + HeaderSize
    BY <2>1, <2>4 DEF PartStart
  <2>6. Len(got') = 0 /\ Placed(got', PartStart(begins)', msgs, begins)
    BY <2>4, NoUnits, EmptySeq
  <2>7. ReadTo(begins)' = read + n
    <3>1. ReadTo(begins)' = PartStart(begins)' + Len(got')
      BY DEF ReadTo
    <3>2. read + n = from + HeaderSize
      BY <1>7a, <2>1
    <3>3. ReadTo(begins)' = (from + HeaderSize) + 0
      BY <2>5, <2>6, <3>1
    <3> QED BY <1>3, <1>10, <3>2, <3>3
  <2>8. received \in Seq(Contents) /\ \A i \in 1 .. r : received[i] = msgs[i]
    BY <1>1, <1>4 DEF MessagesTypeOK, ReadFromStream
  <2>9. length' \in Nat
    <3>1. msgs[r + 1] \in Contents
      BY <1>3, <2>2, StreamFacts
    <3> QED BY <2>4, <3>1, FrameSizes
  <2> QED BY <1>3, <2>2, <2>4, <2>6, <2>7, <2>8, <2>9
<1>14. ASSUME n = Wanted /\ receiver = "body" PROVE Further
  <2> DEFINE text == msgs[r + 1]
  <2>1. /\ Len(units) = BodySize[text] /\ from = begins[r + 1] + HeaderSize
        /\ r + 1 \in 1 .. L /\ BodySize[text] \in Nat
    <3> HIDE DEF units, text
    <3>1. length = BodySize[text] /\ length \in Nat /\ r + 1 \in 1 .. L
      BY <1>11, <1>14 DEF text
    <3> QED BY <1>1, <1>3, <1>7, <1>9, <1>14, <3>1
  <2>2. TextOf(units) = text
    BY <1>3, <1>7, <2>1, BodyDecoded
  <2>3. /\ receiver' = "header" /\ got' = <<>> /\ received' = Append(received, text)
    BY <1>1, <1>8, <1>14, <2>2 DEF TakeBody, Wanted
  <2>4. /\ text \in Contents /\ begins[(r + 1) + 1] = begins[r + 1] + FrameSize(text)
        /\ FrameSize(text) = HeaderSize + BodySize[text]
    BY <1>3, <2>1, StreamFacts, FrameSizes
  <2>5. /\ received' \in Seq(Contents) /\ Len(received') = r + 1
        /\ received'[r + 1] = text /\ \A i \in 1 .. r : received'[i] = received[i]
    <3>1. received \in Seq(Contents)
      BY <1>1 DEF MessagesTypeOK
    <3> HIDE DEF text
    <3> QED BY <2>3, <2>4, <3>1, AppendProperties
  <2>6. \A i \in 1 .. r + 1 : received'[i] = msgs[i]
    <3>1. ASSUME NEW i \in 1 .. r + 1 PROVE received'[i] = msgs[i]
      <4>1. CASE i = r + 1
        BY <2>5, <4>1
      <4>2. CASE i # r + 1
        <5>1. i \in 1 .. r
          BY <1>3, <4>2
        <5>2. received[i] = msgs[i]
          BY <1>4, <5>1 DEF ReadFromStream
        <5> QED BY <2>5, <5>1, <5>2
      <4> QED BY <4>1, <4>2
    <3> QED BY <3>1
  <2>7. PartStart(begins)' = begins[(r + 1) + 1] /\ begins[(r + 1) + 1] \in Nat
    <3>1. PartStart(begins)' = begins[Len(received') + 1] + 0
      BY <2>3 DEF PartStart
    <3>2. begins[(r + 1) + 1] \in Nat
      BY <1>3, <2>1, StreamFacts
    <3> QED BY <2>5, <3>1, <3>2
  <2>8. Len(got') = 0 /\ Placed(got', PartStart(begins)', msgs, begins)
    BY <2>3, NoUnits, EmptySeq
  <2>9. ReadTo(begins)' = read + n
    <3>1. ReadTo(begins)' = PartStart(begins)' + Len(got')
      BY DEF ReadTo
    <3>2. read + n = from + BodySize[text]
      BY <1>7a, <2>1
    <3>3. ReadTo(begins)' = begins[(r + 1) + 1]
      BY <2>7, <2>8, <3>1
    <3>4. from = begins[r + 1] + HeaderSize
      BY <2>1
    <3>5. begins[(r + 1) + 1] = begins[r + 1] + (HeaderSize + BodySize[text])
      BY <2>4
    <3>6. HeaderSize \in Nat /\ BodySize[text] \in Nat /\ begins[r + 1] \in Nat
      BY <1>3, <1>10, <2>1
    <3> HIDE DEF text, read, from
    <3> QED BY <3>2, <3>3, <3>4, <3>5, <3>6
  <2>10. Len(received') <= L
    BY <1>3, <2>1, <2>5
  <2> HIDE DEF text
  <2> QED BY <1>10, <2>3, <2>5, <2>6, <2>8, <2>9, <2>10
<1>15. Further
  <2>1. Wanted \in Int
    BY <1>1, <1>3, <1>9, <1>10, <1>11
  <2> HIDE DEF Further
  <2> QED BY <1>1, <1>12, <1>13, <1>14, <2>1
<1>16. /\ Placed(wire', ReadTo(begins)', msgs, begins)
       /\ ReadTo(begins)' + Len(wire') = read + Len(wire)
  <2>1. ReadTo(begins)' = read + n
    BY <1>15
  <2>2. Len(wire') = Len(wire) - n /\ Placed(wire', read + n, msgs, begins)
    BY <1>6, <1>8
  <2> HIDE DEF rest, read
  <2> QED BY <1>1, <1>3, <2>1, <2>2
<1>17. MessagesTypeOK'
  <2>1. wire' \in Seq(Units) /\ got' \in Seq(Units)
    BY <1>15, <1>16 DEF Placed
  <2>2. Sending' = Sending
    BY <1>1 DEF Sending
  <2> QED BY <1>1, <1>15, <2>1, <2>2 DEF MessagesTypeOK
<1>18. ReadFromStream(msgs, begins, written)'
  <2>1. ReadTo(begins)' + Len(wire') <= written
    BY <1>5, <1>16
  <2> QED BY <1>15, <1>16, <2>1 DEF ReadFromStream
<1>19. SentInStream(msgs, begins, written)'
  BY <1>1, <1>4 DEF SentInStream
<1>20. connection' \in {"off", "up"} => RestToWrite(msgs, begins, written)'
  <2> SUFFICES ASSUME connection \in {"off", "up"} PROVE RestToWrite(msgs, begins, written)'
    BY <1>1
  <2>1. RestToWrite(msgs, begins, written)
    BY <1>2 DEF Accounted
  <2>2. Sending' = Sending /\ ReadTo(begins)' + Len(wire') = written
    BY <1>1, <1>16, <2>1 DEF Sending, RestToWrite
  <2> QED BY <1>1, <2>1, <2>2 DEF RestToWrite
<1>21. Accounted(msgs, begins, written)'
  BY <1>18, <1>19, <1>20 DEF Accounted
<1> QED BY <1>15, <1>17, <1>21 DEF MessagesInv

LEMMA OthersAccounted ==
    ASSUME MessagesInv,
           Connects \/ Breaks \/ Disconnected \/ (\E w \in Writers : WriteFails(w))
           \/ UNCHANGED messageVars
    PROVE  MessagesInv'
<1>1. MessagesTypeOK
  BY DEF MessagesInv
<1>2. CASE Disconnected
  <2>1. /\ receiver # "ended" /\ receiver' = "ended" /\ connection \in {"down", "exited"}
        /\ UNCHANGED <<connection, wire, toWrite, sent, got, received>>
    BY <1>2 DEF Disconnected, senderVars
  <2>2. ArriveInOrder
    BY <1>1, <2>1, AccountedInOrder DEF MessagesInv
  <2>3. MessagesTypeOK' /\ ArriveInOrder'
    BY <1>1, <2>1, <2>2 DEF MessagesTypeOK, Sending, ArriveInOrder
  <2> QED BY <2>1, <2>3 DEF MessagesInv
<1>3. CASE ~Disconnected
  <2>1. /\ UNCHANGED <<sent, receiver, got, length, received>>
        /\ wire' \in {wire, <<>>}
        /\ connection \in {"off", "up"} \/ connection' = connection \/ connection' = "exited"
        /\ connection' \in {"off", "up", "down", "exited"}
        /\ connection' \in {"off", "up"} => /\ connection \in {"off", "up"}
                                            /\ wire' = wire
        /\ receiver = "ended" => connection' \in {"down", "exited"}
        /\ toWrite' = toWrite \/ toWrite' = [v \in Writers |-> <<>>]
        /\ connection' \in {"off", "up"} => toWrite' = toWrite
    BY <1>1, <1>3 DEF Connects, Breaks, WriteFails, senderVars, receiverVars, messageVars,
                      MessagesInv, MessagesTypeOK
  <2>2. <<>> \in Seq(Units) /\ Len(<<>>) = 0
    BY EmptySeq
  <2>3. MessagesTypeOK'
    <3>1. CASE toWrite' = toWrite
      BY <1>1, <2>1, <2>2, <3>1 DEF MessagesTypeOK, Sending
    <3>2. CASE toWrite' = [v \in Writers |-> <<>>]
      <4>1. toWrite' \in [Writers -> Seq(Units)]
        BY <2>2, <3>2
      <4>2. Sending' = {}
        BY <3>2 DEF Sending
      <4> QED BY <1>1, <2>1, <2>2, <4>1, <4>2 DEF MessagesTypeOK
    <3> QED BY <2>1, <3>1, <3>2
  <2>4. CASE receiver = "ended"
    BY <2>1, <2>3, <2>4 DEF MessagesInv, ArriveInOrder
  <2>5. CASE receiver # "ended"
    <3>1. PICK msgs, begins, written : Accounted(msgs, begins, written)
      BY <2>5 DEF MessagesInv
    <3>2. /\ written \in Nat /\ ReadTo(begins) \in Nat /\ Len(wire) \in Nat
          /\ SentInStream(msgs, begins, written) /\ ReadFromStream(msgs, begins, written)
      BY <1>1, <3>1, AccountedNumbers DEF Accounted
    <3>3. Placed(wire', ReadTo(begins), msgs, begins) /\ ReadTo(begins) + Len(wire') <= written
      <4>1. Placed(wire, ReadTo(begins), msgs, begins) /\ ReadTo(begins) + Len(wire) <= written
        BY <3>2 DEF ReadFromStream
      <4>2. CASE wire' = wire
        BY <4>1, <4>2
      <4>3. CASE wire' = <<>>
        BY <2>2, <3>2, <4>1, <4>3, NoUnits
      <4> QED BY <2>1, <4>2, <4>3
    <3>4. ReadTo(begins)' = ReadTo(begins) /\ ReadFromStream(msgs, begins, written)'
      BY <2>1, <3>2, <3>3, ReaderUnmoved
    <3>5. SentInStream(msgs, begins, written)'
      BY <2>1, <3>2 DEF SentInStream
    <3>6. connection' \in {"off", "up"} => RestToWrite(msgs, begins, written)'
      <4> SUFFICES ASSUME connection' \in {"off", "up"} PROVE RestToWrite(msgs, begins, written)'
        OBVIOUS
      <4>1. RestToWrite(msgs, begins, written) /\ toWrite' = toWrite /\ wire' = wire
        BY <2>1, <3>1 DEF Accounted
      <4> QED BY <2>1, <3>4, <4>1 DEF RestToWrite, Sending
    <3>7. Accounted(msgs, begins, written)'
      BY <3>4, <3>5, <3>6 DEF Accounted
    <3> QED BY <2>1, <2>3, <2>5, <3>7 DEF MessagesInv
  <2> QED BY <2>4, <2>5
<1> QED BY <1>2, <1>3

\* receive_msg gives the texts that send_message was given, whole, in the order of the sends and
\* none twice, however read and write cut the stream (shared.h:67-134).
THEOREM WholeAndInOrder == MessagesSpec => []ArriveInOrder
<1>1. MessagesInit => MessagesInv
  <2> SUFFICES ASSUME MessagesInit PROVE MessagesInv
    OBVIOUS
  <2>1. /\ <<>> \in Seq(Units) /\ <<>> \in Seq(Contents) /\ Len(<<>>) = 0
        /\ 1 .. 0 = {} /\ 1 .. 0 + 1 = {1} /\ 0 + 1 = 1
    BY EmptySeq
  <2>2. MessagesTypeOK /\ Sending = {}
    BY <2>1 DEF MessagesInit, MessagesTypeOK, Sending
  <2> DEFINE one == [k \in {1} |-> 0]
  <2>3. one[1] = 0 /\ one \in [1 .. 0 + 1 -> Nat]
    BY <2>1
  <2>4. Stream(<<>>, one)
    BY <2>1, <2>3 DEF Stream
  <2>5. PartStart(one) = 0 /\ ReadTo(one) = 0
    BY <2>1, <2>3 DEF MessagesInit, PartStart, ReadTo
  <2>6. SentInStream(<<>>, one, 0) /\ RestToWrite(<<>>, one, 0)
    BY <2>1, <2>2, <2>3, <2>4, <2>5 DEF MessagesInit, SentInStream, RestToWrite
  <2>7. ReadFromStream(<<>>, one, 0)
    BY <2>1, <2>5, NoUnits, MessagesAssumption DEF MessagesInit, ReadFromStream
  <2>8. Accounted(<<>>, one, 0)
    BY <2>6, <2>7 DEF Accounted
  <2> QED BY <2>2, <2>8 DEF MessagesInit, MessagesInv
<1>2. MessagesInv /\ [MessagesNext]_messageVars => MessagesInv'
  <2> SUFFICES ASSUME MessagesInv, [MessagesNext]_messageVars PROVE MessagesInv'
    OBVIOUS
  <2> QED BY BeginAccounted, WriteAccounted, ReadAccounted, OthersAccounted
          DEF MessagesNext, ReaderStep, WriterStep
<1>3. MessagesInv => ArriveInOrder
  BY AccountedInOrder DEF MessagesInv
<1> QED BY <1>1, <1>2, <1>3, PTL DEF MessagesSpec
=============================================================================
