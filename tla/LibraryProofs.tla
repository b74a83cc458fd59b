---------------------------- MODULE LibraryProofs ----------------------------
(* Library, for every finite set of callers and every number of threads:   *)
(* whoever holds the library finds it running.                             *)
EXTENDS Library, SequenceTheorems, FiniteSetTheorems, TLAPS

Members(s) == {s[i] : i \in 1..Len(s)}

\* The head of a sequence and the members of its tail are its members.
LEMMA MembersTail ==
  ASSUME NEW S, NEW s \in Seq(S), s # <<>>
  PROVE  /\ Tail(s) \in Seq(S) /\ Head(s) \in S
         /\ Members(s) \subseteq {Head(s)} \cup Members(Tail(s))
<1>1. /\ Tail(s) \in Seq(S) /\ Len(s) \in Nat \ {0}
      /\ Len(Tail(s)) = Len(s) - 1
      /\ \A i \in 1..Len(s) - 1 : Tail(s)[i] = s[i + 1]
      /\ Head(s) = s[1] /\ s[1] \in S
  BY HeadTailProperties, EmptySeq, LenProperties
<1>2. ASSUME NEW j \in 1..Len(s), j # 1 PROVE s[j] \in Members(Tail(s))
  <2>1. j - 1 \in 1..Len(Tail(s)) /\ Tail(s)[j - 1] = s[j]
    BY <1>1, <1>2
  <2> QED BY <2>1 DEF Members
<1> QED BY <1>1, <1>2 DEF Members

\* What the sequences of shutdown calls contain.
LEMMA MembersShutdown ==
  /\ Members(<<>>) = {}
  /\ {"io", "sockets"} \subseteq Members(<<"io", "sockets">>)
  /\ Resource \subseteq Members(Undo)
  /\ Resource \subseteq Members(shutdownLibraryResources)
  /\ <<"io", "sockets">> \in Seq(Resource) /\ <<>> \in Seq(Resource)
  /\ Undo \in Seq(Resource) /\ shutdownLibraryResources \in Seq(Resource)
<1>1. Members(<<>>) = {}
  BY DEF Members
<1>2. {"io", "sockets"} \subseteq Members(<<"io", "sockets">>)
  <2> DEFINE s == <<"io", "sockets">>
  <2>1. Len(s) = 2 /\ s[1] = "io" /\ s[2] = "sockets"
    OBVIOUS
  <2> QED BY <2>1 DEF Members
<1>3. Resource \subseteq Members(Undo)
  <2>1. /\ Len(Undo) = 5 /\ Undo[1] = "monitor" /\ Undo[2] = "logger"
        /\ Undo[3] = "timers" /\ Undo[4] = "io" /\ Undo[5] = "sockets"
    BY DEF Undo
  <2> QED BY <2>1 DEF Members, Resource
<1>4. Resource \subseteq Members(shutdownLibraryResources)
  <2> DEFINE s == shutdownLibraryResources
  <2>1. /\ Len(s) = 5 /\ s[1] = "timers" /\ s[2] = "io" /\ s[3] = "monitor"
        /\ s[4] = "logger" /\ s[5] = "sockets"
    BY DEF shutdownLibraryResources
  <2> QED BY <2>1 DEF Members, Resource
<1>5. /\ <<"io", "sockets">> \in Seq(Resource) /\ <<>> \in Seq(Resource)
      /\ Undo \in Seq(Resource) /\ shutdownLibraryResources \in Seq(Resource)
  BY DEF Undo, shutdownLibraryResources, Resource
<1> QED BY <1>1, <1>2, <1>3, <1>4, <1>5

\* A number of threads is positive and survives normalizeThreadCount().
LEMMA ThreadCounts ==
  ASSUME NEW n \in Nat
  PROVE  /\ resolveRequestedThreadCount(n) \in Nat \ {0}
         /\ normalizeThreadCount(n) \in Nat \ {0}
         /\ normalizeThreadCount(resolveRequestedThreadCount(n)) = resolveRequestedThreadCount(n)
BY Counts DEF resolveRequestedThreadCount, normalizeThreadCount, AtMost

-----------------------------------------------------------------------------
(* The inductive invariant.                                                *)

\* Which callers hold the library, and how often it is counted.
Claims ==
    /\ \A p \in Caller :
          /\ Changing(p) => p \notin held
          /\ pc[p] \in {"enter", "asleep"} =>
                IF op[p] = "initialize" THEN p \notin held ELSE p \in held \cup Careless
    /\ state = "Initialized" <=> refCount > 0
    /\ RefCountExact

\* How far the caller that starts or takes down the resources has come.
Phase(p) ==
    /\ pc[p] \in {"sockets", "io"} => up \cap {"monitor", "logger"} = {}
    /\ pc[p] = "sockets" => "sockets" \notin up /\ (Lazy \/ up = {})
    /\ pc[p] = "io" => Lazy \/ up \subseteq {"sockets"}
    /\ pc[p] \in {"io", "timers", "configure", "commit"} => "sockets" \in up
    /\ pc[p] \in {"timers", "configure", "commit"} =>
          "io" \in up /\ (Lazy \/ ioThreads = resolveRequestedThreadCount(request[p]))
    /\ pc[p] \in {"configure", "commit"} => "timers" \in up
    /\ pc[p] = "down" =>
          /\ up \cap {"sockets", "monitor", "logger"} \subseteq Members(left[p])
          /\ Lazy \/ up \subseteq Members(left[p])
    /\ pc[p] \in {"sockets", "io", "timers", "configure", "commit"} => op[p] = "initialize"

Phases ==
    /\ \A p \in Caller : Phase(p)
    /\ "io" \in up <=> ioThreads > 0
    /\ ReadyWhenInitialized /\ NothingLeftBehind /\ ThreadsAsAsked

IInv == TypeOK /\ OneChanger /\ Claims /\ Phases

\* Cardinalities of sets of callers.
LEMMA HeldCounts ==
  ASSUME NEW h, h \subseteq Caller, NEW p \in Caller
  PROVE  /\ Cardinality(h) \in Nat
         /\ Cardinality(h) = 0 <=> h = {}
         /\ p \notin h => Cardinality(h \cup {p}) = Cardinality(h) + 1 /\ h \ {p} = h
         /\ p \in h => Cardinality(h \ {p}) = Cardinality(h) - 1
<1>1. IsFiniteSet(h)
  BY Callers, FS_Subset
<1>2. Cardinality(h) \in Nat /\ (Cardinality(h) = 0 <=> h = {})
  BY <1>1, FS_CardinalityType, FS_EmptySet
<1>3. ASSUME p \notin h PROVE Cardinality(h \cup {p}) = Cardinality(h) + 1 /\ h \ {p} = h
  BY <1>1, <1>3, FS_AddElement
<1>4. ASSUME p \in h PROVE Cardinality(h \ {p}) = Cardinality(h) - 1
  BY <1>1, <1>4, FS_RemoveElement
<1> QED BY <1>2, <1>3, <1>4

\* While a caller starts or takes down resources no other does, and nobody
\* holds the library.
LEMMA OtherCallers ==
  ASSUME IInv, NEW p \in Caller, Changing(p)
  PROVE  /\ \A q \in Caller \ {p} : ~Changing(q)
         /\ ~Settled
         /\ Careless = {} => held = {}
<1>1. \A q \in Caller \ {p} : ~Changing(q)
  BY DEF IInv, OneChanger
<1>2. ~Settled /\ state # "Initialized"
  BY DEF IInv, OneChanger, Settled
<1>3. ASSUME Careless = {} PROVE held = {}
  <2>1. refCount = 0 /\ refCount = Cardinality(held)
    BY <1>2, <1>3 DEF IInv, TypeOK, Claims, RefCountExact
  <2> QED BY Zenon, <2>1, HeldCounts DEF IInv, TypeOK
<1> QED BY <1>1, <1>2, <1>3

\* The number of holders after a cleanup().
LEMMA CleanupCounts ==
  ASSUME IInv, NEW p \in Caller, Enters(p, "cleanup")
  PROVE  /\ Cardinality(held \ {p}) \in Nat
         /\ refCount - 1 <= Cardinality(held \ {p})
         /\ Careless = {} => refCount > 0 /\ refCount - 1 = Cardinality(held \ {p})
<1>1. held \subseteq Caller /\ held \ {p} \subseteq Caller /\ refCount \in Nat
  BY DEF IInv, TypeOK
<1>2. Cardinality(held) \in Nat /\ Cardinality(held \ {p}) \in Nat /\ (Cardinality(held) = 0 <=> held = {})
  BY Zenon, <1>1, HeldCounts
<1>3. /\ p \notin held => held \ {p} = held
      /\ p \in held => Cardinality(held \ {p}) = Cardinality(held) - 1
  BY <1>1, HeldCounts
<1>4. p \in held \cup Careless /\ refCount <= Cardinality(held)
  BY DEF IInv, Claims, Enters, RefCountExact
<1>5. ASSUME Careless = {} PROVE p \in held /\ refCount = Cardinality(held) /\ held # {}
  BY <1>4, <1>5 DEF IInv, Claims, RefCountExact
<1>6. refCount - 1 <= Cardinality(held \ {p})
  BY <1>1, <1>2, <1>3, <1>4
<1>7. ASSUME Careless = {} PROVE refCount > 0 /\ refCount - 1 = Cardinality(held \ {p})
  <2>1. p \in held /\ refCount = Cardinality(held) /\ held # {}
    BY <1>5, <1>7
  <2> QED BY <2>1, <1>1, <1>2, <1>3
<1> QED BY <1>2, <1>6, <1>7

\* A caller that does neither has no phase.
LEMMA NoPhase ==
  ASSUME NEW p \in Caller, ~Changing(p)
  PROVE  Phase(p)
BY DEF Changing, Phase

\* The initial states satisfy the invariant.
LEMMA InitHolds == Init => IInv
<1> SUFFICES ASSUME Init PROVE IInv
  OBVIOUS
<1>1. Cardinality({}) = 0
  BY FS_EmptySet
<1>2. TypeOK
  BY DEF Init, TypeOK, Label
<1>3. OneChanger /\ Phases
  BY DEF Init, OneChanger, Phases, Phase, Changing, Settled, ReadyWhenInitialized,
     NothingLeftBehind, ThreadsAsAsked
<1>4. Claims
  BY <1>1 DEF Init, Claims, Changing, RefCountExact
<1> QED BY <1>2, <1>3, <1>4 DEF IInv

\* A call of initialize() keeps the invariant.
LEMMA CallInitializeKeeps ==
  ASSUME IInv, NEW p \in Caller, NEW n \in ThreadCount, CallInitialize(p, n)
  PROVE  IInv'
<1> USE DEF IInv
<1>1. TypeOK'
  BY Counts DEF TypeOK, Label, Resource, CallInitialize, Goto, libraryVars, ioVars, callVars
<1>2. OneChanger'
  BY DEF TypeOK, OneChanger, Changing, Settled, CallInitialize, Goto, libraryVars, ioVars,
     callVars
<1>3. Claims'
  BY DEF TypeOK, OneChanger, Claims, RefCountExact, Changing, Settled, CallInitialize, Goto,
     libraryVars, ioVars, callVars
<1>4. Phases'
  BY DEF TypeOK, OneChanger, Claims, RefCountExact, Changing, Phases, Phase,
     ReadyWhenInitialized, NothingLeftBehind, ThreadsAsAsked, Settled, Needed, Resource,
     CallInitialize, Goto, libraryVars, ioVars, callVars
<1> QED BY <1>1, <1>2, <1>3, <1>4

\* A call of cleanup() keeps the invariant.
LEMMA CallCleanupKeeps ==
  ASSUME IInv, NEW p \in Caller, CallCleanup(p)
  PROVE  IInv'
<1> USE DEF IInv
<1>1. TypeOK'
  BY DEF TypeOK, Label, Resource, CallCleanup, Goto, libraryVars, ioVars, callVars
<1>2. OneChanger'
  BY DEF TypeOK, OneChanger, Changing, Settled, CallCleanup, Goto, libraryVars, ioVars, callVars
<1>3. Claims'
  BY DEF TypeOK, OneChanger, Claims, RefCountExact, Changing, Settled, CallCleanup, Goto,
     libraryVars, ioVars, callVars
<1>4. Phases'
  BY DEF TypeOK, OneChanger, Claims, RefCountExact, Changing, Phases, Phase,
     ReadyWhenInitialized, NothingLeftBehind, ThreadsAsAsked, Settled, Needed, Resource,
     CallCleanup, Goto, libraryVars, ioVars, callVars
<1> QED BY <1>1, <1>2, <1>3, <1>4

\* Going to sleep on g_libraryCondition keeps the invariant.
LEMMA SleepKeeps ==
  ASSUME IInv, NEW p \in Caller, Sleep(p)
  PROVE  IInv'
<1> USE DEF IInv
<1>1. TypeOK'
  BY DEF TypeOK, Label, Resource, Sleep, Goto, libraryVars, ioVars, callVars, Settled
<1>2. OneChanger'
  BY DEF TypeOK, OneChanger, Changing, Settled, Sleep, Goto, libraryVars, ioVars, callVars
<1>3. Claims'
  BY DEF TypeOK, OneChanger, Claims, RefCountExact, Changing, Settled, Sleep, Goto, libraryVars,
     ioVars, callVars
<1>4. Phases'
  BY DEF TypeOK, OneChanger, Claims, RefCountExact, Changing, Phases, Phase,
     ReadyWhenInitialized, NothingLeftBehind, ThreadsAsAsked, Settled, Needed, Resource, Sleep,
     Goto, libraryVars, ioVars, callVars
<1> QED BY <1>1, <1>2, <1>3, <1>4

\* The notification at the end of a call keeps the invariant.
LEMMA NotifyKeeps ==
  ASSUME IInv, NEW p \in Caller, Notify(p)
  PROVE  IInv'
<1> USE DEF IInv
<1>1. TypeOK'
  BY DEF TypeOK, Label, Resource, Notify, libraryVars, ioVars, callVars
<1>2. OneChanger'
  BY Zenon DEF TypeOK, OneChanger, Changing, Settled, Notify, libraryVars, ioVars, callVars
<1>3. Claims'
  BY DEF TypeOK, OneChanger, Claims, RefCountExact, Changing, Settled, Notify, libraryVars,
     ioVars, callVars
<1>4. Phases'
  BY DEF TypeOK, OneChanger, Claims, RefCountExact, Changing, Phases, Phase,
     ReadyWhenInitialized, NothingLeftBehind, ThreadsAsAsked, Settled, Needed, Resource, Notify,
     libraryVars, ioVars, callVars
<1> QED BY <1>1, <1>2, <1>3, <1>4

\* initialize() of a library that runs keeps the invariant.
LEMMA InitializeAgainKeeps ==
  ASSUME IInv, NEW p \in Caller, InitializeAgain(p)
  PROVE  IInv'
<1> USE DEF IInv
<1>1. TypeOK'
  BY DEF TypeOK, Label, Resource, InitializeAgain, Goto, libraryVars, ioVars, callVars, Enters,
     Settled
<1>2. OneChanger'
  BY DEF TypeOK, OneChanger, Changing, Settled, InitializeAgain, Goto, libraryVars, ioVars,
     callVars, Enters
<1>3. Claims'
  <2>1. held \subseteq Caller
    BY DEF TypeOK
  <2>2. /\ Cardinality(held) \in Nat /\ (Cardinality(held) = 0 <=> held = {})
        /\ p \notin held => Cardinality(held \cup {p}) = Cardinality(held) + 1 /\ held \ {p} = held
        /\ p \in held => Cardinality(held \ {p}) = Cardinality(held) - 1
    BY Zenon, <2>1, HeldCounts
  <2>3. RefCountExact' /\ (state = "Initialized" <=> refCount > 0)'
    BY <2>2 DEF TypeOK, OneChanger, Claims, RefCountExact, Changing, Settled, InitializeAgain,
       Goto, libraryVars, ioVars, callVars, Enters
  <2>4. ASSUME NEW q \in Caller
        PROVE  /\ Changing(q)' => q \notin held'
               /\ pc'[q] \in {"enter", "asleep"} =>
                     IF op'[q] = "initialize" THEN q \notin held' ELSE q \in held' \cup Careless
    BY DEF TypeOK, OneChanger, Claims, Changing, Settled, InitializeAgain, Goto, libraryVars,
       ioVars, callVars, Enters
  <2> QED BY <2>3, <2>4 DEF Claims
<1>4. Phases'
  BY DEF TypeOK, OneChanger, Claims, RefCountExact, Changing, Phases, Phase,
     ReadyWhenInitialized, NothingLeftBehind, ThreadsAsAsked, Settled, Needed, Resource,
     InitializeAgain, Goto, libraryVars, ioVars, callVars, Enters
<1> QED BY <1>1, <1>2, <1>3, <1>4

\* A refused initialize() keeps the invariant.
LEMMA InitializeRefusedKeeps ==
  ASSUME IInv, NEW p \in Caller, InitializeRefused(p)
  PROVE  IInv'
<1> USE DEF IInv
<1>1. TypeOK'
  BY Zenon DEF TypeOK, Label, Resource, InitializeRefused, Goto, libraryVars, ioVars, callVars,
     Enters, Settled
<1>2. OneChanger'
  BY DEF TypeOK, OneChanger, Changing, Settled, InitializeRefused, Goto, libraryVars, ioVars,
     callVars, Enters
<1>3. Claims'
  BY DEF TypeOK, OneChanger, Claims, RefCountExact, Changing, Settled, InitializeRefused, Goto,
     libraryVars, ioVars, callVars, Enters
<1>4. Phases'
  BY DEF TypeOK, OneChanger, Claims, RefCountExact, Changing, Phases, Phase,
     ReadyWhenInitialized, NothingLeftBehind, ThreadsAsAsked, Settled, Needed, Resource,
     InitializeRefused, Goto, libraryVars, ioVars, callVars, Enters
<1> QED BY <1>1, <1>2, <1>3, <1>4

\* The first initialize() keeps the invariant.
LEMMA InitializeFirstKeeps ==
  ASSUME IInv, NEW p \in Caller, InitializeFirst(p)
  PROVE  IInv'
<1> USE DEF IInv
<1>1. TypeOK'
  BY DEF TypeOK, Label, Resource, InitializeFirst, Goto, libraryVars, ioVars, callVars, Enters,
     Settled
<1>2. OneChanger'
  BY DEF TypeOK, OneChanger, Changing, Settled, InitializeFirst, Goto, libraryVars, ioVars,
     callVars, Enters
<1>3. Claims'
  BY DEF TypeOK, OneChanger, Claims, RefCountExact, Changing, Settled, InitializeFirst, Goto,
     libraryVars, ioVars, callVars, Enters
<1>4. Phases'
  BY DEF TypeOK, OneChanger, Claims, RefCountExact, Changing, Phases, Phase,
     ReadyWhenInitialized, NothingLeftBehind, ThreadsAsAsked, Settled, Needed, Resource,
     InitializeFirst, Goto, libraryVars, ioVars, callVars, Enters
<1> QED BY <1>1, <1>2, <1>3, <1>4

\* Starting the socket library keeps the invariant.
LEMMA InitializeSocketLibraryKeeps ==
  ASSUME IInv, NEW p \in Caller, initializeSocketLibrary(p)
  PROVE  IInv'
<1> USE DEF IInv
<1>0. /\ left' \in [Caller -> Seq(Resource)] /\ pc' \in [Caller -> Label]
  BY Zenon, MembersShutdown DEF TypeOK, Label, initializeSocketLibrary, Goto, libraryVars, ioVars,
     callVars, Fail
<1>1. TypeOK'
  BY Zenon, <1>0 DEF TypeOK, Label, Resource, initializeSocketLibrary, Goto, libraryVars, ioVars,
     callVars, Fail
<1>2. OneChanger'
  BY Zenon DEF TypeOK, OneChanger, Changing, Settled, initializeSocketLibrary, Goto, libraryVars,
     ioVars, callVars, Fail
<1>3. Claims'
  BY DEF TypeOK, OneChanger, Claims, RefCountExact, Changing, Settled, initializeSocketLibrary,
     Goto, libraryVars, ioVars, callVars, Fail
<1>4. Phases'
  <2>1. /\ \A q \in Caller \ {p} : ~Changing(q) /\ pc'[q] = pc[q]
        /\ Careless = {} => held' \subseteq {p}
    BY Zenon, OtherCallers DEF TypeOK, OneChanger, Claims, RefCountExact, Changing, Settled,
       initializeSocketLibrary, Goto, libraryVars, ioVars, callVars, Fail
  <2>2. \A q \in Caller \ {p} : Phase(q)'
    BY <2>1, NoPhase DEF Changing, Phase
  <2>3. Phase(p)'
    BY ZenonT(30), <1>0, MembersShutdown DEF TypeOK, Phases, Phase, NothingLeftBehind, Resource,
       initializeSocketLibrary, Goto, libraryVars, ioVars, callVars, Fail
  <2>4. ("io" \in up <=> ioThreads > 0)'
    BY <1>0, MembersShutdown DEF TypeOK, Phases, initializeSocketLibrary, Goto, libraryVars,
       ioVars, callVars, Fail
  <2>5. ReadyWhenInitialized' /\ NothingLeftBehind'
    BY <1>0, MembersShutdown, OtherCallers DEF TypeOK, OneChanger, Changing, Phases, Phase,
       ReadyWhenInitialized, NothingLeftBehind, Settled, Needed, Resource,
       initializeSocketLibrary, Goto, libraryVars, ioVars, callVars, Fail
  <2>6. ThreadsAsAsked'
    BY <2>1 DEF TypeOK, Claims, Changing, Phases, Phase, ThreadsAsAsked,
       initializeSocketLibrary, Goto, libraryVars, ioVars, callVars, Fail
  <2> QED BY <2>2, <2>3, <2>4, <2>5, <2>6 DEF Phases
<1> QED BY <1>1, <1>2, <1>3, <1>4

\* Starting the IoService keeps the invariant.
LEMMA StartIoKeeps ==
  ASSUME IInv, NEW p \in Caller, StartIo(p)
  PROVE  IInv'
<1> USE DEF IInv
<1>0. /\ left' \in [Caller -> Seq(Resource)] /\ pc' \in [Caller -> Label]
  <2>1. PICK l \in {"timers", "down"} : Goto(p, l)
    BY DEF StartIo, Fail
  <2>2. UNCHANGED left \/ \E t \in {<<"io", "sockets">>, Undo} : left' = [left EXCEPT ![p] = t]
    BY DEF StartIo, Fail
  <2>3. pc' \in [Caller -> Label]
    BY <2>1 DEF TypeOK, Label, Goto
  <2>4. left' \in [Caller -> Seq(Resource)]
    BY Zenon, <2>2, MembersShutdown DEF TypeOK
  <2> QED BY <2>3, <2>4
<1>1. TypeOK'
  <2>1. /\ resolveRequestedThreadCount(request[p]) \in Nat
        /\ normalizeThreadCount(resolveRequestedThreadCount(request[p])) \in Nat
    BY ThreadCounts DEF TypeOK
  <2>2. up' \subseteq Resource /\ ioThreads' \in Nat /\ ioWanted' \in Nat
    BY Zenon, <2>1 DEF TypeOK, Resource, StartIo
  <2> QED BY <1>0, <2>2 DEF TypeOK, StartIo, libraryVars, callVars
<1>2. OneChanger'
  BY Zenon DEF TypeOK, OneChanger, Changing, Settled, StartIo, Goto, libraryVars, ioVars, callVars,
     Fail
<1>3. Claims'
  BY DEF TypeOK, OneChanger, Claims, RefCountExact, Changing, Settled, StartIo, Goto,
     libraryVars, ioVars, callVars, Fail
<1>4. Phases'
  <2>1. /\ \A q \in Caller \ {p} : ~Changing(q) /\ pc'[q] = pc[q]
        /\ Careless = {} => held' \subseteq {p}
    BY Zenon, OtherCallers DEF TypeOK, OneChanger, Claims, RefCountExact, Changing, Settled, StartIo,
       Goto, libraryVars, ioVars, callVars, Fail
  <2>2. \A q \in Caller \ {p} : Phase(q)'
    BY <2>1, NoPhase DEF Changing, Phase
  <2>3. Phase(p)'
    <3>1. /\ pc[p] = "io" /\ "sockets" \in up /\ up \cap {"monitor", "logger"} = {}
          /\ op[p] = "initialize" /\ (Lazy \/ up \subseteq {"sockets"})
      BY DEF Phases, Phase, StartIo
    <3>2. CASE pc'[p] = "timers"
      <4>1. /\ up' = up \cup {"io"} /\ op' = op /\ request' = request
            /\ ioThreads' = IF "io" \in up THEN ioThreads
                            ELSE normalizeThreadCount(resolveRequestedThreadCount(request[p]))
        BY <3>2 DEF StartIo, Fail, Goto, TypeOK, callVars
      <4>2. Lazy \/ ioThreads' = resolveRequestedThreadCount(request[p])
        BY <3>1, <4>1, ThreadCounts DEF TypeOK
      <4> QED BY <3>1, <3>2, <4>1, <4>2 DEF Phase
    <3>3. CASE pc'[p] = "down"
      <4>1. /\ up' = up /\ "io" \notin up /\ op' = op
            /\ left'[p] = <<"io", "sockets">> \/ left'[p] = Undo
        BY <3>3 DEF StartIo, Fail, Goto, TypeOK, callVars
      <4>2. up \subseteq Resource
        BY DEF TypeOK
      <4> QED BY <3>1, <3>3, <4>1, <4>2, MembersShutdown DEF Phase, Resource
    <3>4. pc'[p] \in {"timers", "down"}
      BY DEF StartIo, Fail, Goto, TypeOK
    <3> QED BY <3>2, <3>3, <3>4
  <2>4. ("io" \in up <=> ioThreads > 0)'
    <3>1. normalizeThreadCount(resolveRequestedThreadCount(request[p])) \in Nat \ {0}
      BY Zenon, ThreadCounts DEF TypeOK
    <3> QED BY <3>1 DEF TypeOK, Phases, StartIo
  <2>5. ReadyWhenInitialized' /\ NothingLeftBehind'
    BY Zenon, <1>0, MembersShutdown, ThreadCounts, OtherCallers DEF TypeOK, OneChanger, Changing,
       Phases, Phase, ReadyWhenInitialized, NothingLeftBehind, Settled, Needed, Resource,
       StartIo, Goto, libraryVars, ioVars, callVars, Fail
  <2>6. ThreadsAsAsked'
    BY <2>1 DEF TypeOK, Claims, Changing, Phases, Phase, ThreadsAsAsked, StartIo, Goto,
       libraryVars, ioVars, callVars, Fail
  <2> QED BY <2>2, <2>3, <2>4, <2>5, <2>6 DEF Phases
<1> QED BY <1>1, <1>2, <1>3, <1>4

\* Starting the timers keeps the invariant.
LEMMA StartTimersKeeps ==
  ASSUME IInv, NEW p \in Caller, StartTimers(p)
  PROVE  IInv'
<1> USE DEF IInv
<1>0. /\ left' \in [Caller -> Seq(Resource)] /\ pc' \in [Caller -> Label]
  BY ZenonT(30), MembersShutdown DEF TypeOK, Label, StartTimers, Goto, libraryVars, ioVars, callVars, Fail
<1>1. TypeOK'
  BY Zenon, <1>0 DEF TypeOK, Label, Resource, StartTimers, Goto, libraryVars, ioVars, callVars, Fail
<1>2. OneChanger'
  BY Zenon DEF TypeOK, OneChanger, Changing, Settled, StartTimers, Goto, libraryVars, ioVars,
     callVars, Fail
<1>3. Claims'
  BY DEF TypeOK, OneChanger, Claims, RefCountExact, Changing, Settled, StartTimers, Goto,
     libraryVars, ioVars, callVars, Fail
<1>4. Phases'
  <2>1. /\ \A q \in Caller \ {p} : ~Changing(q) /\ pc'[q] = pc[q]
        /\ Careless = {} => held' \subseteq {p}
    BY Zenon, OtherCallers DEF TypeOK, OneChanger, Claims, RefCountExact, Changing, Settled,
       StartTimers, Goto, libraryVars, ioVars, callVars, Fail
  <2>2. \A q \in Caller \ {p} : Phase(q)'
    BY <2>1, NoPhase DEF Changing, Phase
  <2>3. Phase(p)'
    BY ZenonT(30), <1>0, MembersShutdown DEF TypeOK, Phases, Phase, NothingLeftBehind, Resource,
       StartTimers, Goto, libraryVars, ioVars, callVars, Fail
  <2>4. ("io" \in up <=> ioThreads > 0)'
    BY <1>0, MembersShutdown DEF TypeOK, Phases, StartTimers, Goto, libraryVars, ioVars,
       callVars, Fail
  <2>5. ReadyWhenInitialized' /\ NothingLeftBehind'
    BY <1>0, MembersShutdown, OtherCallers DEF TypeOK, OneChanger, Changing, Phases, Phase,
       ReadyWhenInitialized, NothingLeftBehind, Settled, Needed, Resource, StartTimers, Goto,
       libraryVars, ioVars, callVars, Fail
  <2>6. ThreadsAsAsked'
    BY <2>1 DEF TypeOK, Claims, Changing, Phases, Phase, ThreadsAsAsked, StartTimers, Goto,
       libraryVars, ioVars, callVars, Fail
  <2> QED BY <2>2, <2>3, <2>4, <2>5, <2>6 DEF Phases
<1> QED BY <1>1, <1>2, <1>3, <1>4

\* Applying the configuration keeps the invariant.
LEMMA ApplyRuntimeConfigurationKeeps ==
  ASSUME IInv, NEW p \in Caller, applyRuntimeConfiguration(p)
  PROVE  IInv'
<1> USE DEF IInv
<1>0. /\ left' \in [Caller -> Seq(Resource)] /\ pc' \in [Caller -> Label]
  BY ZenonT(30), MembersShutdown DEF TypeOK, Label, applyRuntimeConfiguration, Goto, libraryVars, ioVars,
     callVars, Fail
<1>1. TypeOK'
  BY Zenon, <1>0 DEF TypeOK, Label, Resource, applyRuntimeConfiguration, Goto, libraryVars, ioVars,
     callVars, Fail
<1>2. OneChanger'
  BY Zenon DEF TypeOK, OneChanger, Changing, Settled, applyRuntimeConfiguration, Goto, libraryVars,
     ioVars, callVars, Fail
<1>3. Claims'
  BY DEF TypeOK, OneChanger, Claims, RefCountExact, Changing, Settled,
     applyRuntimeConfiguration, Goto, libraryVars, ioVars, callVars, Fail
<1>4. Phases'
  <2>1. /\ \A q \in Caller \ {p} : ~Changing(q) /\ pc'[q] = pc[q]
        /\ Careless = {} => held' \subseteq {p}
    BY Zenon, OtherCallers DEF TypeOK, OneChanger, Claims, RefCountExact, Changing, Settled,
       applyRuntimeConfiguration, Goto, libraryVars, ioVars, callVars, Fail
  <2>2. \A q \in Caller \ {p} : Phase(q)'
    BY <2>1, NoPhase DEF Changing, Phase
  <2>3. Phase(p)'
    BY ZenonT(30), <1>0, MembersShutdown DEF TypeOK, Phases, Phase, NothingLeftBehind, Resource,
       applyRuntimeConfiguration, Goto, libraryVars, ioVars, callVars, Fail
  <2>4. ("io" \in up <=> ioThreads > 0)'
    BY Zenon, <1>0, MembersShutdown DEF TypeOK, Phases, applyRuntimeConfiguration, Goto, libraryVars,
       ioVars, callVars, Fail
  <2>5. ReadyWhenInitialized' /\ NothingLeftBehind'
    BY <1>0, MembersShutdown, OtherCallers DEF TypeOK, OneChanger, Changing, Phases, Phase,
       ReadyWhenInitialized, NothingLeftBehind, Settled, Needed, Resource,
       applyRuntimeConfiguration, Goto, libraryVars, ioVars, callVars, Fail
  <2>6. ThreadsAsAsked'
    BY <2>1 DEF TypeOK, Claims, Changing, Phases, Phase, ThreadsAsAsked,
       applyRuntimeConfiguration, Goto, libraryVars, ioVars, callVars, Fail
  <2> QED BY <2>2, <2>3, <2>4, <2>5, <2>6 DEF Phases
<1> QED BY <1>1, <1>2, <1>3, <1>4

\* The end of a successful initialize() keeps the invariant.
LEMMA InitializeSucceedsKeeps ==
  ASSUME IInv, NEW p \in Caller, InitializeSucceeds(p)
  PROVE  IInv'
<1> USE DEF IInv
<1>1. TypeOK'
  BY DEF TypeOK, Label, Resource, InitializeSucceeds, Goto, libraryVars, ioVars, callVars
<1>2. OneChanger'
  BY Zenon DEF TypeOK, OneChanger, Changing, Settled, InitializeSucceeds, Goto, libraryVars, ioVars,
     callVars
<1>3. Claims'
  <2>1. held \subseteq Caller
    BY DEF TypeOK
  <2>2. /\ Cardinality(held) \in Nat /\ (Cardinality(held) = 0 <=> held = {})
        /\ p \notin held => Cardinality(held \cup {p}) = Cardinality(held) + 1 /\ held \ {p} = held
        /\ p \in held => Cardinality(held \ {p}) = Cardinality(held) - 1
    BY Zenon, <2>1, HeldCounts
  <2>3. RefCountExact' /\ (state = "Initialized" <=> refCount > 0)'
    BY <2>2 DEF TypeOK, OneChanger, Claims, RefCountExact, Changing, Settled,
       InitializeSucceeds, Goto, libraryVars, ioVars, callVars
  <2>4. ASSUME NEW q \in Caller
        PROVE  /\ Changing(q)' => q \notin held'
               /\ pc'[q] \in {"enter", "asleep"} =>
                     IF op'[q] = "initialize" THEN q \notin held' ELSE q \in held' \cup Careless
    BY Zenon DEF TypeOK, OneChanger, Claims, Changing, Settled, InitializeSucceeds, Goto, libraryVars,
       ioVars, callVars
  <2> QED BY <2>3, <2>4 DEF Claims
<1>4. Phases'
  <2>1. /\ \A q \in Caller \ {p} : ~Changing(q) /\ pc'[q] = pc[q]
        /\ Careless = {} => held' \subseteq {p}
    BY Zenon, OtherCallers DEF TypeOK, OneChanger, Claims, RefCountExact, Changing, Settled,
       InitializeSucceeds, Goto, libraryVars, ioVars, callVars
  <2>2. \A q \in Caller \ {p} : Phase(q)'
    BY <2>1, NoPhase DEF Changing, Phase
  <2>3. Phase(p)'
    BY HeldCounts DEF TypeOK, Phases, Phase, NothingLeftBehind, Resource, InitializeSucceeds,
       Goto, libraryVars, ioVars, callVars
  <2>4. ("io" \in up <=> ioThreads > 0)'
    BY HeldCounts DEF TypeOK, Phases, InitializeSucceeds, Goto, libraryVars, ioVars, callVars
  <2>5. ReadyWhenInitialized' /\ NothingLeftBehind'
    BY HeldCounts, OtherCallers DEF TypeOK, OneChanger, Changing, Phases, Phase,
       ReadyWhenInitialized, NothingLeftBehind, Settled, Needed, Resource, InitializeSucceeds,
       Goto, libraryVars, ioVars, callVars
  <2>6. ThreadsAsAsked'
    BY <2>1 DEF TypeOK, Claims, Changing, Phases, Phase, ThreadsAsAsked, InitializeSucceeds,
       Goto, libraryVars, ioVars, callVars
  <2> QED BY <2>2, <2>3, <2>4, <2>5, <2>6 DEF Phases
<1> QED BY <1>1, <1>2, <1>3, <1>4

\* The end of a failed initialize() keeps the invariant.
LEMMA InitializeFailsKeeps ==
  ASSUME IInv, NEW p \in Caller, InitializeFails(p)
  PROVE  IInv'
<1> USE DEF IInv
<1>1. TypeOK'
  BY DEF TypeOK, Label, Resource, InitializeFails, Goto, libraryVars, ioVars, callVars
<1>2. OneChanger'
  BY Zenon DEF TypeOK, OneChanger, Changing, Settled, InitializeFails, Goto, libraryVars, ioVars,
     callVars
<1>3. Claims'
  <2>1. held \subseteq Caller
    BY DEF TypeOK
  <2>2. /\ Cardinality(held) \in Nat /\ (Cardinality(held) = 0 <=> held = {})
        /\ p \notin held => Cardinality(held \cup {p}) = Cardinality(held) + 1 /\ held \ {p} = held
        /\ p \in held => Cardinality(held \ {p}) = Cardinality(held) - 1
    BY Zenon, <2>1, HeldCounts
  <2>3. RefCountExact' /\ (state = "Initialized" <=> refCount > 0)'
    BY <2>2 DEF TypeOK, OneChanger, Claims, RefCountExact, Changing, Settled, InitializeFails,
       Goto, libraryVars, ioVars, callVars
  <2>4. ASSUME NEW q \in Caller
        PROVE  /\ Changing(q)' => q \notin held'
               /\ pc'[q] \in {"enter", "asleep"} =>
                     IF op'[q] = "initialize" THEN q \notin held' ELSE q \in held' \cup Careless
    BY Zenon DEF TypeOK, OneChanger, Claims, Changing, Settled, InitializeFails, Goto, libraryVars,
       ioVars, callVars
  <2> QED BY <2>3, <2>4 DEF Claims
<1>4. Phases'
  <2>1. /\ \A q \in Caller \ {p} : ~Changing(q) /\ pc'[q] = pc[q]
        /\ Careless = {} => held' \subseteq {p}
    BY Zenon, OtherCallers DEF TypeOK, OneChanger, Claims, RefCountExact, Changing, Settled,
       InitializeFails, Goto, libraryVars, ioVars, callVars
  <2>2. \A q \in Caller \ {p} : Phase(q)'
    BY <2>1, NoPhase DEF Changing, Phase
  <2>3. Phase(p)'
    BY MembersShutdown DEF TypeOK, Phases, Phase, NothingLeftBehind, Resource, InitializeFails,
       Goto, libraryVars, ioVars, callVars
  <2>4. ("io" \in up <=> ioThreads > 0)'
    BY MembersShutdown DEF TypeOK, Phases, InitializeFails, Goto, libraryVars, ioVars, callVars
  <2>5. ReadyWhenInitialized' /\ NothingLeftBehind'
    BY MembersShutdown, OtherCallers DEF TypeOK, OneChanger, Changing, Phases, Phase,
       ReadyWhenInitialized, NothingLeftBehind, Settled, Needed, Resource, InitializeFails,
       Goto, libraryVars, ioVars, callVars
  <2>6. ThreadsAsAsked'
    BY <2>1 DEF TypeOK, Claims, Changing, Phases, Phase, ThreadsAsAsked, InitializeFails, Goto,
       libraryVars, ioVars, callVars
  <2> QED BY <2>2, <2>3, <2>4, <2>5, <2>6 DEF Phases
<1> QED BY <1>1, <1>2, <1>3, <1>4

\* Taking down a resource keeps the invariant.
LEMMA TakeDownKeeps ==
  ASSUME IInv, NEW p \in Caller, TakeDown(p)
  PROVE  IInv'
<1> USE DEF IInv
<1>0. /\ Tail(left[p]) \in Seq(Resource) /\ Head(left[p]) \in Resource
      /\ Members(left[p]) \subseteq {Head(left[p])} \cup Members(Tail(left[p]))
  BY MembersTail DEF TakeDown, TypeOK
<1>1. TypeOK'
  <2>1. left' \in [Caller -> Seq(Resource)]
    BY <1>0 DEF TypeOK, TakeDown
  <2>2. up' \subseteq Resource /\ ioThreads' \in Nat /\ ioWanted' \in Nat
    BY DEF TypeOK, TakeDown, ioVars
  <2> QED BY <2>1, <2>2 DEF TypeOK, TakeDown, libraryVars, callVars
<1>2. OneChanger'
  BY DEF TypeOK, OneChanger, Changing, Settled, TakeDown, libraryVars, ioVars, callVars
<1>3. Claims'
  BY Zenon DEF TypeOK, OneChanger, Claims, RefCountExact, Changing, Settled, TakeDown, libraryVars,
     ioVars, callVars
<1>4. Phases'
  <2>1. /\ \A q \in Caller \ {p} : ~Changing(q) /\ pc'[q] = pc[q]
        /\ Careless = {} => held' \subseteq {p}
    BY Zenon, OtherCallers DEF TypeOK, OneChanger, Claims, RefCountExact, Changing, Settled, TakeDown,
       libraryVars, ioVars, callVars
  <2>2. \A q \in Caller \ {p} : Phase(q)'
    BY <2>1, NoPhase DEF Changing, Phase
  <2>3. Phase(p)'
    BY Zenon, <1>0 DEF TypeOK, Phases, Phase, NothingLeftBehind, Resource, TakeDown, libraryVars,
       ioVars, callVars
  <2>4. ("io" \in up <=> ioThreads > 0)'
    BY <1>0 DEF TypeOK, Phases, TakeDown, libraryVars, ioVars, callVars
  <2>5. ReadyWhenInitialized' /\ NothingLeftBehind'
    BY <1>0, OtherCallers DEF TypeOK, OneChanger, Changing, Phases, Phase, ReadyWhenInitialized,
       NothingLeftBehind, Settled, Needed, Resource, TakeDown, libraryVars, ioVars, callVars
  <2>6. ThreadsAsAsked'
    BY <2>1 DEF TypeOK, Claims, Changing, Phases, Phase, ThreadsAsAsked, TakeDown, libraryVars,
       ioVars, callVars
  <2> QED BY <2>2, <2>3, <2>4, <2>5, <2>6 DEF Phases
<1> QED BY <1>1, <1>2, <1>3, <1>4

\* cleanup() of a library that does not run keeps the invariant.
LEMMA CleanupIgnoredKeeps ==
  ASSUME IInv, NEW p \in Caller, CleanupIgnored(p)
  PROVE  IInv'
<1> USE DEF IInv
<1>1. TypeOK'
  BY DEF TypeOK, Label, Resource, CleanupIgnored, Goto, libraryVars, ioVars, callVars, Enters,
     Settled
<1>2. OneChanger'
  BY DEF TypeOK, OneChanger, Changing, Settled, CleanupIgnored, Goto, libraryVars, ioVars,
     callVars, Enters
<1>3. Claims'
  <2>1. held' = held \ {p} /\ Enters(p, "cleanup") /\ refCount \in Nat
    BY DEF TypeOK, CleanupIgnored
  <2>2. /\ Cardinality(held') \in Nat /\ refCount - 1 <= Cardinality(held')
        /\ Careless = {} => refCount > 0 /\ refCount - 1 = Cardinality(held')
    BY <2>1, CleanupCounts
  <2>3. RefCountExact' /\ (state = "Initialized" <=> refCount > 0)'
    <3>1. /\ state = "Initialized" <=> refCount > 0
          /\ refCount' \in Nat /\ (refCount' = refCount - 1 \/ (refCount = 0 /\ refCount' = 0))
          /\ (state = "Initialized" <=> refCount > 0)'
      BY <2>1 DEF TypeOK, Claims, CleanupIgnored, libraryVars
    <3> QED BY <2>1, <2>2, <3>1 DEF RefCountExact
  <2>4. ASSUME NEW q \in Caller
        PROVE  /\ Changing(q)' => q \notin held'
               /\ pc'[q] \in {"enter", "asleep"} =>
                     IF op'[q] = "initialize" THEN q \notin held' ELSE q \in held' \cup Careless
    BY DEF TypeOK, OneChanger, Claims, Changing, Settled, CleanupIgnored, Goto, libraryVars,
       ioVars, callVars, Enters
  <2> QED BY <2>3, <2>4 DEF Claims
<1>4. Phases'
  BY DEF TypeOK, OneChanger, Claims, RefCountExact, Changing, Phases, Phase,
     ReadyWhenInitialized, NothingLeftBehind, ThreadsAsAsked, Settled, Needed, Resource,
     CleanupIgnored, Goto, libraryVars, ioVars, callVars, Enters
<1> QED BY <1>1, <1>2, <1>3, <1>4

\* cleanup() while others hold the library keeps the invariant.
LEMMA CleanupKeepsKeeps ==
  ASSUME IInv, NEW p \in Caller, CleanupKeeps(p)
  PROVE  IInv'
<1> USE DEF IInv
<1>1. TypeOK'
  BY DEF TypeOK, Label, Resource, CleanupKeeps, Goto, libraryVars, ioVars, callVars, Enters,
     Settled
<1>2. OneChanger'
  BY DEF TypeOK, OneChanger, Changing, Settled, CleanupKeeps, Goto, libraryVars, ioVars,
     callVars, Enters
<1>3. Claims'
  <2>1. held' = held \ {p} /\ Enters(p, "cleanup") /\ refCount \in Nat
    BY DEF TypeOK, CleanupKeeps
  <2>2. /\ Cardinality(held') \in Nat /\ refCount - 1 <= Cardinality(held')
        /\ Careless = {} => refCount > 0 /\ refCount - 1 = Cardinality(held')
    BY <2>1, CleanupCounts
  <2>3. RefCountExact' /\ (state = "Initialized" <=> refCount > 0)'
    <3>1. /\ state = "Initialized" <=> refCount > 0
          /\ refCount' \in Nat /\ (refCount' = refCount - 1 \/ (refCount = 0 /\ refCount' = 0))
          /\ (state = "Initialized" <=> refCount > 0)'
      BY <2>1 DEF TypeOK, Claims, CleanupKeeps, libraryVars
    <3> QED BY <2>1, <2>2, <3>1 DEF RefCountExact
  <2>4. ASSUME NEW q \in Caller
        PROVE  /\ Changing(q)' => q \notin held'
               /\ pc'[q] \in {"enter", "asleep"} =>
                     IF op'[q] = "initialize" THEN q \notin held' ELSE q \in held' \cup Careless
    BY Zenon DEF TypeOK, OneChanger, Claims, Changing, Settled, CleanupKeeps, Goto, libraryVars,
       ioVars, callVars, Enters
  <2> QED BY <2>3, <2>4 DEF Claims
<1>4. Phases'
  BY DEF TypeOK, OneChanger, Claims, RefCountExact, Changing, Phases, Phase,
     ReadyWhenInitialized, NothingLeftBehind, ThreadsAsAsked, Settled, Needed, Resource,
     CleanupKeeps, Goto, libraryVars, ioVars, callVars, Enters
<1> QED BY <1>1, <1>2, <1>3, <1>4

\* The last cleanup() keeps the invariant.
LEMMA CleanupLastKeeps ==
  ASSUME IInv, NEW p \in Caller, CleanupLast(p)
  PROVE  IInv'
<1> USE DEF IInv
<1>0. /\ left' \in [Caller -> Seq(Resource)] /\ pc' \in [Caller -> Label]
  BY MembersShutdown DEF TypeOK, Label, CleanupLast, Goto, libraryVars, ioVars, callVars,
     Enters, Settled
<1>1. TypeOK'
  BY <1>0 DEF TypeOK, Label, Resource, CleanupLast, Goto, libraryVars, ioVars, callVars, Enters,
     Settled
<1>2. OneChanger'
  BY DEF TypeOK, OneChanger, Changing, Settled, CleanupLast, Goto, libraryVars, ioVars,
     callVars, Enters
<1>3. Claims'
  <2>1. held' = held \ {p} /\ Enters(p, "cleanup") /\ refCount \in Nat
    BY DEF TypeOK, CleanupLast
  <2>2. /\ Cardinality(held') \in Nat /\ refCount - 1 <= Cardinality(held')
        /\ Careless = {} => refCount > 0 /\ refCount - 1 = Cardinality(held')
    BY <2>1, CleanupCounts
  <2>3. RefCountExact' /\ (state = "Initialized" <=> refCount > 0)'
    <3>1. /\ state = "Initialized" <=> refCount > 0
          /\ refCount' \in Nat /\ (refCount' = refCount - 1 \/ (refCount = 0 /\ refCount' = 0))
          /\ (state = "Initialized" <=> refCount > 0)'
      BY <2>1 DEF TypeOK, Claims, CleanupLast, libraryVars
    <3> QED BY <2>1, <2>2, <3>1 DEF RefCountExact
  <2>4. ASSUME NEW q \in Caller
        PROVE  /\ Changing(q)' => q \notin held'
               /\ pc'[q] \in {"enter", "asleep"} =>
                     IF op'[q] = "initialize" THEN q \notin held' ELSE q \in held' \cup Careless
    BY DEF TypeOK, OneChanger, Claims, Changing, Settled, CleanupLast, Goto, libraryVars,
       ioVars, callVars, Enters
  <2> QED BY <2>3, <2>4 DEF Claims
<1>4. Phases'
  <2>1. /\ \A q \in Caller \ {p} : ~Changing(q) /\ pc'[q] = pc[q]
        /\ Careless = {} => held' \subseteq {p}
    <3>1. \A q \in Caller \ {p} : ~Changing(q) /\ pc'[q] = pc[q]
      BY DEF TypeOK, OneChanger, CleanupLast, Goto, Enters
    <3>2. ASSUME Careless = {} PROVE held' = {}
      <4>1. Cardinality(held') = 0 /\ held' \subseteq Caller
        BY <3>2, CleanupCounts DEF CleanupLast, TypeOK
      <4> QED BY Zenon, <4>1, HeldCounts
    <3> QED BY <3>1, <3>2
  <2>2. \A q \in Caller \ {p} : Phase(q)'
    BY <2>1, NoPhase DEF Changing, Phase
  <2>3. Phase(p)'
    BY ZenonT(30), <1>0, MembersShutdown DEF TypeOK, Phases, Phase, NothingLeftBehind, Resource,
       CleanupLast, Goto, libraryVars, ioVars, callVars, Enters
  <2>4. ("io" \in up <=> ioThreads > 0)'
    BY <1>0, MembersShutdown DEF TypeOK, Phases, CleanupLast, Goto, libraryVars, ioVars,
       callVars, Enters
  <2>5. ReadyWhenInitialized' /\ NothingLeftBehind'
    BY <1>0, MembersShutdown, OtherCallers DEF TypeOK, OneChanger, Changing, Phases, Phase,
       ReadyWhenInitialized, NothingLeftBehind, Settled, Needed, Resource, CleanupLast, Goto,
       libraryVars, ioVars, callVars, Enters
  <2>6. ThreadsAsAsked'
    BY <2>1 DEF TypeOK, Claims, Changing, Phases, Phase, ThreadsAsAsked, CleanupLast, Goto,
       libraryVars, ioVars, callVars, Enters
  <2> QED BY <2>2, <2>3, <2>4, <2>5, <2>6 DEF Phases
<1> QED BY <1>1, <1>2, <1>3, <1>4

\* The end of the last cleanup() keeps the invariant.
LEMMA CleanupEndsKeeps ==
  ASSUME IInv, NEW p \in Caller, CleanupEnds(p)
  PROVE  IInv'
<1> USE DEF IInv
<1>1. TypeOK'
  BY DEF TypeOK, Label, Resource, CleanupEnds, Goto, libraryVars, ioVars, callVars
<1>2. OneChanger'
  BY DEF TypeOK, OneChanger, Changing, Settled, CleanupEnds, Goto, libraryVars, ioVars, callVars
<1>3. Claims'
  BY Zenon DEF TypeOK, OneChanger, Claims, RefCountExact, Changing, Settled, CleanupEnds, Goto,
     libraryVars, ioVars, callVars
<1>4. Phases'
  <2>1. /\ \A q \in Caller \ {p} : ~Changing(q) /\ pc'[q] = pc[q]
        /\ Careless = {} => held' \subseteq {p}
    BY Zenon, OtherCallers DEF TypeOK, OneChanger, Claims, RefCountExact, Changing, Settled,
       CleanupEnds, Goto, libraryVars, ioVars, callVars
  <2>2. \A q \in Caller \ {p} : Phase(q)'
    BY <2>1, NoPhase DEF Changing, Phase
  <2>3. Phase(p)'
    BY MembersShutdown DEF TypeOK, Phases, Phase, NothingLeftBehind, Resource, CleanupEnds,
       Goto, libraryVars, ioVars, callVars
  <2>4. ("io" \in up <=> ioThreads > 0)'
    BY MembersShutdown DEF TypeOK, Phases, CleanupEnds, Goto, libraryVars, ioVars, callVars
  <2>5. ReadyWhenInitialized' /\ NothingLeftBehind'
    BY MembersShutdown, OtherCallers DEF TypeOK, OneChanger, Changing, Phases, Phase,
       ReadyWhenInitialized, NothingLeftBehind, Settled, Needed, Resource, CleanupEnds, Goto,
       libraryVars, ioVars, callVars
  <2>6. ThreadsAsAsked'
    BY <2>1 DEF TypeOK, Claims, Changing, Phases, Phase, ThreadsAsAsked, CleanupEnds, Goto,
       libraryVars, ioVars, callVars
  <2> QED BY <2>2, <2>3, <2>4, <2>5, <2>6 DEF Phases
<1> QED BY <1>1, <1>2, <1>3, <1>4

\* The steps of lazy users keep the invariant.
LEMMA LazyKeeps ==
  ASSUME IInv, LazyIo \/ LazyTimers
  PROVE  IInv'
<1> USE DEF IInv
<1>0. normalizeThreadCount(ioWanted) \in Nat \ {0}
  BY ThreadCounts DEF TypeOK
<1>1. TypeOK'
  BY Zenon, <1>0 DEF TypeOK, Resource, LazyIo, LazyTimers, libraryVars, ioVars, callVars
<1>2. OneChanger' /\ Claims'
  BY DEF OneChanger, Claims, RefCountExact, Changing, Settled, LazyIo, LazyTimers, libraryVars,
     callVars
<1>3. Phases'
  <2>1. Lazy /\ up \subseteq up' /\ up' \subseteq up \cup {"io", "timers"}
    BY DEF LazyIo, LazyTimers
  <2>2. "io" \in up => ioThreads' = ioThreads
    BY DEF LazyIo, LazyTimers, ioVars
  <2>3. ("io" \in up <=> ioThreads > 0)'
    BY <1>0 DEF TypeOK, Phases, LazyIo, LazyTimers, ioVars
  <2>4. ASSUME NEW p \in Caller PROVE Phase(p)'
    BY ZenonT(30), <2>1 DEF TypeOK, Phases, Phase, LazyIo, LazyTimers, callVars
  <2>5. ReadyWhenInitialized' /\ NothingLeftBehind' /\ ThreadsAsAsked'
    BY <2>1, <2>2, LazyBoolean DEF Phases, ReadyWhenInitialized, NothingLeftBehind,
       ThreadsAsAsked, Needed, LazyIo, LazyTimers, libraryVars, callVars
  <2> QED BY <2>3, <2>4, <2>5 DEF Phases
<1> QED BY <1>1, <1>2, <1>3

\* The invariant holds throughout.
THEOREM Invariance == Spec => []IInv
<1>1. ASSUME IInv, [Next]_vars PROVE IInv'
  <2>1. CASE UNCHANGED vars
    BY <1>1, <2>1 DEF IInv, TypeOK, OneChanger, Claims, RefCountExact, Phases, Phase, Changing,
       Settled, ReadyWhenInitialized, NothingLeftBehind, ThreadsAsAsked, vars, libraryVars,
       ioVars, callVars
  <2>2. ASSUME NEW p \in Caller, NEW n \in ThreadCount, CallInitialize(p, n) PROVE IInv'
    BY <1>1, <2>2, CallInitializeKeeps
  <2>3. ASSUME NEW p \in Caller, CallCleanup(p) PROVE IInv'
    BY <1>1, <2>3, CallCleanupKeeps
  <2>4. ASSUME NEW p \in Caller, Continue(p) PROVE IInv'
    BY Zenon, <1>1, <2>4, SleepKeeps, NotifyKeeps, InitializeAgainKeeps, InitializeRefusedKeeps,
       InitializeFirstKeeps, InitializeSocketLibraryKeeps, StartIoKeeps, StartTimersKeeps,
       ApplyRuntimeConfigurationKeeps, InitializeSucceedsKeeps, InitializeFailsKeeps,
       TakeDownKeeps, CleanupIgnoredKeeps, CleanupKeepsKeeps, CleanupLastKeeps, CleanupEndsKeeps
       DEF Continue
  <2>5. CASE LazyIo \/ LazyTimers
    BY <1>1, <2>5, LazyKeeps
  <2> QED BY <1>1, <2>1, <2>2, <2>3, <2>4, <2>5 DEF Next
<1> QED BY InitHolds, <1>1, PTL DEF Spec

\* g_initializeRefCount is the number of callers that hold the library (at
\* most, when some call cleanup() without holding it).
THEOREM CountIsExact == Spec => []RefCountExact
<1>1. IInv => RefCountExact
  BY DEF IInv, Claims
<1> QED BY <1>1, Invariance, PTL

\* An Initialized library has what it needs, and the number of threads it
\* records; one that is not has nothing left behind; and the steps in between
\* are those of one caller.
THEOREM ResourcesFollowState == Spec => []ResourcesExact
<1>1. IInv => ResourcesExact
  BY DEF IInv, Phases, ResourcesExact
<1> QED BY <1>1, Invariance, PTL

\* Nobody can take the library away from a caller that holds it, if all call
\* cleanup() only for what they initialized.
THEOREM HoldersFindItReady == Spec => []HeldIsReady
<1>1. IInv => HeldIsReady
  <2> SUFFICES ASSUME IInv, Careless = {}, held # {} PROVE state = "Initialized"
    BY DEF HeldIsReady
  <2>1. PICK p \in Caller : p \in held
    BY DEF IInv, TypeOK
  <2>2. Cardinality(held) \in Nat /\ Cardinality(held) # 0
    BY Zenon, <2>1, HeldCounts DEF IInv, TypeOK
  <2> QED BY <2>2 DEF IInv, Claims, RefCountExact
<1> QED BY <1>1, Invariance, PTL

\* A successful initialize() gives the number of threads asked for.
THEOREM ThreadsGranted == Spec => []ThreadsAsAsked
<1>1. IInv => ThreadsAsAsked
  BY DEF IInv, Phases
<1> QED BY <1>1, Invariance, PTL
==============================================================================
