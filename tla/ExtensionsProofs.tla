--------------------------- MODULE ExtensionsProofs ---------------------------
(***************************************************************************)
(* TLAPS proofs about Extensions, for any number of handles and threads    *)
(* and any arguments: a message finds its module and its sender attached,  *)
(* whatever handles come and go while it is queued; the sink sends to the  *)
(* reverb that is selected; what has no handle is silent; and each effect  *)
(* does what EffectControl promises to its handles.                        *)
(***************************************************************************)
EXTENDS Extensions, WellFoundedInduction, TLAPS

USE NullAssumption, AskedAssumption, ArgumentsAssumption

-----------------------------------------------------------------------------
(* A client leaves a queue in which every client is once.                  *)

Members(clients) == {clients[i] : i \in DOMAIN clients}
OnceEach(clients) == \A i, j \in DOMAIN clients : clients[i] = clients[j] => i = j

\* induction, by the least number that is missing
LEMMA UpTo ==
  ASSUME NEW N \in Nat, NEW P \in SUBSET (0 .. N), 0 \in P, \A n \in 0 .. N - 1 : n \in P => n + 1 \in P
  PROVE  P = 0 .. N
  <1> DEFINE Missing == 0 .. N \ P
             R == {ss \in Nat \X Nat : ss[1] < ss[2]}
  <1> SUFFICES ASSUME Missing # {} PROVE FALSE
    OBVIOUS
  <1>1. IsWellFoundedOn(R, Nat)
    BY NatLessThanWellFounded DEF OpToRel
  <1>2. Missing \subseteq Nat
    OBVIOUS
  <1>3. PICK m \in Missing : \A n \in Missing : ~(<<n, m>> \in R)
    <2> HIDE DEF R, Missing
    <2> QED  BY <1>1, <1>2, WFMin
  <1>4. m \in 0 .. N /\ m \notin P /\ m # 0
    BY <1>3
  <1>5. m - 1 \in 0 .. N - 1 /\ m - 1 \notin P
    BY <1>4
  <1>6. m - 1 \in Missing /\ <<m - 1, m>> \in R
    BY <1>4, <1>5
  <1> QED  BY <1>3, <1>6

\* the function in the definition of handleOnDetach, for the first clients
KeptOf(kept, clients, client, N) ==
  kept = [n \in 0 .. N |-> IF n = 0 THEN <<>>
                           ELSE IF clients[n] = client THEN kept[n - 1] ELSE Append(kept[n - 1], clients[n])]

LEMMA KeptExists ==
  ASSUME NEW clients, NEW client, NEW N \in Nat
  PROVE  \E kept : KeptOf(kept, clients, client, N)
  <1> DEFINE P == {n \in 0 .. N : \E kept : KeptOf(kept, clients, client, n)}
  <1>1. 0 \in P
    <2>1. KeptOf([n \in 0 .. 0 |-> <<>>], clients, client, 0)
      BY DEF KeptOf
    <2> QED  BY <2>1
  <1>2. ASSUME NEW n \in 0 .. N - 1, n \in P PROVE n + 1 \in P
    <2>1. PICK f : KeptOf(f, clients, client, n)
      BY <1>2
    <2> DEFINE next == IF clients[n + 1] = client THEN f[n] ELSE Append(f[n], clients[n + 1])
               g == [i \in 0 .. n + 1 |-> IF i <= n THEN f[i] ELSE next]
    <2>2. ASSUME NEW i \in 0 .. n + 1
          PROVE  g[i] = IF i = 0 THEN <<>>
                        ELSE IF clients[i] = client THEN g[i - 1] ELSE Append(g[i - 1], clients[i])
      <3>1. CASE i = 0
        BY <2>1, <3>1 DEF KeptOf
      <3>2. CASE i # 0 /\ i <= n
        <4>1. /\ i \in 0 .. n /\ i - 1 \in 0 .. n /\ i - 1 <= n /\ i - 1 \in 0 .. n + 1
              /\ g[i] = f[i] /\ g[i - 1] = f[i - 1]
          BY <3>2
        <4>2. f[i] = IF clients[i] = client THEN f[i - 1] ELSE Append(f[i - 1], clients[i])
          BY <2>1, <3>2, <4>1 DEF KeptOf
        <4> QED  BY <3>2, <4>1, <4>2
      <3>3. CASE i = n + 1
        <4>1. i # 0 /\ i - 1 = n /\ g[i - 1] = f[n]
          BY <3>3
        <4> QED  BY <3>3, <4>1
      <3> QED  BY <3>1, <3>2, <3>3
    <2>3. KeptOf(g, clients, client, n + 1)
      BY <2>2 DEF KeptOf
    <2> QED  BY <2>3
  <1>3. P = 0 .. N
    <2>1. P \in SUBSET (0 .. N)
      OBVIOUS
    <2> HIDE DEF P
    <2> QED  BY <1>1, <1>2, <2>1, UpTo
  <1> QED  BY <1>3

LEMMA KeptStep ==
  ASSUME NEW kept, NEW clients, NEW client, NEW N \in Nat, KeptOf(kept, clients, client, N)
  PROVE  /\ kept[0] = <<>>
         /\ \A n \in 0 .. N - 1 : kept[n + 1] = IF clients[n + 1] = client THEN kept[n]
                                                ELSE Append(kept[n], clients[n + 1])
  <1>1. kept[0] = <<>>
    BY DEF KeptOf
  <1>2. ASSUME NEW n \in 0 .. N - 1
        PROVE  kept[n + 1] = IF clients[n + 1] = client THEN kept[n] ELSE Append(kept[n], clients[n + 1])
    <2>1. n + 1 \in 0 .. N /\ n + 1 # 0 /\ (n + 1) - 1 = n
      OBVIOUS
    <2> QED  BY <2>1 DEF KeptOf
  <1> QED  BY <1>1, <1>2

\* the client is gone, the others are where they were
LEMMA DetachOutcome ==
  ASSUME NEW S, NEW clients \in Seq(S), NEW client, OnceEach(clients)
  PROVE  LET rest == handleOnDetach(clients, client)
         IN /\ rest \in Seq(S)
            /\ Members(rest) = Members(clients) \ {client}
            /\ OnceEach(rest)
            /\ Len(rest) + (IF client \in Members(clients) THEN 1 ELSE 0) = Len(clients)
  <1> DEFINE N == Len(clients)
             first(n) == {clients[i] : i \in 1 .. n}
             Good(s, n) == /\ s \in Seq(S) /\ OnceEach(s) /\ Members(s) = first(n) \ {client}
                           /\ Len(s) + (IF client \in first(n) THEN 1 ELSE 0) = n
             kept == CHOOSE f : KeptOf(f, clients, client, N)
             P == {n \in 0 .. N : Good(kept[n], n)}
  <1>1. N \in Nat /\ DOMAIN clients = 1 .. N
    OBVIOUS
  <1>2. KeptOf(kept, clients, client, N)
    BY <1>1, KeptExists
  <1>3. handleOnDetach(clients, client) = kept[N]
    BY DEF handleOnDetach, KeptOf
  <1> HIDE DEF kept
  <1>4. 0 \in P
    <2>1. kept[0] = <<>> /\ 0 \in 0 .. N
      BY <1>1, <1>2, KeptStep
    <2>2. Members(<<>>) = {} /\ OnceEach(<<>>) /\ first(0) = {}
      BY DEF Members, OnceEach
    <2>3. Good(kept[0], 0)
      <3>1. <<>> \in Seq(S) /\ Len(<<>>) = 0 /\ client \notin first(0) /\ Members(<<>>) = first(0) \ {client}
        BY <2>2
      <3> HIDE DEF first
      <3> DEFINE s == kept[0]
      <3>2. s \in Seq(S) /\ OnceEach(s) /\ Members(s) = first(0) \ {client}
        BY <2>1, <2>2, <3>1
      <3>3. Len(s) + (IF client \in first(0) THEN 1 ELSE 0) = 0
        <4>1. Len(s) = 0
          BY <2>1
        <4>2. (IF client \in first(0) THEN 1 ELSE 0) = 0
          BY <3>1
        <4> HIDE DEF s, first
        <4> QED  BY <4>1, <4>2
      <3> HIDE DEF s
      <3>4. Good(s, 0)
        BY <3>2, <3>3
      <3> QED  BY <3>4 DEF s
    <2> HIDE DEF Good
    <2> QED  BY <2>1, <2>3
  <1>5. ASSUME NEW n \in 0 .. N - 1, n \in P PROVE n + 1 \in P
    <2> DEFINE s == kept[n]
               c == clients[n + 1]
    <2>1. /\ n + 1 \in 0 .. N /\ n + 1 # 0 /\ n + 1 - 1 = n /\ n + 1 \in 1 .. N /\ n \in Nat
      BY <1>1
    <2>2. kept[n + 1] = IF c = client THEN s ELSE Append(s, c)
      BY <1>1, <1>2, KeptStep
    <2>3. Good(s, n)
      BY <1>5
    <2>4. c \in S
      BY <2>1
    <2>5. first(n + 1) = first(n) \cup {c}
      <3>1. 1 .. n + 1 = 1 .. n \cup {n + 1}
        BY <2>1
      <3> QED  BY <3>1
    <2>6. c \notin first(n)
      BY <1>1, <2>1 DEF OnceEach
    <2> HIDE DEF s, c, first, N
    <2>7. CASE c = client
      <3>1. first(n) \ {client} = first(n + 1) \ {client}
        BY <2>5, <2>7
      <3>2. kept[n + 1] = s /\ client \in first(n + 1) /\ client \notin first(n)
        BY <2>2, <2>5, <2>6, <2>7
      <3>3. Len(s) = n /\ Len(s) \in Nat
        BY <2>1, <2>3, <3>2
      <3>4. Good(s, n + 1)
        BY <2>3, <3>1, <3>2, <3>3
      <3> HIDE DEF Good
      <3> QED  BY <2>1, <3>2, <3>4
    <2>8. CASE c # client
      <3> DEFINE r == Append(s, c)
      <3>1. /\ r \in Seq(S) /\ Len(r) = Len(s) + 1 /\ r[Len(s) + 1] = c
            /\ \A i \in 1 .. Len(s) : r[i] = s[i]
            /\ DOMAIN r = 1 .. Len(s) + 1 /\ DOMAIN s = 1 .. Len(s) /\ Len(s) \in Nat
        BY <2>3, <2>4
      <3> HIDE DEF r
      <3>2. Members(r) = Members(s) \cup {c}
        <4>1. 1 .. Len(s) + 1 = 1 .. Len(s) \cup {Len(s) + 1}
          BY <3>1
        <4> QED  BY <3>1, <4>1 DEF Members
      <3>3. Members(s) = first(n) \ {client} /\ c \notin Members(s)
        BY <2>3, <2>6
      <3>4. OnceEach(r)
        <4>1. ASSUME NEW i \in 1 .. Len(s) PROVE r[i] # c
          BY <3>1, <3>3, <4>1 DEF Members
        <4> QED  BY <2>3, <3>1, <4>1 DEF OnceEach
      <3>5. Members(r) = first(n + 1) \ {client}
        BY <2>5, <2>8, <3>2, <3>3
      <3>6. client \in first(n + 1) <=> client \in first(n)
        BY <2>5, <2>8
      <3>7. Len(s) + (IF client \in first(n) THEN 1 ELSE 0) = n
        BY <2>3
      <3>8. Len(r) + (IF client \in first(n + 1) THEN 1 ELSE 0) = n + 1
        <4>1. Len(r) = Len(s) + 1 /\ Len(s) \in Nat
          BY <3>1
        <4>2. CASE client \in first(n)
          <5>1. Len(s) + 1 = n
            BY <3>7, <4>2
          <5> QED  BY <2>1, <3>6, <4>1, <4>2, <5>1
        <4>3. CASE client \notin first(n)
          <5>1. Len(s) + 0 = n
            BY <3>7, <4>3
          <5> QED  BY <2>1, <3>6, <4>1, <4>3, <5>1
        <4> QED  BY <4>2, <4>3
      <3>9. kept[n + 1] = r
        BY <2>2, <2>8 DEF r
      <3>10. Good(kept[n + 1], n + 1)
        BY <3>1, <3>4, <3>5, <3>8, <3>9
      <3> HIDE DEF Good
      <3> QED  BY <2>1, <3>10
    <2> QED  BY <2>7, <2>8
  <1>6. P = 0 .. N
    <2>1. P \in SUBSET (0 .. N)
      OBVIOUS
    <2> HIDE DEF P, N
    <2> QED  BY <1>1, <1>4, <1>5, <2>1, UpTo
  <1>7. Good(kept[N], N)
    <2>1. N \in P
      <3>1. N \in 0 .. N
        BY <1>1
      <3> HIDE DEF P
      <3> QED  BY <1>6, <3>1
    <2> HIDE DEF Good
    <2> QED  BY <2>1
  <1>8. first(N) = Members(clients)
    BY <1>1 DEF Members
  <1> HIDE DEF first, N
  <1>9. Len(clients) = N
    BY DEF N
  <1> QED  BY <1>3, <1>7, <1>8, <1>9

-----------------------------------------------------------------------------
(* The types of the protocol between handles, calls and modules.           *)

Made(c) == c.phase # "idle"
\* a call of a method of its kind; what else is asked, answered and given along can be anything
CallTyped(c) ==
  Made(c) => c \in [phase : {"posted", "replied"}, handle : Handles, kind : scenario,
                    what : {"create", "destroy"} \cup Methods(c.kind),
                    arg : IF c.what = "setEnabled" THEN BOOLEAN ELSE {c.arg},
                    result : {c.result}, value : {c.value}]
SlotRecords == [installed : BOOLEAN, num_attached : Nat, client_queue : Seq(Handles)]

TypeOK ==
  /\ scenario \in Scenarios
  /\ handles \in [Handles -> {NULL} \cup [kind : scenario, has_module : BOOLEAN]]
  /\ calls = [t \in Threads |-> calls[t]]
  /\ \A t \in Threads : CallTyped(calls[t])
  /\ queue \in Seq(Threads)
  /\ handler \in {"idle", "starting", "stopping", "giving_up"}
  /\ slots \in [Kinds -> SlotRecords]

LEMMA KindsKnown ==
  ASSUME TypeOK
  PROVE  /\ scenario \subseteq Kinds
         /\ \A k \in Kinds : "create" \notin Methods(k) /\ "destroy" \notin Methods(k)
  <1>1. scenario \subseteq Kinds
    BY DEF TypeOK
  <1>2. ASSUME NEW k \in Kinds PROVE "create" \notin Methods(k) /\ "destroy" \notin Methods(k)
    <2> USE DEF Methods
    <2>1. CASE k \in {"bassboost", "virtualizer", "preamp"}
      BY <2>1 DEF BB!Getters, BB!Setters, VI!Getters, VI!Setters, PA!Getters, PA!Setters
    <2>2. CASE k \in {"equalizer", "hqequalizer"}
      BY <2>2 DEF EQ!Getters, EQ!Setters, HQ!Getters, HQ!Setters
    <2>3. CASE k \in {"presetreverb", "envreverb"}
      BY <2>3 DEF PR!Getters, PR!Setters, ER!StatusGetters
    <2>4. CASE k \in {"visualizer", "hqvisualizer"}
      BY <2>4 DEF V!Getters, V!Setters, V!Listeners, V!Direct, HV!Getters, HV!Setters, HV!Listeners
    <2> QED  BY <2>1, <2>2, <2>3, <2>4 DEF Kinds, Effects, Visualizers
  <1> QED  BY <1>1, <1>2

LEMMA RepliedCall ==
  ASSUME NEW c, CallTyped(c), Made(c), NEW result, NEW value
  PROVE  LET r == Replied(c, result, value)
         IN /\ CallTyped(r) /\ Made(r) /\ r.phase = "replied" /\ r.result = result /\ r.value = value
            /\ r.handle = c.handle /\ r.kind = c.kind /\ r.what = c.what /\ r.arg = c.arg
  <1>1. c \in [phase : {"posted", "replied"}, handle : Handles, kind : scenario,
               what : {"create", "destroy"} \cup Methods(c.kind),
               arg : IF c.what = "setEnabled" THEN BOOLEAN ELSE {c.arg}, result : {c.result}, value : {c.value}]
    BY DEF CallTyped
  <1> DEFINE r == Replied(c, result, value)
  <1>2. /\ r.phase = "replied" /\ r.result = result /\ r.value = value
        /\ r.handle = c.handle /\ r.kind = c.kind /\ r.what = c.what /\ r.arg = c.arg
        /\ r \in [phase : {"posted", "replied"}, handle : Handles, kind : scenario,
                  what : {"create", "destroy"} \cup Methods(c.kind),
                  arg : IF c.what = "setEnabled" THEN BOOLEAN ELSE {c.arg}, result : {result}, value : {value}]
    BY <1>1 DEF Replied
  <1> HIDE DEF r
  <1>3. Made(r) /\ CallTyped(r)
    BY <1>2 DEF Made, CallTyped
  <1> QED  BY <1>2, <1>3 DEF r

LEMMA NewCall ==
  ASSUME NEW h \in Handles, NEW kind \in scenario, NEW what \in {"create", "destroy"} \cup Methods(kind), NEW arg,
         what = "setEnabled" => arg \in BOOLEAN
  PROVE  LET c == Call(h, kind, what, arg)
         IN /\ CallTyped(c) /\ Made(c) /\ c.phase = "posted" /\ c.handle = h /\ c.kind = kind
            /\ c.what = what /\ c.arg = arg
  <1> DEFINE c == Call(h, kind, what, arg)
  <1>1. /\ c.phase = "posted" /\ c.handle = h /\ c.kind = kind /\ c.what = what /\ c.arg = arg /\ c.result = NULL
        /\ c.value = NULL
        /\ c = [phase |-> "posted", handle |-> h, kind |-> kind, what |-> what, arg |-> arg, result |-> NULL,
                value |-> NULL]
    BY DEF Call
  <1> HIDE DEF c
  <1> QED  BY <1>1 DEF c, CallTyped, Made

-----------------------------------------------------------------------------
(* Slots.                                                                  *)

\* a slot is taken as long as there are clients, who are counted
SlotSound(slot) ==
  /\ slot.num_attached = Len(slot.client_queue)
  /\ slot.installed <=> slot.client_queue # <<>>
  /\ OnceEach(slot.client_queue)

LEMMA SlotFree ==
  FreeSlot \in SlotRecords /\ SlotSound(FreeSlot) /\ Members(FreeSlot.client_queue) = {}
  BY DEF FreeSlot, SlotRecords, SlotSound, OnceEach, Members

LEMMA SlotInstalled ==
  ASSUME NEW h \in Handles
  PROVE  LET s == [installed |-> TRUE, num_attached |-> 1, client_queue |-> handleOnInstall(h)]
         IN s \in SlotRecords /\ SlotSound(s) /\ Members(s.client_queue) = {h}
  BY DEF handleOnInstall, SlotRecords, SlotSound, OnceEach, Members

LEMMA SlotAttached ==
  ASSUME NEW slot \in SlotRecords, SlotSound(slot), slot.installed, NEW h \in Handles, h \notin Members(slot.client_queue)
  PROVE  LET s == attach(slot, h)
         IN s \in SlotRecords /\ SlotSound(s) /\ s.installed
            /\ Members(s.client_queue) = Members(slot.client_queue) \cup {h}
  <1> DEFINE q == slot.client_queue
             r == handleOnAttach(q, h)
             s == attach(slot, h)
  <1>1. q \in Seq(Handles) /\ slot.num_attached = Len(q) /\ Len(q) \in Nat
    BY DEF SlotRecords, SlotSound
  <1>2. s \in SlotRecords /\ s.client_queue = r /\ s.num_attached = Len(q) + 1 /\ s.installed
    <2>1. r \in Seq(Handles)
      BY <1>1 DEF handleOnAttach
    <2> HIDE DEF r, q
    <2>2. s = [slot EXCEPT !.num_attached = @ + 1, !.client_queue = r]
      BY DEF attach, r, q
    <2> HIDE DEF s
    <2>3. slot.num_attached \in Nat /\ slot.num_attached + 1 \in Nat
      BY <1>1
    <2>4. s \in SlotRecords /\ s.client_queue = r /\ s.num_attached = slot.num_attached + 1
          /\ s.installed = slot.installed
      BY <2>1, <2>2, <2>3 DEF SlotRecords
    <2> QED  BY <1>1, <2>4
  <1>3. /\ r \in Seq(Handles) /\ Len(r) = Len(q) + 1 /\ r[1] = h /\ r # <<>>
        /\ \A i \in 1 .. Len(q) : r[i + 1] = q[i]
        /\ DOMAIN r = 1 .. Len(q) + 1 /\ DOMAIN q = 1 .. Len(q)
    BY <1>1 DEF handleOnAttach
  <1> HIDE DEF s, r
  <1>4. \A i \in DOMAIN r : i = 1 \/ (i - 1 \in DOMAIN q /\ r[i] = q[i - 1])
    <2> SUFFICES ASSUME NEW i \in DOMAIN r, i # 1 PROVE i - 1 \in DOMAIN q /\ r[i] = q[i - 1]
      OBVIOUS
    <2>1. i - 1 \in 1 .. Len(q) /\ (i - 1) + 1 = i
      BY <1>1, <1>3
    <2> HIDE DEF q
    <2> QED  BY <1>3, <2>1
  <1> HIDE DEF q
  <1>5. Members(r) = Members(q) \cup {h}
    <2>1. Members(r) \subseteq Members(q) \cup {h}
      BY <1>3, <1>4 DEF Members
    <2>2. ASSUME NEW i \in DOMAIN q PROVE q[i] \in Members(r)
      <3>1. i + 1 \in DOMAIN r /\ r[i + 1] = q[i]
        BY <1>1, <1>3
      <3> QED  BY <3>1 DEF Members
    <2>3. h \in Members(r)
      <3>1. 1 \in DOMAIN r
        BY <1>1, <1>3
      <3> QED  BY <1>3, <3>1 DEF Members
    <2> QED  BY <2>1, <2>2, <2>3 DEF Members
  <1>6. OnceEach(r)
    <2>1. OnceEach(q) /\ h \notin Members(q)
      BY DEF SlotSound, q
    <2>2. ASSUME NEW i \in DOMAIN r, NEW j \in DOMAIN r, r[i] = r[j] PROVE i = j
      <3>1. CASE i = 1 \/ j = 1
        BY <1>3, <1>4, <2>1, <2>2, <3>1 DEF Members
      <3>2. CASE i # 1 /\ j # 1
        <4>1. i - 1 \in DOMAIN q /\ j - 1 \in DOMAIN q /\ q[i - 1] = q[j - 1]
          BY <1>4, <2>2, <3>2
        <4>2. i - 1 = j - 1
          BY <2>1, <4>1 DEF OnceEach
        <4> QED  BY <1>1, <1>3, <4>2
      <3> QED  BY <3>1, <3>2
    <2> QED  BY <2>2 DEF OnceEach
  <1>7. SlotSound(s)
    BY <1>2, <1>3, <1>6 DEF SlotSound
  <1> QED  BY <1>2, <1>5, <1>7 DEF s, q

\* the last client leaves, or another
LEMMA SlotLeft ==
  ASSUME NEW slot \in SlotRecords, SlotSound(slot), NEW h \in Members(slot.client_queue)
  PROVE  /\ slot.installed
         /\ slot.num_attached <= 1 => Members(slot.client_queue) = {h}
         /\ ~(slot.num_attached <= 1) =>
              LET s == detached([slot EXCEPT !.num_attached = @ - 1], h)
              IN s \in SlotRecords /\ SlotSound(s) /\ s.installed
                 /\ Members(s.client_queue) = Members(slot.client_queue) \ {h}
  <1> DEFINE q == slot.client_queue
             n == slot.num_attached
             r == handleOnDetach(q, h)
             s == detached([slot EXCEPT !.num_attached = @ - 1], h)
  <1>1. q \in Seq(Handles) /\ n = Len(q) /\ Len(q) \in Nat /\ OnceEach(q) /\ DOMAIN q = 1 .. Len(q)
        /\ slot.installed \in BOOLEAN
    BY DEF SlotRecords, SlotSound
  <1>2. PICK i \in DOMAIN q : q[i] = h
    BY DEF Members
  <1>3. slot.installed
    <2>1. q # <<>>
      BY <1>1, <1>2
    <2> QED  BY <1>1, <2>1 DEF SlotSound
  <1>4. ASSUME n <= 1 PROVE Members(q) = {h}
    <2>1. DOMAIN q = {i}
      BY <1>1, <1>2, <1>4
    <2> HIDE DEF q
    <2> QED  BY <1>2, <2>1 DEF Members
  <1>5. /\ r \in Seq(Handles) /\ Members(r) = Members(q) \ {h} /\ OnceEach(r)
        /\ Len(r) + 1 = Len(q)
    <2>1. h \in Members(q)
      OBVIOUS
    <2> HIDE DEF q
    <2>2. Len(r) + (IF h \in Members(q) THEN 1 ELSE 0) = Len(q)
      BY <1>1, DetachOutcome
    <2> HIDE DEF r
    <2>3. Len(r) + 1 = Len(q)
      BY <2>1, <2>2
    <2> QED  BY <1>1, <2>3, DetachOutcome DEF r
  <1>6. ASSUME ~(n <= 1) PROVE s \in SlotRecords /\ SlotSound(s) /\ s.installed /\ s.client_queue = r
    <2>1. s = [slot EXCEPT !.num_attached = @ - 1, !.client_queue = r]
      BY DEF detached, SlotRecords
    <2> HIDE DEF s, r
    <2>2. n - 1 \in Nat
      BY <1>1, <1>6
    <2>3. /\ s \in SlotRecords /\ s.client_queue = r /\ s.num_attached = n - 1 /\ s.installed
      BY <1>3, <1>5, <2>1, <2>2 DEF SlotRecords
    <2>4. s.num_attached = Len(r) /\ r # <<>>
      BY <1>1, <1>5, <1>6, <2>3
    <2> QED  BY <1>5, <2>3, <2>4 DEF SlotSound
  <1> HIDE DEF r
  <1> QED  BY <1>3, <1>4, <1>5, <1>6

-----------------------------------------------------------------------------
(* The protocol.  A handle is in the queue of its module from the answer   *)
(* to its constructor to the moment its destructor takes it out, and       *)
(* nobody else calls it while one of the two is under way.                 *)

Given(c, what, h) == Made(c) /\ c.what = what /\ c.handle = h
Entered(c, h, k) == Given(c, "create", h) /\ c.phase = "replied" /\ c.kind = k /\ c.result = "success"
Left(t, h) ==
  /\ Given(calls[t], "destroy", h)
  /\ \/ calls[t].phase = "replied"
     \/ handler \in {"starting", "giving_up"} /\ queue # <<>> /\ t = Head(queue)
Joined(h, k) ==
  \/ /\ handles[h] # NULL /\ handles[h].has_module /\ handles[h].kind = k
     /\ \A t \in Threads : ~Left(t, h)
  \/ \E t \in Threads : Entered(calls[t], h, k)

QueueInv ==
  /\ \A i \in 1 .. Len(queue) : calls[queue[i]].phase = "posted"
  /\ OnceEach(queue)
\* a call is to a handle that is there, or makes it
CallAgrees(c) ==
  IF c.what = "create" THEN handles[c.handle] = NULL
  ELSE /\ handles[c.handle] # NULL /\ handles[c.handle].kind = c.kind
       /\ c.phase = "posted" => handles[c.handle].has_module
CallsInv == \A t \in Threads : Made(calls[t]) => CallAgrees(calls[t])
Alone(c, d) == c.handle = d.handle => c.what \notin {"create", "destroy"} /\ d.what \notin {"create", "destroy"}
AloneInv == \A t, u \in Threads : t # u /\ Made(calls[t]) /\ Made(calls[u]) => Alone(calls[t], calls[u])
HandlerInv == handler # "idle" => queue # <<>> /\ message.kind \in Visualizers /\ message.what \in {"destroy", "setEnabled"}
SlotsInv ==
  \A k \in Kinds : SlotSound(slots[k]) /\ \A h \in Handles : h \in Members(slots[k].client_queue) <=> Joined(h, k)
Protocol == TypeOK /\ QueueInv /\ CallsInv /\ AloneInv /\ HandlerInv /\ SlotsInv

LEMMA HeadOfQueue ==
  ASSUME Protocol, queue # <<>>
  PROVE  /\ Head(queue) \in Threads /\ message.phase = "posted" /\ Made(message) /\ CallTyped(message)
         /\ message.kind \in scenario /\ message.kind \in Kinds /\ message.handle \in Handles
         /\ CallAgrees(message)
         /\ \A i \in 1 .. Len(Tail(queue)) : Tail(queue)[i] = queue[i + 1] /\ i + 1 \in 1 .. Len(queue)
                                             /\ Tail(queue)[i] # Head(queue)
         /\ Tail(queue) \in Seq(Threads) /\ OnceEach(Tail(queue))
  <1>1. queue \in Seq(Threads) /\ OnceEach(queue) /\ \A i \in 1 .. Len(queue) : calls[queue[i]].phase = "posted"
    BY DEF Protocol, TypeOK, QueueInv
  <1>2. 1 \in 1 .. Len(queue) /\ Head(queue) = queue[1] /\ Head(queue) \in Threads /\ DOMAIN queue = 1 .. Len(queue)
    BY <1>1
  <1>3. message.phase = "posted" /\ Made(message)
    BY <1>1, <1>2 DEF message, Made
  <1>4. CallTyped(message) /\ CallAgrees(message) /\ scenario \subseteq Kinds
    BY <1>2, <1>3, KindsKnown DEF Protocol, TypeOK, CallsInv, message
  <1>5. message.kind \in scenario /\ message.handle \in Handles
    BY <1>3, <1>4 DEF CallTyped
  <1>6. /\ Tail(queue) \in Seq(Threads) /\ Len(Tail(queue)) = Len(queue) - 1
        /\ DOMAIN Tail(queue) = 1 .. Len(queue) - 1
        /\ \A i \in 1 .. Len(queue) - 1 : Tail(queue)[i] = queue[i + 1] /\ i + 1 \in 1 .. Len(queue) /\ i + 1 # 1
    BY <1>1, <1>2
  <1>7. \A i \in 1 .. Len(queue) - 1 : Tail(queue)[i] # Head(queue)
    BY <1>1, <1>2, <1>6 DEF OnceEach
  <1>8. OnceEach(Tail(queue))
    <2> SUFFICES ASSUME NEW i \in 1 .. Len(queue) - 1, NEW j \in 1 .. Len(queue) - 1, Tail(queue)[i] = Tail(queue)[j]
                 PROVE  i = j
      BY <1>6 DEF OnceEach
    <2>1. i + 1 = j + 1
      BY <1>1, <1>2, <1>6 DEF OnceEach
    <2> QED  BY <2>1
  <1> QED  BY <1>2, <1>3, <1>4, <1>5, <1>6, <1>7, <1>8

\* a call begins
LEMMA CallStarts ==
  ASSUME Protocol, NEW t \in Threads, calls[t] = Idle, NEW call, CallTyped(call), Made(call), CallAgrees(call),
         \A u \in Threads : u # t /\ Made(calls[u]) => Alone(calls[u], call),
         calls' = [calls EXCEPT ![t] = call],
         \/ call.phase = "posted" /\ queue' = Append(queue, t)
         \/ /\ call.phase = "replied" /\ queue' = queue
            /\ call.what = "create" => call.result # "success"
            /\ call.what = "destroy" => ~handles[call.handle].has_module,
         UNCHANGED <<scenario, handles, handler, slots>>
  PROVE  Protocol'
  <1>1. TypeOK /\ QueueInv /\ CallsInv /\ AloneInv /\ HandlerInv /\ SlotsInv
    BY DEF Protocol
  <1>2. /\ calls'[t] = call /\ calls' = [u \in Threads |-> calls'[u]]
        /\ \A u \in Threads : u # t => calls'[u] = calls[u]
    BY <1>1 DEF TypeOK
  <1>3. ~Made(calls[t])
    BY DEF Idle, Made
  <1>4. queue \in Seq(Threads) /\ DOMAIN queue = 1 .. Len(queue) /\ \A i \in 1 .. Len(queue) : queue[i] \in Threads
    BY <1>1 DEF TypeOK
  <1>5. \A i \in 1 .. Len(queue) : queue[i] # t
    BY <1>1, <1>3, <1>4 DEF QueueInv, Made
  <1>6. /\ queue' \in Seq(Threads) /\ DOMAIN queue' = 1 .. Len(queue')
        /\ \A i \in 1 .. Len(queue') : \/ i \in 1 .. Len(queue) /\ queue'[i] = queue[i]
                                       \/ queue'[i] = t /\ call.phase = "posted" /\ i = Len(queue) + 1
        /\ queue # <<>> => queue' # <<>> /\ Head(queue') = Head(queue) /\ Head(queue) # t /\ Head(queue) \in Threads
    <2>1. CASE queue' = queue
      <3>1. queue # <<>> => Head(queue) # t /\ Head(queue) \in Threads
        BY <1>4, <1>5
      <3>2. queue' \in Seq(Threads) /\ DOMAIN queue' = 1 .. Len(queue') /\ Len(queue') = Len(queue)
            /\ \A i \in 1 .. Len(queue) : queue'[i] = queue[i]
        BY <1>4, <2>1
      <3> QED  BY <2>1, <3>1, <3>2
    <2>2. CASE call.phase = "posted" /\ queue' = Append(queue, t)
      BY <1>4, <1>5, <2>2
    <2> QED  BY <2>1, <2>2
  <1>7. TypeOK'
    BY <1>1, <1>2, <1>6 DEF TypeOK, CallTyped
  <1>8. QueueInv'
    <2>1. \A i \in 1 .. Len(queue') : calls'[queue'[i]].phase = "posted"
      BY <1>1, <1>2, <1>4, <1>5, <1>6 DEF QueueInv
    <2>2. OnceEach(queue')
      <3> SUFFICES ASSUME NEW i \in 1 .. Len(queue'), NEW j \in 1 .. Len(queue'), queue'[i] = queue'[j]
                   PROVE  i = j
        BY <1>6 DEF OnceEach
      <3>1. (i \in 1 .. Len(queue) /\ queue'[i] = queue[i]) \/ (queue'[i] = t /\ i = Len(queue) + 1)
        BY <1>6
      <3>2. (j \in 1 .. Len(queue) /\ queue'[j] = queue[j]) \/ (queue'[j] = t /\ j = Len(queue) + 1)
        BY <1>6
      <3>3. \A a, b \in 1 .. Len(queue) : queue[a] = queue[b] => a = b
        BY <1>1, <1>4 DEF QueueInv, OnceEach
      <3> QED  BY <1>5, <3>1, <3>2, <3>3
    <2> QED  BY <2>1, <2>2 DEF QueueInv
  <1>9. CallsInv'
    BY <1>1, <1>2 DEF CallsInv, CallAgrees
  <1>10. AloneInv'
    BY <1>1, <1>2 DEF AloneInv, Alone
  <1>11. HandlerInv'
    BY <1>1, <1>2, <1>6 DEF HandlerInv, message
  <1>12. ASSUME NEW h \in Handles, NEW k \in Kinds PROVE Joined(h, k)' <=> Joined(h, k)
    <2>1. \A u \in Threads : u # t => (Left(u, h)' <=> Left(u, h)) /\ (Entered(calls'[u], h, k) <=> Entered(calls[u], h, k))
      BY <1>1, <1>2, <1>6 DEF Left, HandlerInv
    <2>2. ~Left(t, h) /\ ~Entered(calls[t], h, k) /\ ~Entered(call, h, k)
      BY <1>3 DEF Left, Entered, Given
    <2>3. Left(t, h)' => h = call.handle /\ ~handles[h].has_module
      BY <1>1, <1>2, <1>6 DEF Left, Given, HandlerInv
    <2> QED  BY <1>2, <2>1, <2>2, <2>3 DEF Joined
  <1>13. SlotsInv'
    BY <1>1, <1>12 DEF SlotsInv
  <1> QED  BY <1>7, <1>8, <1>9, <1>10, <1>11, <1>13 DEF Protocol

\* a call returns
LEMMA CallReturns ==
  ASSUME Protocol, NEW t \in Threads, Return(t)
  PROVE  Protocol'
  <1>1. TypeOK /\ QueueInv /\ CallsInv /\ AloneInv /\ HandlerInv /\ SlotsInv
    BY DEF Protocol
  <1> DEFINE c == calls[t]
  <1>2. /\ c.phase = "replied" /\ calls' = [calls EXCEPT ![t] = Idle] /\ UNCHANGED <<scenario, queue, handler, slots>>
        /\ c.what = "create" =>
             handles' = [handles EXCEPT ![c.handle] = [kind |-> c.kind, has_module |-> c.result = "success"]]
        /\ c.what = "destroy" => handles' = [handles EXCEPT ![c.handle] = NULL]
        /\ c.what \notin {"create", "destroy"} => handles' = handles
    BY DEF Return, contextVars
  <1>3. Made(c) /\ CallTyped(c) /\ CallAgrees(c)
    BY <1>1, <1>2 DEF Made, TypeOK, CallsInv
  <1>4. c.handle \in Handles /\ c.kind \in scenario
    BY <1>3 DEF CallTyped
  <1>5. /\ calls'[t] = Idle /\ calls' = [u \in Threads |-> calls'[u]] /\ ~Made(calls'[t])
        /\ \A u \in Threads : u # t => calls'[u] = calls[u]
    BY <1>1, <1>2 DEF TypeOK, Idle, Made
  <1>6. \A i \in 1 .. Len(queue) : queue[i] # t /\ queue[i] \in Threads
    BY <1>1, <1>2 DEF QueueInv, TypeOK
  <1>7. /\ handles' \in [Handles -> {NULL} \cup [kind : scenario, has_module : BOOLEAN]]
        /\ \A h \in Handles : h # c.handle => handles'[h] = handles[h]
        /\ c.what = "create" => handles'[c.handle] = [kind |-> c.kind, has_module |-> c.result = "success"]
        /\ c.what = "destroy" => handles'[c.handle] = NULL
        /\ c.what \notin {"create", "destroy"} => handles' = handles
    <2> HIDE DEF c
    <2> DEFINE R == {NULL} \cup [kind : scenario, has_module : BOOLEAN]
               made == [kind |-> c.kind, has_module |-> c.result = "success"]
    <2>1. made \in R
      BY <1>4
    <2>2. handles \in [Handles -> R] /\ NULL \in R
      BY <1>1 DEF TypeOK
    <2> HIDE DEF R, made
    <2>3. c.what = "create" => handles' = [handles EXCEPT ![c.handle] = made]
      BY <1>2 DEF made
    <2>4. handles' \in [Handles -> R]
      BY <1>2, <2>1, <2>2, <2>3
    <2>5. \A h \in Handles : h # c.handle => handles'[h] = handles[h]
      BY <1>2, <2>2, <2>3
    <2>6. /\ c.what = "create" => handles'[c.handle] = made
          /\ c.what = "destroy" => handles'[c.handle] = NULL
          /\ c.what \notin {"create", "destroy"} => handles' = handles
      BY <1>2, <1>4, <2>2, <2>3
    <2> QED  BY <2>4, <2>5, <2>6 DEF R, made
  <1>8. TypeOK'
    <2>1. \A u \in Threads : CallTyped(calls'[u])
      BY <1>1, <1>5 DEF TypeOK, CallTyped
    <2> QED  BY <1>1, <1>2, <1>5, <1>7, <2>1 DEF TypeOK, CallTyped
  <1>9. QueueInv'
    BY <1>1, <1>2, <1>5, <1>6 DEF QueueInv
  <1>10. CallsInv'
    <2> SUFFICES ASSUME NEW u \in Threads, u # t, Made(calls[u]) PROVE CallAgrees(calls[u])'
      BY <1>5 DEF CallsInv, CallAgrees
    <2>1. CallAgrees(calls[u]) /\ calls[u].handle \in Handles
      BY <1>1 DEF CallsInv, TypeOK, CallTyped
    <2>2. c.handle = calls[u].handle => c.what \notin {"create", "destroy"}
      BY <1>1, <1>3 DEF AloneInv, Alone
    <2> QED  BY <1>5, <1>7, <2>1, <2>2 DEF CallAgrees
  <1>11. AloneInv'
    BY <1>1, <1>5 DEF AloneInv, Alone
  <1>12. HandlerInv'
    <2>1. queue # <<>> => Head(queue) \in Threads /\ Head(queue) # t
      BY <1>1, <1>6 DEF TypeOK
    <2> QED  BY <1>1, <1>2, <1>5, <2>1 DEF HandlerInv, message
  <1>13. ASSUME NEW h \in Handles, NEW k \in Kinds PROVE Joined(h, k)' <=> Joined(h, k)
    <2>1. \A u \in Threads : u # t => (Left(u, h)' <=> Left(u, h)) /\ (Entered(calls'[u], h, k) <=> Entered(calls[u], h, k))
      BY <1>2, <1>5 DEF Left
    <2>2. ~Left(t, h)' /\ ~Entered(calls'[t], h, k)
      BY <1>5 DEF Left, Entered, Given
    <2>3. /\ Left(t, h) => h = c.handle /\ c.what = "destroy"
          /\ Entered(calls[t], h, k) <=> h = c.handle /\ c.what = "create" /\ c.kind = k /\ c.result = "success"
          /\ h = c.handle /\ c.what = "destroy" => Left(t, h)
      BY <1>2, <1>3 DEF Left, Entered, Given
    <2>4. CASE h # c.handle \/ c.what \notin {"create", "destroy"}
      <3>1. handles'[h] = handles[h] /\ ~Left(t, h) /\ ~Entered(calls[t], h, k)
        BY <1>7, <2>3, <2>4
      <3> QED  BY <2>1, <2>2, <3>1 DEF Joined
    <2>5. CASE h = c.handle /\ c.what \in {"create", "destroy"}
      <3>1. \A u \in Threads : u # t => ~Left(u, h) /\ ~Entered(calls[u], h, k)
        BY <1>1, <1>3, <2>5 DEF AloneInv, Alone, Left, Entered, Given
      <3>2. CASE c.what = "create"
        <4>1. handles[h] = NULL
          BY <1>3, <2>5, <3>2 DEF CallAgrees
        <4>2. Joined(h, k) <=> c.kind = k /\ c.result = "success"
          BY <2>3, <2>5, <3>1, <3>2, <4>1 DEF Joined
        <4>3. handles'[h] = [kind |-> c.kind, has_module |-> c.result = "success"] /\ c.kind \in Kinds
              /\ c.kind \in scenario
          BY <1>1, <1>4, <1>7, <2>5, <3>2, KindsKnown
        <4>4. handles'[h] # NULL /\ handles'[h].kind = c.kind /\ (handles'[h].has_module <=> c.result = "success")
          <5> HIDE DEF c
          <5> DEFINE made == [kind |-> c.kind, has_module |-> c.result = "success"]
          <5>1. made \in [kind : Kinds, has_module : BOOLEAN] /\ made.kind = c.kind
                /\ (made.has_module <=> c.result = "success")
            BY <4>3
          <5>2. handles'[h] = made
            BY <4>3
          <5> HIDE DEF made
          <5> QED  BY <5>1, <5>2
        <4>5. Joined(h, k)' <=> c.kind = k /\ c.result = "success"
          BY <2>1, <2>2, <3>1, <4>4 DEF Joined
        <4> QED  BY <4>2, <4>5
      <3>3. CASE c.what = "destroy"
        <4>1. ~Joined(h, k)
          BY <2>3, <2>5, <3>1, <3>3 DEF Joined
        <4>2. handles'[h] = NULL
          BY <1>7, <2>5, <3>3
        <4>3. ~Joined(h, k)'
          BY <2>1, <2>2, <3>1, <4>2 DEF Joined
        <4> QED  BY <4>1, <4>3
      <3> QED  BY <2>5, <3>2, <3>3
    <2> QED  BY <2>4, <2>5
  <1>14. SlotsInv'
    BY <1>1, <1>2, <1>13 DEF SlotsInv
  <1> QED  BY <1>8, <1>9, <1>10, <1>11, <1>12, <1>14 DEF Protocol

-----------------------------------------------------------------------------
(* Who is in a queue when its message is handled.                          *)

\* whoever waits for an answer to anything but create is attached, until its destructor is taken out
LEMMA SenderAttached ==
  ASSUME Protocol, NEW i \in 1 .. Len(queue), calls[queue[i]].what # "create",
         i > 1 \/ handler \notin {"starting", "giving_up"} \/ calls[queue[i]].what # "destroy"
  PROVE  LET c == calls[queue[i]]
         IN /\ c.kind \in Kinds /\ c.handle \in Members(slots[c.kind].client_queue)
            /\ slots[c.kind] \in SlotRecords /\ SlotSound(slots[c.kind]) /\ slots[c.kind].installed
  <1> DEFINE t == queue[i]
             c == calls[t]
             s == slots[c.kind]
  <1>1. TypeOK /\ QueueInv /\ CallsInv /\ AloneInv /\ SlotsInv
    BY DEF Protocol
  <1>2. /\ t \in Threads /\ c.phase = "posted" /\ Made(c) /\ CallTyped(c) /\ CallAgrees(c)
        /\ queue # <<>> => (Head(queue) = t => i = 1)
    <2>1. queue \in Seq(Threads) /\ DOMAIN queue = 1 .. Len(queue) /\ OnceEach(queue)
      BY <1>1 DEF TypeOK, QueueInv
    <2>2. t \in Threads
      BY <2>1
    <2>3. queue # <<>> => Head(queue) = queue[1] /\ 1 \in DOMAIN queue
      BY <2>1
    <2>4. queue # <<>> => (Head(queue) = t => i = 1)
      BY <2>1, <2>3 DEF OnceEach
    <2> QED  BY <1>1, <2>2, <2>4 DEF TypeOK, QueueInv, CallsInv, Made
  <1>3. c.handle \in Handles /\ c.kind \in Kinds
    BY <1>2, KindsKnown, <1>1 DEF CallTyped
  <1>4. handles[c.handle] # NULL /\ handles[c.handle].has_module /\ handles[c.handle].kind = c.kind
    BY <1>2 DEF CallAgrees
  <1>5. \A u \in Threads : ~Left(u, c.handle)
    <2> SUFFICES ASSUME NEW u \in Threads, Left(u, c.handle) PROVE FALSE
      OBVIOUS
    <2>1. Made(calls[u]) /\ calls[u].what = "destroy" /\ calls[u].handle = c.handle
      BY DEF Left, Given
    <2>2. u = t
      BY <1>1, <1>2, <2>1 DEF AloneInv, Alone
    <2>3. handler \in {"starting", "giving_up"} /\ queue # <<>> /\ t = Head(queue)
      BY <1>2, <2>2 DEF Left
    <2> QED  BY <1>2, <2>1, <2>2, <2>3
  <1>6. Joined(c.handle, c.kind)
    BY <1>4, <1>5 DEF Joined
  <1>7. c.handle \in Members(s.client_queue) /\ SlotSound(s) /\ s \in SlotRecords
    BY <1>1, <1>3, <1>6 DEF SlotsInv, TypeOK
  <1>8. s.installed
    <2> HIDE DEF s
    <2> QED  BY <1>7, SlotLeft
  <1> QED  BY <1>3, <1>7, <1>8

\* a handle under construction is nobody's client
LEMMA NotYetAttached ==
  ASSUME Protocol, queue # <<>>, message.what = "create"
  PROVE  \A k \in Kinds : message.handle \notin Members(slots[k].client_queue)
  <1>1. AloneInv /\ SlotsInv
    BY DEF Protocol
  <1>2. Head(queue) \in Threads /\ message.phase = "posted" /\ Made(message) /\ CallAgrees(message) /\ message.handle \in Handles
    BY HeadOfQueue
  <1>3. handles[message.handle] = NULL
    BY <1>2 DEF CallAgrees
  <1>4. ASSUME NEW u \in Threads, NEW k \in Kinds PROVE ~Entered(calls[u], message.handle, k)
    <2>1. CASE u = Head(queue)
      BY <1>2, <2>1 DEF Entered, message
    <2>2. CASE u # Head(queue)
      BY <1>1, <1>2, <2>2 DEF AloneInv, Alone, Entered, Given, message
    <2> QED  BY <2>1, <2>2
  <1> QED  BY <1>1, <1>2, <1>3, <1>4 DEF SlotsInv, Joined

\* while the thread is started again, the client that leaves is out already
LEMMA GoneAlready ==
  ASSUME Protocol, handler \in {"starting", "giving_up"}, message.what = "destroy"
  PROVE  message.handle \notin Members(slots[message.kind].client_queue)
  <1>1. AloneInv /\ SlotsInv /\ HandlerInv /\ queue # <<>>
    BY DEF Protocol, HandlerInv
  <1>2. /\ Head(queue) \in Threads /\ message.phase = "posted" /\ Made(message) /\ message.handle \in Handles
        /\ message.kind \in Kinds
    BY <1>1, HeadOfQueue
  <1>3. Left(Head(queue), message.handle)
    BY <1>1, <1>2 DEF Left, Given, message
  <1>4. ASSUME NEW u \in Threads PROVE ~Entered(calls[u], message.handle, message.kind)
    BY <1>1, <1>2 DEF AloneInv, Alone, Entered, Given, message
  <1> QED  BY <1>1, <1>2, <1>3, <1>4 DEF SlotsInv, Joined

-----------------------------------------------------------------------------
(* Steps of the handler thread.                                            *)

\* none of this changes
LEMMA Unmoved ==
  ASSUME Protocol, UNCHANGED <<scenario, handles, calls, queue, handler, slots>>
  PROVE  Protocol'
  <1>1. TypeOK' /\ QueueInv' /\ CallsInv' /\ AloneInv'
    BY DEF Protocol, TypeOK, QueueInv, CallsInv, CallAgrees, AloneInv, CallTyped
  <1>2. HandlerInv'
    BY DEF Protocol, HandlerInv, message
  <1>3. SlotsInv'
    BY DEF Protocol, SlotsInv, Joined, Left
  <1> QED  BY <1>1, <1>2, <1>3 DEF Protocol

\* who is attached once a message is answered
Answers(clients, m, result) ==
  IF m.what = "create" /\ result = "success" THEN clients \cup {m.handle}
  ELSE IF m.what = "destroy" THEN clients \ {m.handle}
  ELSE clients

LEMMA MessageAnswered ==
  ASSUME Protocol, queue # <<>>, NEW result, NEW value, reply(result, value), UNCHANGED <<scenario, handles>>,
         NEW s \in SlotRecords, SlotSound(s), slots' = [slots EXCEPT ![message.kind] = s],
         Members(s.client_queue) = Answers(Members(slots[message.kind].client_queue), message, result)
  PROVE  Protocol'
  <1>a. PICK t : t = Head(queue)
    OBVIOUS
  <1>b. PICK m : m = message
    OBVIOUS
  <1> DEFINE r == Replied(m, result, value)
  <1>1. TypeOK /\ QueueInv /\ CallsInv /\ AloneInv /\ SlotsInv
    BY DEF Protocol
  <1>2. /\ t \in Threads /\ m = calls[t] /\ m.phase = "posted" /\ Made(m) /\ CallTyped(m) /\ CallAgrees(m)
        /\ m.kind \in Kinds /\ m.handle \in Handles
        /\ \A i \in 1 .. Len(Tail(queue)) : Tail(queue)[i] = queue[i + 1] /\ i + 1 \in 1 .. Len(queue)
                                            /\ Tail(queue)[i] # t
        /\ Tail(queue) \in Seq(Threads) /\ OnceEach(Tail(queue))
    BY <1>a, <1>b, HeadOfQueue DEF message
  <1>3. /\ CallTyped(r) /\ Made(r) /\ r.phase = "replied" /\ r.result = result
        /\ r.handle = m.handle /\ r.kind = m.kind /\ r.what = m.what
    BY <1>2, RepliedCall
  <1>4. /\ queue' = Tail(queue) /\ handler' = "idle" /\ calls' = [u \in Threads |-> calls'[u]]
        /\ calls'[t] = r /\ \A u \in Threads : u # t => calls'[u] = calls[u]
    <2>1. calls' = [calls EXCEPT ![t] = r] /\ queue' = Tail(queue) /\ handler' = "idle"
      BY <1>a, <1>2 DEF reply
    <2> HIDE DEF r
    <2> QED  BY <1>1, <1>2, <2>1 DEF TypeOK
  <1> HIDE DEF r
  <1>5. slots' \in [Kinds -> SlotRecords] /\ slots'[m.kind] = s /\ \A k \in Kinds : k # m.kind => slots'[k] = slots[k]
    BY <1>b, <1>1, <1>2 DEF TypeOK
  <1>6. TypeOK'
    <2>1. \A u \in Threads : CallTyped(calls'[u])
      BY <1>1, <1>3, <1>4 DEF TypeOK
    <2> QED  BY <1>1, <1>2, <1>4, <1>5, <2>1 DEF TypeOK, CallTyped
  <1>7. QueueInv'
    <2> SUFFICES ASSUME NEW i \in 1 .. Len(Tail(queue)) PROVE calls'[Tail(queue)[i]].phase = "posted"
      BY <1>2, <1>4 DEF QueueInv
    <2>1. calls[queue[i + 1]].phase = "posted" /\ queue[i + 1] # t /\ Tail(queue)[i] = queue[i + 1]
      BY <1>1, <1>2 DEF QueueInv
    <2>2. queue[i + 1] \in Threads
      BY <1>1, <1>2 DEF TypeOK
    <2> QED  BY <1>4, <2>1, <2>2
  <1>8. CallsInv'
    <2> SUFFICES ASSUME NEW u \in Threads, Made(calls'[u]) PROVE CallAgrees(calls[u])'
      BY DEF CallsInv
    <2>1. CASE u = t
      BY <1>2, <1>3, <1>4, <2>1 DEF CallAgrees
    <2>2. CASE u # t
      <3>1. CallAgrees(calls[u])
        BY <1>1, <1>4, <2>2 DEF CallsInv
      <3> QED  BY <1>4, <2>2, <3>1 DEF CallAgrees
    <2> QED  BY <2>1, <2>2
  <1>9. AloneInv'
    <2> SUFFICES ASSUME NEW u \in Threads, NEW w \in Threads, u # w, Made(calls'[u]), Made(calls'[w])
                 PROVE  Alone(calls'[u], calls'[w])
      BY DEF AloneInv, Alone
    <2>1. \A x \in Threads : /\ Made(calls'[x]) => Made(calls[x])
                             /\ calls'[x].handle = calls[x].handle /\ calls'[x].what = calls[x].what
      BY <1>2, <1>3, <1>4
    <2>2. Alone(calls[u], calls[w])
      BY <1>1, <2>1 DEF AloneInv
    <2> QED  BY <2>1, <2>2 DEF Alone
  <1>10. HandlerInv'
    BY <1>4 DEF HandlerInv
  <1>11. ASSUME NEW u \in Threads, NEW h \in Handles, NEW k \in Kinds, u # t
         PROVE  (Left(u, h)' <=> Left(u, h)) /\ (Entered(calls'[u], h, k) <=> Entered(calls[u], h, k))
    BY <1>a, <1>4, <1>11 DEF Left
  <1>12. ASSUME NEW h \in Handles, NEW k \in Kinds, h # m.handle PROVE Joined(h, k)' <=> Joined(h, k)
    <2>1. ~Left(t, h) /\ ~Left(t, h)' /\ ~Entered(calls[t], h, k) /\ ~Entered(calls'[t], h, k)
      BY <1>2, <1>3, <1>4, <1>12 DEF Left, Entered, Given
    <2> QED  BY <1>11, <2>1 DEF Joined
  <1>13. ASSUME m.what \in {"create", "destroy"}, NEW u \in Threads, u # t, NEW k \in Kinds
         PROVE  ~Left(u, m.handle) /\ ~Entered(calls[u], m.handle, k)
    BY <1>1, <1>2, <1>13 DEF AloneInv, Alone, Left, Entered, Given
  <1>14. ASSUME m.what = "create", NEW k \in Kinds
         PROVE  ~Joined(m.handle, k) /\ (Joined(m.handle, k)' <=> k = m.kind /\ result = "success")
    <2>1. handles[m.handle] = NULL /\ handles'[m.handle] = NULL
      BY <1>2, <1>14 DEF CallAgrees
    <2>2. ~Entered(calls[t], m.handle, k)
      BY <1>2 DEF Entered
    <2>3. Entered(calls'[t], m.handle, k) <=> k = m.kind /\ result = "success"
      BY <1>3, <1>4, <1>14 DEF Entered, Given
    <2> QED  BY <1>2, <1>11, <1>13, <1>14, <2>1, <2>2, <2>3 DEF Joined
  <1>15. ASSUME m.what = "destroy", NEW k \in Kinds
         PROVE  ~Joined(m.handle, k)' /\ (k # m.kind => ~Joined(m.handle, k))
    <2>1. Left(t, m.handle)' /\ ~Entered(calls'[t], m.handle, k) /\ ~Entered(calls[t], m.handle, k)
      BY <1>2, <1>3, <1>4, <1>15 DEF Left, Entered, Given
    <2>2. handles[m.handle].kind = m.kind
      BY <1>2, <1>15 DEF CallAgrees
    <2> QED  BY <1>2, <1>11, <1>13, <1>15, <2>1, <2>2 DEF Joined
  <1>16. ASSUME m.what \notin {"create", "destroy"}, NEW k \in Kinds
         PROVE  Joined(m.handle, k)' <=> Joined(m.handle, k)
    <2>1. ~Left(t, m.handle) /\ ~Left(t, m.handle)' /\ ~Entered(calls[t], m.handle, k) /\ ~Entered(calls'[t], m.handle, k)
      BY <1>2, <1>3, <1>4, <1>16 DEF Left, Entered, Given
    <2> QED  BY <1>2, <1>11, <2>1 DEF Joined
  <1>17. ASSUME NEW k \in Kinds
         PROVE  SlotSound(slots'[k]) /\ \A h \in Handles : h \in Members(slots'[k].client_queue) <=> Joined(h, k)'
    <2> DEFINE old == Members(slots[k].client_queue)
               new == Members(slots'[k].client_queue)
    <2>1. SlotSound(slots[k]) /\ \A h \in Handles : h \in old <=> Joined(h, k)
      BY <1>1 DEF SlotsInv
    <2>2. SlotSound(slots'[k])
      BY <1>5, <2>1
    <2>3. new = IF k = m.kind THEN Answers(old, m, result) ELSE old
      BY <1>b, <1>5
    <2> HIDE DEF old, new
    <2>4. \A h \in Handles : h # m.handle => (h \in new <=> Joined(h, k)')
      BY <1>12, <2>1, <2>3 DEF Answers
    <2>5. m.handle \in new <=> Joined(m.handle, k)'
      <3>1. CASE m.what = "create"
        BY <1>2, <1>14, <2>1, <2>3, <3>1 DEF Answers
      <3>2. CASE m.what = "destroy"
        BY <1>2, <1>15, <2>1, <2>3, <3>2 DEF Answers
      <3>3. CASE m.what \notin {"create", "destroy"}
        BY <1>2, <1>16, <2>1, <2>3, <3>3 DEF Answers
      <3> QED  BY <3>1, <3>2, <3>3
    <2> QED  BY <2>2, <2>4, <2>5 DEF new
  <1>18. SlotsInv'
    BY <1>17 DEF SlotsInv
  <1> QED  BY <1>6, <1>7, <1>8, <1>9, <1>10, <1>18 DEF Protocol

\* the handler thread waits for the thread of a visualizer; a client that leaves is out before a start
LEMMA HandlerWaits ==
  ASSUME Protocol, queue # <<>>, UNCHANGED <<scenario, handles, calls, queue>>,
         handler' \in {"starting", "stopping", "giving_up"}, message.kind \in Visualizers,
         message.what \in {"destroy", "setEnabled"}, handler' = "stopping" => handler = "idle",
         NEW s \in SlotRecords, SlotSound(s), slots' = [slots EXCEPT ![message.kind] = s],
         Members(s.client_queue) =
           IF message.what = "destroy" /\ handler' # "stopping"
             THEN Members(slots[message.kind].client_queue) \ {message.handle}
             ELSE Members(slots[message.kind].client_queue)
  PROVE  Protocol'
  <1>a. PICK t : t = Head(queue)
    OBVIOUS
  <1>b. PICK m : m = message
    OBVIOUS
  <1>1. TypeOK /\ QueueInv /\ CallsInv /\ AloneInv /\ SlotsInv
    BY DEF Protocol
  <1>2. /\ t \in Threads /\ m = calls[t] /\ m.phase = "posted" /\ Made(m) /\ CallAgrees(m)
        /\ m.kind \in Kinds /\ m.handle \in Handles
    BY <1>a, <1>b, HeadOfQueue DEF message
  <1>3. slots' \in [Kinds -> SlotRecords] /\ slots'[m.kind] = s /\ \A k \in Kinds : k # m.kind => slots'[k] = slots[k]
    BY <1>b, <1>1, <1>2 DEF TypeOK
  <1>4. TypeOK'
    BY <1>1, <1>3 DEF TypeOK, CallTyped
  <1>5. QueueInv' /\ CallsInv' /\ AloneInv'
    BY <1>1 DEF QueueInv, CallsInv, CallAgrees, AloneInv
  <1>6. HandlerInv'
    BY DEF HandlerInv, message
  <1>7. ASSUME NEW h \in Handles, ~Given(calls[t], "destroy", h), NEW u \in Threads PROVE Left(u, h)' <=> Left(u, h)
    BY <1>a, <1>7 DEF Left
  <1>8. ASSUME NEW h \in Handles, h # m.handle \/ m.what # "destroy", NEW k \in Kinds PROVE Joined(h, k)' <=> Joined(h, k)
    <2>1. ~Given(calls[t], "destroy", h)
      BY <1>2, <1>8 DEF Given
    <2> QED  BY <1>7, <2>1 DEF Joined
  <1>9. ASSUME m.what = "destroy", handler' = "stopping", NEW k \in Kinds
        PROVE  Joined(m.handle, k)' <=> Joined(m.handle, k)
    <2>1. \A u \in Threads : Left(u, m.handle)' <=> Left(u, m.handle)
      BY <1>b, <1>9 DEF Left
    <2> QED  BY <2>1 DEF Joined
  <1>10. ASSUME m.what = "destroy", handler' # "stopping", NEW k \in Kinds
         PROVE  ~Joined(m.handle, k)' /\ (k # m.kind => ~Joined(m.handle, k))
    <2>1. Left(t, m.handle)'
      BY <1>a, <1>2, <1>10 DEF Left, Given
    <2>2. \A u \in Threads : ~Entered(calls[u], m.handle, k)
      BY <1>1, <1>2, <1>10 DEF AloneInv, Alone, Entered, Given
    <2>3. handles[m.handle].kind = m.kind
      BY <1>2, <1>10 DEF CallAgrees
    <2> QED  BY <1>2, <2>1, <2>2, <2>3 DEF Joined
  <1>11. ASSUME NEW k \in Kinds
         PROVE  SlotSound(slots'[k]) /\ \A h \in Handles : h \in Members(slots'[k].client_queue) <=> Joined(h, k)'
    <2> DEFINE old == Members(slots[k].client_queue)
               new == Members(slots'[k].client_queue)
    <2>1. SlotSound(slots[k]) /\ \A h \in Handles : h \in old <=> Joined(h, k)
      BY <1>1 DEF SlotsInv
    <2>2. SlotSound(slots'[k])
      BY <1>3, <2>1
    <2>3. new = IF k = m.kind /\ m.what = "destroy" /\ handler' # "stopping" THEN old \ {m.handle} ELSE old
      BY <1>b, <1>3
    <2> HIDE DEF old, new
    <2>4. \A h \in Handles : h # m.handle => (h \in new <=> Joined(h, k)')
      BY <1>8, <2>1, <2>3
    <2>5. m.handle \in new <=> Joined(m.handle, k)'
      <3>1. CASE m.what # "destroy"
        BY <1>2, <1>8, <2>1, <2>3, <3>1
      <3>2. CASE m.what = "destroy" /\ handler' = "stopping"
        BY <1>2, <1>9, <2>1, <2>3, <3>2
      <3>3. CASE m.what = "destroy" /\ handler' # "stopping"
        BY <1>2, <1>10, <2>1, <2>3, <3>3
      <3> QED  BY <3>1, <3>2, <3>3
    <2> QED  BY <2>2, <2>4, <2>5 DEF new
  <1>12. SlotsInv'
    BY <1>11 DEF SlotsInv
  <1> QED  BY <1>4, <1>5, <1>6, <1>12 DEF Protocol

-----------------------------------------------------------------------------
(* Every step keeps the protocol.                                          *)

LEMMA InitProtocol == Init => Protocol
  <1> SUFFICES ASSUME Init PROVE Protocol
    OBVIOUS
  <1>1. /\ \A h \in Handles : handles[h] = NULL
        /\ \A t \in Threads : calls[t] = Idle /\ ~Made(calls[t])
        /\ \A k \in Kinds : slots[k] = FreeSlot
        /\ queue = <<>> /\ handler = "idle"
    BY DEF Init, Idle, Made
  <1>2. TypeOK
    BY <1>1, SlotFree DEF Init, TypeOK, CallTyped
  <1>3. QueueInv /\ CallsInv /\ AloneInv /\ HandlerInv
    BY <1>1 DEF QueueInv, OnceEach, CallsInv, AloneInv, HandlerInv
  <1>4. SlotsInv
    BY <1>1, SlotFree DEF SlotsInv, Joined, Entered, Given
  <1> QED  BY <1>2, <1>3, <1>4 DEF Protocol

LEMMA CreateStep ==
  ASSUME Protocol, NEW t \in Threads, NEW h \in Handles, NEW kind \in scenario, Create(t, h, kind)
  PROVE  Protocol'
  <1> DEFINE call == Call(h, kind, "create", NULL)
             refused == Replied(call, "dead_object", NULL)
  <1>1. /\ calls[t] = Idle /\ handles[h] = NULL /\ UNCHANGED <<scenario, handles, handler, slots>>
        /\ \/ calls' = [calls EXCEPT ![t] = call] /\ queue' = Append(queue, t)
           \/ calls' = [calls EXCEPT ![t] = refused] /\ queue' = queue
    BY DEF Create, post, contextVars, moduleVars
  <1>2. CallTyped(call) /\ Made(call) /\ call.phase = "posted" /\ call.handle = h /\ call.what = "create"
    BY NewCall
  <1>3. /\ CallTyped(refused) /\ Made(refused) /\ refused.phase = "replied" /\ refused.handle = h
        /\ refused.what = "create" /\ refused.result = "dead_object"
    BY <1>2, RepliedCall
  <1>4. \A u \in Threads : u # t /\ Made(calls[u]) => calls[u].handle # h
    BY DEF Create, Calls, Made, Idle
  <1> HIDE DEF call, refused
  <1>5. /\ CallAgrees(call) /\ CallAgrees(refused)
        /\ \A u \in Threads : u # t /\ Made(calls[u]) => Alone(calls[u], call) /\ Alone(calls[u], refused)
    BY <1>1, <1>2, <1>3, <1>4 DEF CallAgrees, Alone
  <1>6. CASE calls' = [calls EXCEPT ![t] = call] /\ queue' = Append(queue, t)
    BY <1>1, <1>2, <1>5, <1>6, CallStarts
  <1>7. CASE calls' = [calls EXCEPT ![t] = refused] /\ queue' = queue
    BY <1>1, <1>3, <1>5, <1>7, CallStarts
  <1> QED  BY <1>1, <1>6, <1>7

LEMMA DestroyStep ==
  ASSUME Protocol, NEW t \in Threads, NEW h \in Handles, Destroy(t, h)
  PROVE  Protocol'
  <1> DEFINE kind == handles[h].kind
             call == Call(h, kind, "destroy", NULL)
             refused == Replied(call, "dead_object", NULL)
  <1>1. /\ calls[t] = Idle /\ handles[h] # NULL /\ UNCHANGED <<scenario, handles, handler, slots>>
        /\ \/ calls' = [calls EXCEPT ![t] = call] /\ queue' = Append(queue, t) /\ handles[h].has_module
           \/ calls' = [calls EXCEPT ![t] = refused] /\ queue' = queue /\ ~handles[h].has_module
    BY DEF Destroy, post, contextVars, moduleVars
  <1>2. kind \in scenario
    BY <1>1 DEF Protocol, TypeOK
  <1> HIDE DEF kind
  <1>3. CallTyped(call) /\ Made(call) /\ call.phase = "posted" /\ call.handle = h /\ call.what = "destroy" /\ call.kind = kind
    BY <1>2, NewCall
  <1>4. /\ CallTyped(refused) /\ Made(refused) /\ refused.phase = "replied" /\ refused.handle = h
        /\ refused.what = "destroy" /\ refused.kind = kind
    BY <1>3, RepliedCall
  <1>5. \A u \in Threads : u # t /\ Made(calls[u]) => calls[u].handle # h
    BY DEF Destroy, Calls, Made, Idle
  <1> HIDE DEF call, refused
  <1>6. /\ handles[h].has_module => CallAgrees(call)
        /\ CallAgrees(refused)
        /\ \A u \in Threads : u # t /\ Made(calls[u]) => Alone(calls[u], call) /\ Alone(calls[u], refused)
    BY <1>1, <1>3, <1>4, <1>5 DEF CallAgrees, Alone, kind
  <1>7. CASE calls' = [calls EXCEPT ![t] = call] /\ queue' = Append(queue, t) /\ handles[h].has_module
    BY <1>1, <1>3, <1>6, <1>7, CallStarts
  <1>8. CASE calls' = [calls EXCEPT ![t] = refused] /\ queue' = queue /\ ~handles[h].has_module
    BY <1>1, <1>4, <1>6, <1>8, CallStarts
  <1> QED  BY <1>1, <1>7, <1>8

\* no handle posts without a module
LEMMA PostedToModule ==
  ASSUME NEW h, NEW what, NEW arg, handles[h].kind \in Kinds, posting(h, what, arg) = "posted"
  PROVE  handles[h].has_module
  <1> DEFINE k == handles[h].kind
  <1>1. CASE k \in {"bassboost", "virtualizer", "preamp"}
    BY <1>1 DEF posting, BB!posting, VI!posting, PA!posting
  <1>2. CASE k \in {"equalizer", "hqequalizer"}
    BY <1>2 DEF posting, EQ!posting, HQ!posting
  <1>3. CASE k \in {"presetreverb", "envreverb"}
    BY <1>3 DEF posting, PR!posting, ER!posting
  <1>4. CASE k \in {"visualizer", "hqvisualizer"}
    BY <1>4 DEF posting, V!posting, HV!posting
  <1> QED  BY <1>1, <1>2, <1>3, <1>4 DEF Kinds, Effects, Visualizers

LEMMA UseStep ==
  ASSUME Protocol, NEW t \in Threads, NEW h \in Handles, handles[h] # NULL,
         NEW what \in Asked(scenario, handles[h].kind),
         NEW arg \in Legal(handles[h].kind, what) \cup Illegal(handles[h].kind, what), Use(t, h, what, arg)
  PROVE  Protocol'
  <1> DEFINE kind == handles[h].kind
             call == Call(h, kind, what, arg)
             outcome == posting(h, what, arg)
             refused == Replied(call, outcome, NULL)
  <1>1. /\ calls[t] = Idle /\ UNCHANGED <<scenario, handles, handler, slots>>
        /\ \/ calls' = [calls EXCEPT ![t] = call] /\ queue' = Append(queue, t) /\ outcome = "posted"
           \/ calls' = [calls EXCEPT ![t] = refused] /\ queue' = queue
    BY DEF Use, post, contextVars, moduleVars
  <1>2. kind \in scenario /\ scenario \in Scenarios
    BY DEF Protocol, TypeOK
  <1>3. kind \in Kinds /\ what \in Methods(kind) /\ what \notin {"create", "destroy"}
    BY <1>2, KindsKnown DEF Protocol
  <1>4. what = "setEnabled" => arg \in BOOLEAN
    BY <1>3
  <1>5. outcome = "posted" => handles[h].has_module
    BY <1>3, PostedToModule
  <1>6. \A u \in Threads : u # t /\ Made(calls[u]) /\ calls[u].handle = h => calls[u].what \notin {"create", "destroy"}
    BY DEF Use, Calls, Made, Idle
  <1> HIDE DEF kind, outcome
  <1>7. CallTyped(call) /\ Made(call) /\ call.phase = "posted" /\ call.handle = h /\ call.what = what /\ call.kind = kind
    <2>1. what \in {"create", "destroy"} \cup Methods(kind)
      BY <1>3
    <2> QED  BY <1>2, <1>4, <2>1, NewCall
  <1>8. /\ CallTyped(refused) /\ Made(refused) /\ refused.phase = "replied" /\ refused.handle = h
        /\ refused.what = what /\ refused.kind = kind
    BY <1>7, RepliedCall
  <1> HIDE DEF call, refused
  <1>9. /\ handles[h].has_module => CallAgrees(call)
        /\ CallAgrees(refused)
        /\ \A u \in Threads : u # t /\ Made(calls[u]) => Alone(calls[u], call) /\ Alone(calls[u], refused)
    BY <1>3, <1>6, <1>7, <1>8 DEF CallAgrees, Alone, kind
  <1>10. CASE calls' = [calls EXCEPT ![t] = call] /\ queue' = Append(queue, t) /\ outcome = "posted"
    BY <1>1, <1>5, <1>7, <1>9, <1>10, CallStarts
  <1>11. CASE calls' = [calls EXCEPT ![t] = refused] /\ queue' = queue
    BY <1>1, <1>3, <1>8, <1>9, <1>11, CallStarts
  <1> QED  BY <1>1, <1>10, <1>11

-----------------------------------------------------------------------------

\* an answer that leaves the queues of clients as they are
LEMMA AnsweredInPlace ==
  ASSUME Protocol, queue # <<>>, NEW result, NEW value, reply(result, value), UNCHANGED <<scenario, handles, slots>>,
         message.what = "create" => result # "success",
         message.what = "destroy" => message.handle \notin Members(slots[message.kind].client_queue)
  PROVE  Protocol'
  <1> DEFINE s == slots[message.kind]
  <1>1. message.kind \in Kinds
    BY HeadOfQueue
  <1>2. s \in SlotRecords /\ SlotSound(s) /\ slots' = [slots EXCEPT ![message.kind] = s]
    BY <1>1 DEF Protocol, TypeOK, SlotsInv
  <1>3. Members(s.client_queue) = Answers(Members(s.client_queue), message, result)
    BY DEF Answers
  <1> HIDE DEF s
  <1>4. Members(s.client_queue) = Answers(Members(slots[message.kind].client_queue), message, result)
    BY <1>3 DEF s
  <1> QED  BY <1>2, <1>4, MessageAnswered

LEMMA AttachOrInstallStep ==
  ASSUME Protocol, handleExtAttachOrInstall
  PROVE  Protocol'
  <1> DEFINE m == message
             slot == slots[m.kind]
             h == m.handle
  <1>1. /\ handler = "idle" /\ queue # <<>> /\ m.what = "create" /\ UNCHANGED <<scenario, handles>>
        /\ internalExtAttach(m) \/ internalExtInstall(m)
    BY DEF handleExtAttachOrInstall, contextVars
  <1>2. m.kind \in Kinds /\ h \in Handles /\ slot \in SlotRecords /\ SlotSound(slot) /\ h \notin Members(slot.client_queue)
    BY <1>1, HeadOfQueue, NotYetAttached DEF Protocol, TypeOK, SlotsInv
  <1>3. CASE internalExtAttach(m)
    <2> DEFINE s == attach(slot, h)
    <2>1. slot.installed /\ slots' = [slots EXCEPT ![m.kind] = s] /\ reply("success", NULL)
      BY <1>3, <1>2 DEF internalExtAttach, Protocol, TypeOK
    <2>2. s \in SlotRecords /\ SlotSound(s) /\ Members(s.client_queue) = Members(slot.client_queue) \cup {h}
      BY <1>2, <2>1, SlotAttached
    <2> HIDE DEF s
    <2>3. Members(s.client_queue) = Answers(Members(slots[message.kind].client_queue), message, "success")
      BY <1>1, <2>2 DEF Answers
    <2> QED  BY <1>1, <2>1, <2>2, <2>3, MessageAnswered
  <1>4. CASE internalExtInstall(m)
    <2>1. CASE m.kind \in NeedsInterface \ supported
      <3>1. reply("error", NULL) /\ slots' = slots
        BY <1>4, <2>1 DEF internalExtInstall
      <3> QED  BY <1>1, <3>1, AnsweredInPlace
    <2>2. CASE m.kind \notin NeedsInterface \ supported
      <3> DEFINE s == [installed |-> TRUE, num_attached |-> 1, client_queue |-> handleOnInstall(h)]
      <3>1. ~slot.installed /\ slots' = [slots EXCEPT ![m.kind] = s] /\ reply("success", NULL)
        BY <1>4, <2>2 DEF internalExtInstall
      <3>2. s \in SlotRecords /\ SlotSound(s) /\ Members(s.client_queue) = {h}
        BY <1>2, SlotInstalled
      <3>3. Members(slot.client_queue) = {}
        BY <1>2, <3>1 DEF SlotSound, Members
      <3> HIDE DEF s
      <3>4. Members(s.client_queue) = Answers(Members(slots[message.kind].client_queue), message, "success")
        BY <1>1, <3>2, <3>3 DEF Answers
      <3> QED  BY <1>1, <3>1, <3>2, <3>4, MessageAnswered
    <2> QED  BY <2>1, <2>2
  <1> QED  BY <1>1, <1>3, <1>4

\* the last client
LEMMA FinishUninstall ==
  ASSUME Protocol, queue # <<>>, message.what = "destroy", handler \in {"idle", "stopping"},
         slots[message.kind].num_attached <= 1, finishUninstall(message), UNCHANGED <<scenario, handles>>
  PROVE  Protocol'
  <1> DEFINE M == Members(slots[message.kind].client_queue)
  <1>1. M = {message.handle}
    <2>1. 1 \in 1 .. Len(queue) /\ message = calls[queue[1]]
      BY DEF Protocol, TypeOK, message
    <2>2. /\ message.handle \in M /\ slots[message.kind] \in SlotRecords /\ SlotSound(slots[message.kind])
      BY <2>1, SenderAttached
    <2> QED  BY <2>2, SlotLeft
  <1>2. slots' = [slots EXCEPT ![message.kind] = FreeSlot] /\ reply("success", NULL)
    BY DEF finishUninstall
  <1>3. Members(FreeSlot.client_queue) = Answers(M, message, "success")
    BY <1>1, SlotFree DEF Answers
  <1> QED  BY <1>2, <1>3, SlotFree, MessageAnswered

\* one of several
LEMMA FinishDetach ==
  ASSUME Protocol, queue # <<>>, message.what = "destroy", handler \in {"idle", "stopping"},
         ~(slots[message.kind].num_attached <= 1), NEW stopped, stopped => message.kind \in Visualizers,
         finishDetach(message, stopped), UNCHANGED <<scenario, handles>>
  PROVE  Protocol'
  <1> DEFINE old == slots[message.kind]
             s == detached([old EXCEPT !.num_attached = @ - 1], message.handle)
  <1>1. s \in SlotRecords /\ SlotSound(s) /\ Members(s.client_queue) = Members(old.client_queue) \ {message.handle}
    <2>1. 1 \in 1 .. Len(queue) /\ message = calls[queue[1]]
      BY DEF Protocol, TypeOK, message
    <2>2. /\ message.handle \in Members(old.client_queue) /\ old \in SlotRecords /\ SlotSound(old)
      BY <2>1, SenderAttached
    <2> QED  BY <2>2, SlotLeft
  <1>2. slots' = [slots EXCEPT ![message.kind] = s]
    BY DEF finishDetach
  <1>3. \/ stopped /\ handler' = "starting" /\ UNCHANGED <<calls, queue>>
        \/ reply("success", NULL)
    BY DEF finishDetach, startPeriodicCapturing
  <1> HIDE DEF s
  <1>4. CASE stopped /\ handler' = "starting" /\ UNCHANGED <<calls, queue>>
    <2>1. Members(s.client_queue) =
            IF message.what = "destroy" /\ handler' # "stopping"
              THEN Members(slots[message.kind].client_queue) \ {message.handle}
              ELSE Members(slots[message.kind].client_queue)
      BY <1>1, <1>4
    <2> QED  BY <1>1, <1>2, <1>4, <2>1, HandlerWaits
  <1>5. CASE reply("success", NULL)
    <2>1. Members(s.client_queue) = Answers(Members(slots[message.kind].client_queue), message, "success")
      BY <1>1 DEF Answers
    <2> QED  BY <1>1, <1>2, <1>5, <2>1, MessageAnswered
  <1> QED  BY <1>3, <1>4, <1>5

\* the handler thread waits, and the clients are who they were
LEMMA WaitsInPlace ==
  ASSUME Protocol, queue # <<>>, UNCHANGED <<scenario, handles, calls, queue, slots>>,
         handler' \in {"starting", "stopping", "giving_up"}, message.kind \in Visualizers,
         message.what \in {"destroy", "setEnabled"}, handler' = "stopping" => handler = "idle",
         message.what = "destroy" /\ handler' # "stopping" => handler \in {"starting", "giving_up"}
  PROVE  Protocol'
  <1> DEFINE s == slots[message.kind]
  <1>1. message.kind \in Kinds
    BY HeadOfQueue
  <1>2. s \in SlotRecords /\ SlotSound(s) /\ slots' = [slots EXCEPT ![message.kind] = s]
    BY <1>1 DEF Protocol, TypeOK, SlotsInv
  <1>3. Members(s.client_queue) =
          IF message.what = "destroy" /\ handler' # "stopping"
            THEN Members(slots[message.kind].client_queue) \ {message.handle}
            ELSE Members(slots[message.kind].client_queue)
    BY GoneAlready
  <1> HIDE DEF s
  <1> QED  BY <1>2, <1>3, HandlerWaits

LEMMA DetachOrUninstallStep ==
  ASSUME Protocol, handleExtDetachOrUninstall
  PROVE  Protocol'
  <1> DEFINE m == message
             last == slots[m.kind].num_attached <= 1
             stops == m.kind \in Visualizers /\ (last \/ stopsAtDetach(m))
  <1>1. /\ handler = "idle" /\ queue # <<>> /\ m.what = "destroy" /\ UNCHANGED <<scenario, handles>>
        /\ IF stops /\ available(m.kind)
             THEN stopPeriodicCapturing(m.kind) /\ slots' = slots
             ELSE IF last THEN finishUninstall(m) ELSE finishDetach(m, stops)
    BY DEF handleExtDetachOrUninstall, contextVars
  <1>2. CASE stops /\ available(m.kind)
    <2>1. UNCHANGED <<calls, queue, slots>> /\ handler' = "stopping"
      BY <1>1, <1>2 DEF stopPeriodicCapturing
    <2> QED  BY <1>1, <1>2, <2>1, WaitsInPlace
  <1>3. CASE ~(stops /\ available(m.kind)) /\ last
    BY <1>1, <1>3, FinishUninstall
  <1>4. CASE ~(stops /\ available(m.kind)) /\ ~last
    <2>1. finishDetach(m, stops) /\ (stops => m.kind \in Visualizers)
      BY <1>1, <1>4
    <2> HIDE DEF stops
    <2> QED  BY <1>1, <1>4, <2>1, FinishDetach
  <1> QED  BY <1>2, <1>3, <1>4

LEMMA ExtensionMessageStep ==
  ASSUME Protocol, handleExtensionMessage
  PROVE  Protocol'
  <1> DEFINE m == message
  <1>1. handler = "idle" /\ queue # <<>> /\ m.what \notin {"create", "destroy"} /\ UNCHANGED <<scenario, handles>>
    BY DEF handleExtensionMessage, contextVars
  <1>2. slots[m.kind].installed
    <2>1. 1 \in 1 .. Len(queue) /\ message = calls[queue[1]]
      BY <1>1 DEF Protocol, TypeOK, message
    <2> QED  BY <1>1, <2>1, SenderAttached
  <1>3. CASE m.kind \in Visualizers
    <2>1. handleVisualizerMessage(m)
      BY <1>2, <1>3 DEF handleExtensionMessage
    <2>2. StartsThread(m) \/ StopsThread(m) => m.what = "setEnabled"
      BY DEF StartsThread, StopsThread, V!StartsThread, V!StopsThread, HV!StartsThread, HV!StopsThread,
             HV!V!StartsThread, HV!V!StopsThread
    <2>3. CASE StartsThread(m)
      <3>1. UNCHANGED <<calls, queue, slots>> /\ handler' = "starting"
        BY <2>1, <2>3 DEF handleVisualizerMessage, startPeriodicCapturing, moduleVars
      <3> QED  BY <1>1, <1>3, <2>2, <2>3, <3>1, WaitsInPlace
    <2>4. CASE ~StartsThread(m) /\ StopsThread(m) /\ available(m.kind)
      <3>1. UNCHANGED <<calls, queue, slots>> /\ handler' = "stopping"
        BY <2>1, <2>4 DEF handleVisualizerMessage, stopPeriodicCapturing, moduleVars
      <3> QED  BY <1>1, <1>3, <2>2, <2>4, <3>1, WaitsInPlace
    <2>5. CASE ~StartsThread(m) /\ ~(StopsThread(m) /\ available(m.kind))
      <3>1. slots' = slots /\ \E result, value : reply(result, value)
        BY <2>1, <2>5 DEF handleVisualizerMessage
      <3> QED  BY <1>1, <3>1, AnsweredInPlace
    <2> QED  BY <2>3, <2>4, <2>5
  <1>4. CASE m.kind \notin Visualizers
    <2>1. slots' = slots /\ \E result, value : reply(result, value)
      BY <1>2, <1>4 DEF handleExtensionMessage, handleEffectMessage
    <2> QED  BY <1>1, <2>1, AnsweredInPlace
  <1> QED  BY <1>3, <1>4

LEMMA WaitStep ==
  ASSUME Protocol, Wait \/ StartTimesOut
  PROVE  Protocol'
  <1>0. HandlerInv
    BY DEF Protocol
  <1>1. CASE CaptureStopped
    <2>1. handler = "stopping" /\ queue # <<>> /\ message.kind \in Visualizers /\ message.what \in {"destroy", "setEnabled"}
          /\ UNCHANGED <<scenario, handles>>
      BY <1>0, <1>1 DEF CaptureStopped, HandlerInv, contextVars
    <2>2. CASE message.what = "setEnabled"
      <3>1. reply("success", NULL) /\ slots' = slots
        BY <1>1, <2>2 DEF CaptureStopped, finishSetEnabled
      <3> QED  BY <2>1, <2>2, <3>1, AnsweredInPlace
    <2>3. CASE message.what = "destroy" /\ slots[message.kind].num_attached <= 1
      <3>1. finishUninstall(message)
        BY <1>1, <2>3 DEF CaptureStopped
      <3> QED  BY <2>1, <2>3, <3>1, FinishUninstall
    <2>4. CASE message.what = "destroy" /\ ~(slots[message.kind].num_attached <= 1)
      <3>1. finishDetach(message, TRUE)
        BY <1>1, <2>4 DEF CaptureStopped
      <3> QED  BY <2>1, <2>4, <3>1, FinishDetach
    <2> QED  BY <2>1, <2>2, <2>3, <2>4
  <1>2. CASE CaptureStarted \/ StartGivenUp
    <2>1. /\ handler \in {"starting", "giving_up"} /\ queue # <<>> /\ message.what \in {"destroy", "setEnabled"}
          /\ UNCHANGED <<scenario, handles>>
      BY <1>0, <1>2 DEF CaptureStarted, StartGivenUp, HandlerInv, contextVars
    <2>2. slots' = slots /\ \E result, value : reply(result, value)
      BY <1>2 DEF CaptureStarted, finishSetEnabled, StartGivenUp, moduleVars
    <2> QED  BY <2>1, <2>2, AnsweredInPlace, GoneAlready
  <1>3. CASE StartTimesOut
    <2>1. handler = "starting" /\ queue # <<>> /\ message.kind \in Visualizers /\ message.what \in {"destroy", "setEnabled"}
          /\ UNCHANGED <<scenario, handles, calls, queue, slots>> /\ handler' = "giving_up"
      BY <1>0, <1>3 DEF StartTimesOut, HandlerInv, contextVars, moduleVars
    <2> QED  BY <2>1, WaitsInPlace
  <1> QED  BY <1>1, <1>2, <1>3 DEF Wait

LEMMA NextProtocol == Protocol /\ [Next]_vars => Protocol'
  <1> SUFFICES ASSUME Protocol, [Next]_vars PROVE Protocol'
    OBVIOUS
  <1>1. CASE \E t \in Threads, h \in Handles :
               \/ \E kind \in scenario : Create(t, h, kind)
               \/ Destroy(t, h)
               \/ handles[h] # NULL /\ \E what \in Asked(scenario, handles[h].kind) :
                    \E arg \in Legal(handles[h].kind, what) \cup Illegal(handles[h].kind, what) : Use(t, h, what, arg)
    BY <1>1, CreateStep, DestroyStep, UseStep
  <1>2. CASE \E t \in Threads : Return(t)
    BY <1>2, CallReturns
  <1>3. CASE Handle
    BY <1>3, AttachOrInstallStep, DetachOrUninstallStep, ExtensionMessageStep DEF Handle
  <1>4. CASE Wait \/ StartTimesOut
    BY <1>4, WaitStep
  <1>5. CASE \E kind \in Visualizers :
               ThreadStarts(kind) \/ ListenerCalled(kind) \/ ListenerReturns(kind) \/ ThreadExits(kind)
    <2>1. UNCHANGED <<scenario, handles, calls, queue, handler, slots>>
      BY <1>5 DEF ThreadStarts, ListenerCalled, ListenerReturns, ThreadExits, contextVars, moduleVars
    <2> QED  BY <2>1, Unmoved
  <1>6. CASE \/ \E next_is_started \in BOOLEAN : raiseOnBeforeAudioSinkStateChanged(next_is_started)
             \/ \E effect \in PR!AuxEffects \cup {"none"} : selectActiveAuxEffect(effect)
             \/ \E level \in 0 .. 2 : setAuxEffectSendLevel(level)
    <2>1. UNCHANGED <<scenario, handles, calls, queue, handler, slots>>
      BY <1>6 DEF raiseOnBeforeAudioSinkStateChanged, selectActiveAuxEffect, setAuxEffectSendLevel, contextVars
    <2> QED  BY <2>1, Unmoved
  <1>7. CASE UNCHANGED vars
    <2>1. UNCHANGED <<scenario, handles, calls, queue, handler, slots>>
      BY <1>7 DEF vars, contextVars, moduleVars
    <2> QED  BY <2>1, Unmoved
  <1> QED  BY <1>1, <1>2, <1>3, <1>4, <1>5, <1>6, <1>7 DEF Next

LEMMA ProtocolHolds == Spec => []Protocol
  BY InitProtocol, NextProtocol, PTL DEF Spec

LEMMA ProtocolFindsModule == Protocol => MessagesFindTheirModule
  <1> SUFFICES ASSUME Protocol, NEW i \in DOMAIN queue, calls[queue[i]].what # "create", i > 1 \/ handler = "idle"
               PROVE  LET c == calls[queue[i]]
                      IN slots[c.kind].installed /\ Contains(slots[c.kind].client_queue, c.handle)
    BY DEF MessagesFindTheirModule
  <1> DEFINE c == calls[queue[i]]
             q == slots[c.kind].client_queue
  <1>1. i \in 1 .. Len(queue)
    BY DEF Protocol, TypeOK
  <1>2. c.kind \in Kinds /\ c.handle \in Members(q) /\ slots[c.kind] \in SlotRecords /\ slots[c.kind].installed
    BY <1>1, SenderAttached
  <1>3. DOMAIN q = 1 .. Len(q)
    BY <1>2 DEF SlotRecords
  <1> HIDE DEF c, q
  <1>4. Contains(q, c.handle)
    BY <1>2, <1>3 DEF Contains, Members
  <1> QED  BY <1>2, <1>4 DEF c, q

(* Whatever handles are made and released while a message is queued, its
   module is still in the slot when it is handled, and every message but the
   constructor's comes from a handle that is in the module's queue of clients
   (handleExtensionMessages() of OpenSLMediaPlayerInternalContextImpl.cpp
   calls the instance in the slot, and answers nobody when there is none). *)
THEOREM MessagesFindTheirModuleHolds == Spec => []MessagesFindTheirModule
  BY ProtocolHolds, ProtocolFindsModule, PTL

-----------------------------------------------------------------------------
(* What the effects have set.  A message to one changes what that one has  *)
(* set, and for a reverb the sends.                                        *)

Fields == Effects \cup {"aux"}
\* every effect has a flag, and the sends are levels; the rest of a setting can be anything
Setting(f, v) ==
  /\ f \in {"bassboost", "virtualizer"}   => v \in [enabled : BOOLEAN, strength : {v.strength}]
  /\ f \in {"equalizer", "hqequalizer"} => v \in [enabled : BOOLEAN, preset : {v.preset}, levels : {v.levels}]
  /\ f = "preamp"       => v \in [enabled : BOOLEAN, level : {v.level}, mixer_level : {v.mixer_level}]
  /\ f = "presetreverb" => v \in [enabled : BOOLEAN, preset : {v.preset}]
  /\ f = "envreverb"    => v \in [enabled : BOOLEAN, settings : {v.settings}]
  /\ f = "aux"          => v \in [active : PR!AuxEffects \cup {"none"}, enabled : [PR!AuxEffects -> BOOLEAN],
                                  level : Nat, millibel : Nat, sends : [PR!AuxEffects -> Nat]]
SystemOK(s) == s = [f \in Fields |-> s[f]] /\ \A f \in Fields : Setting(f, s[f])
Touched(s, fields, r) == SystemOK(r) /\ \A f \in Fields \ fields : r[f] = s[f]

LEMMA FieldNames ==
  /\ Fields = {"bassboost", "virtualizer", "equalizer", "hqequalizer", "preamp", "presetreverb", "envreverb", "aux"}
  /\ PR!AuxEffects = {"envreverb", "presetreverb"} /\ ER!AuxEffects = PR!AuxEffects
  BY DEF Fields, Effects, PR!AuxEffects, ER!AuxEffects

LEMMA FieldSet ==
  ASSUME NEW s, SystemOK(s), NEW f \in Fields, NEW v, Setting(f, v)
  PROVE  LET r == [s EXCEPT ![f] = v] IN Touched(s, {f}, r) /\ r[f] = v
  <1> DEFINE r == [s EXCEPT ![f] = v]
  <1>1. r = [g \in Fields |-> r[g]] /\ r[f] = v /\ \A g \in Fields \ {f} : r[g] = s[g]
    BY DEF SystemOK
  <1> HIDE DEF r
  <1> QED  BY <1>1 DEF Touched, SystemOK, r

\* what a message to an effect comes to
Answer(s, f, answer) == answer.system = s \/ \E v : Setting(f, v) /\ answer.system = [s EXCEPT ![f] = v]

LEMMA AnswerTouches ==
  ASSUME NEW s, SystemOK(s), NEW f \in Fields, NEW answer, Answer(s, f, answer)
  PROVE  Touched(s, {f}, answer.system)
  <1>1. CASE answer.system = s
    BY <1>1 DEF Touched
  <1>2. CASE answer.system # s
    <2>1. PICK v : Setting(f, v) /\ answer.system = [s EXCEPT ![f] = v]
      BY <1>2 DEF Answer
    <2> QED  BY <2>1, FieldSet
  <1> QED  BY <1>1, <1>2

LEMMA BassBoostTouches ==
  ASSUME NEW s, SystemOK(s)
  PROVE  /\ \A what \in Methods("bassboost") : \A arg, active :
              (what = "setEnabled" => arg \in BOOLEAN)
                => Touched(s, {"bassboost"}, BB!processMessage(s, what, arg, active).system)
         /\ Touched(s, {"bassboost"}, BB!onInstall(s))
         /\ Touched(s, {"bassboost"}, BB!onUninstall(s)) /\ ~BB!onUninstall(s).bassboost.enabled
  <1> DEFINE f == "bassboost"
             old == s.bassboost
  <1>1. f \in Fields /\ Setting(f, old)
    BY FieldNames DEF SystemOK
  <1>2. old \in [enabled : BOOLEAN, strength : {old.strength}]
    BY <1>1 DEF Setting
  <1> HIDE DEF old
  <1>3. ASSUME NEW what \in Methods(f), NEW arg, NEW active, what = "setEnabled" => arg \in BOOLEAN
        PROVE  Touched(s, {f}, BB!processMessage(s, what, arg, active).system)
    <2> DEFINE answer == BB!processMessage(s, what, arg, active)
               v == IF what = "setEnabled" THEN [old EXCEPT !.enabled = arg] ELSE [old EXCEPT !.strength = arg]
    <2>1. Setting(f, v)
      BY <1>2, <1>3 DEF Setting
    <2>2. answer.system = s \/ answer.system = [s EXCEPT !.bassboost = v]
      BY DEF BB!processMessage, BB!Success, BB!Answered, BB!IfActive, BB!change, BB!SetProperties, old
    <2> HIDE DEF answer, v
    <2>3. Answer(s, f, answer)
      BY <2>1, <2>2 DEF Answer
    <2> QED  BY <1>1, <2>3, AnswerTouches DEF answer
  <1>4. Touched(s, {f}, BB!onInstall(s))
    <2> DEFINE v == [enabled |-> FALSE, strength |-> BB!DEFAULT_STRENGTH]
    <2>1. Setting(f, v) /\ BB!onInstall(s) = [s EXCEPT !.bassboost = v]
      BY DEF Setting, BB!onInstall
    <2> HIDE DEF v
    <2> QED  BY <1>1, <2>1, FieldSet
  <1>5. Touched(s, {f}, BB!onUninstall(s)) /\ ~BB!onUninstall(s).bassboost.enabled
    <2> DEFINE v == [[old EXCEPT !.enabled = FALSE] EXCEPT !.strength = BB!MakeDefaultSettings]
    <2>1. Setting(f, v) /\ ~v.enabled
      BY <1>2 DEF Setting
    <2>2. BB!onUninstall(s) = [s EXCEPT !.bassboost = v]
      <3> DEFINE a == [old EXCEPT !.enabled = FALSE]
                 r == [s EXCEPT !.bassboost = a]
      <3>1. r = [s EXCEPT !.bassboost.enabled = FALSE]
        BY DEF old
      <3>2. s = [g \in Fields |-> s[g]]
        BY DEF SystemOK
      <3>3. r.bassboost = a
        BY <1>1, <3>2
      <3>4. BB!onUninstall(s) = [r EXCEPT !.bassboost.strength = BB!MakeDefaultSettings]
        BY <3>1 DEF BB!onUninstall, BB!SetProperties
      <3>5. BB!onUninstall(s) = [r EXCEPT !.bassboost = v]
        BY <3>3, <3>4
      <3> HIDE DEF v, a
      <3> QED  BY <1>1, <3>2, <3>5
    <2> HIDE DEF v
    <2> QED  BY <1>1, <2>1, <2>2, FieldSet
  <1> QED  BY <1>3, <1>4, <1>5

LEMMA VirtualizerTouches ==
  ASSUME NEW s, SystemOK(s)
  PROVE  /\ \A what \in Methods("virtualizer") : \A arg, active :
              (what = "setEnabled" => arg \in BOOLEAN)
                => Touched(s, {"virtualizer"}, VI!processMessage(s, what, arg, active).system)
         /\ Touched(s, {"virtualizer"}, VI!onInstall(s))
         /\ Touched(s, {"virtualizer"}, VI!onUninstall(s)) /\ ~VI!onUninstall(s).virtualizer.enabled
  <1> DEFINE f == "virtualizer"
             old == s.virtualizer
  <1>1. f \in Fields /\ Setting(f, old)
    BY FieldNames DEF SystemOK
  <1>2. old \in [enabled : BOOLEAN, strength : {old.strength}]
    BY <1>1 DEF Setting
  <1> HIDE DEF old
  <1>3. ASSUME NEW what \in Methods(f), NEW arg, NEW active, what = "setEnabled" => arg \in BOOLEAN
        PROVE  Touched(s, {f}, VI!processMessage(s, what, arg, active).system)
    <2> DEFINE answer == VI!processMessage(s, what, arg, active)
               v == IF what = "setEnabled" THEN [old EXCEPT !.enabled = arg] ELSE [old EXCEPT !.strength = arg]
    <2>1. Setting(f, v)
      BY <1>2, <1>3 DEF Setting
    <2>2. answer.system = s \/ answer.system = [s EXCEPT !.virtualizer = v]
      BY DEF VI!processMessage, VI!Success, VI!Answered, VI!IfActive, VI!change, VI!SetProperties, old
    <2> HIDE DEF answer, v
    <2>3. Answer(s, f, answer)
      BY <2>1, <2>2 DEF Answer
    <2> QED  BY <1>1, <2>3, AnswerTouches DEF answer
  <1>4. Touched(s, {f}, VI!onInstall(s))
    <2> DEFINE v == [enabled |-> FALSE, strength |-> VI!DEFAULT_STRENGTH]
    <2>1. Setting(f, v) /\ VI!onInstall(s) = [s EXCEPT !.virtualizer = v]
      BY DEF Setting, VI!onInstall
    <2> HIDE DEF v
    <2> QED  BY <1>1, <2>1, FieldSet
  <1>5. Touched(s, {f}, VI!onUninstall(s)) /\ ~VI!onUninstall(s).virtualizer.enabled
    <2> DEFINE v == [[old EXCEPT !.enabled = FALSE] EXCEPT !.strength = VI!MakeDefaultSettings]
    <2>1. Setting(f, v) /\ ~v.enabled
      BY <1>2 DEF Setting
    <2>2. VI!onUninstall(s) = [s EXCEPT !.virtualizer = v]
      <3> DEFINE a == [old EXCEPT !.enabled = FALSE]
                 r == [s EXCEPT !.virtualizer = a]
      <3>1. r = [s EXCEPT !.virtualizer.enabled = FALSE]
        BY DEF old
      <3>2. s = [g \in Fields |-> s[g]]
        BY DEF SystemOK
      <3>3. r.virtualizer = a
        BY <1>1, <3>2
      <3>4. VI!onUninstall(s) = [r EXCEPT !.virtualizer.strength = VI!MakeDefaultSettings]
        BY <3>1 DEF VI!onUninstall, VI!SetProperties
      <3>5. VI!onUninstall(s) = [r EXCEPT !.virtualizer = v]
        BY <3>3, <3>4
      <3> HIDE DEF v, a
      <3> QED  BY <1>1, <3>2, <3>5
    <2> HIDE DEF v
    <2> QED  BY <1>1, <2>1, <2>2, FieldSet
  <1> QED  BY <1>3, <1>4, <1>5

\* a setting of one of the two equalizers
EqRecord(v) == v \in [enabled : BOOLEAN, preset : {v.preset}, levels : {v.levels}]

LEMMA EqEnabledSet ==
  ASSUME NEW eq, EqRecord(eq), NEW enabled \in BOOLEAN
  PROVE  LET r == [eq EXCEPT !.enabled = enabled] IN EqRecord(r) /\ r.enabled = enabled
  BY DEF EqRecord
LEMMA EqPresetSet ==
  ASSUME NEW eq, EqRecord(eq), NEW preset
  PROVE  LET r == [eq EXCEPT !.preset = preset] IN EqRecord(r) /\ r.enabled = eq.enabled /\ r.levels = eq.levels
  BY DEF EqRecord
LEMMA EqLevelsSet ==
  ASSUME NEW eq, EqRecord(eq), NEW levels
  PROVE  LET r == [eq EXCEPT !.levels = levels] IN EqRecord(r) /\ r.enabled = eq.enabled
  BY DEF EqRecord
LEMMA EqSettingsSet ==
  ASSUME NEW eq, EqRecord(eq), NEW preset, NEW levels
  PROVE  LET r == [eq EXCEPT !.preset = preset, !.levels = levels] IN EqRecord(r) /\ r.enabled = eq.enabled
  BY DEF EqRecord

LEMMA EqualizerKeepsFlag ==
  ASSUME NEW eq, EqRecord(eq), NEW settings, NEW preset, NEW band, NEW level
  PROVE  /\ LET r == EQ!UsePreset(eq, preset) IN EqRecord(r) /\ r.enabled = eq.enabled
         /\ LET r == EQ!SetBandLevel(eq, band, level) IN EqRecord(r) /\ r.enabled = eq.enabled
         /\ LET r == EQ!SetProperties(eq, settings) IN EqRecord(r) /\ r.enabled = eq.enabled
         /\ LET r == EQ!workAroundRefreshSettings(eq) IN EqRecord(r) /\ r.enabled = eq.enabled
  <1>1. ASSUME NEW p
        PROVE  LET r == EQ!UsePreset(eq, p) IN EqRecord(r) /\ r.enabled = eq.enabled
    BY EqSettingsSet DEF EQ!UsePreset
  <1>2. LET r == EQ!SetBandLevel(eq, band, level) IN EqRecord(r) /\ r.enabled = eq.enabled
    <2> DEFINE l == [eq.levels EXCEPT ![band] = level]
               r == [eq EXCEPT !.preset = EQ!UNDEFINED, !.levels = l]
    <2>1. EqRecord(r) /\ r.enabled = eq.enabled
      <3> HIDE DEF l
      <3> QED  BY EqSettingsSet
    <2>2. EQ!SetBandLevel(eq, band, level) = r
      BY DEF EQ!SetBandLevel, EqRecord
    <2> HIDE DEF r
    <2> QED  BY <2>1, <2>2
  <1>3. ASSUME NEW s
        PROVE  LET r == EQ!SetProperties(eq, s) IN EqRecord(r) /\ r.enabled = eq.enabled
    <2>1. CASE s.curPreset # EQ!UNDEFINED
      BY <1>1, <2>1 DEF EQ!SetProperties
    <2>2. CASE s.curPreset = EQ!UNDEFINED
      BY <2>2, EqSettingsSet DEF EQ!SetProperties
    <2> QED  BY <2>1, <2>2
  <1>4. LET r == EQ!workAroundRefreshSettings(eq) IN EqRecord(r) /\ r.enabled = eq.enabled
    BY <1>3 DEF EQ!workAroundRefreshSettings
  <1> QED  BY <1>1, <1>2, <1>3, <1>4

LEMMA EqualizerTouches ==
  ASSUME NEW s, SystemOK(s)
  PROVE  /\ \A what \in Methods("equalizer") : \A arg, active :
              (what = "setEnabled" => arg \in BOOLEAN)
                => Touched(s, {"equalizer"}, EQ!processMessage(s, what, arg, active).system)
         /\ Touched(s, {"equalizer"}, EQ!onInstall(s))
         /\ Touched(s, {"equalizer"}, EQ!onUninstall(s)) /\ ~EQ!onUninstall(s).equalizer.enabled
         /\ \A started : LET r == EQ!onBeforeAudioSinkStateChanged(s, started)
                         IN Touched(s, {"equalizer"}, r) /\ r.equalizer.enabled = s.equalizer.enabled
  <1> DEFINE f == "equalizer"
             old == s.equalizer
             off == [old EXCEPT !.enabled = FALSE]
  <1>1. f \in Fields /\ Setting(f, old)
    BY FieldNames DEF SystemOK
  <1>2. EqRecord(old)
    BY <1>1 DEF Setting, EqRecord
  <1>3. \A v : EqRecord(v) => Setting(f, v)
    BY DEF Setting, EqRecord
  <1> HIDE DEF old
  <1>4. EqRecord(off) /\ off.enabled = FALSE
    BY <1>2, EqEnabledSet
  <1>5. ASSUME NEW what \in Methods(f), NEW arg, NEW active, what = "setEnabled" => arg \in BOOLEAN
        PROVE  Touched(s, {f}, EQ!processMessage(s, what, arg, active).system)
    <2> DEFINE answer == EQ!processMessage(s, what, arg, active)
               v == EQ!change(old, what, arg)
    <2>1. what \in EQ!Getters \/ what \in EQ!Setters
      BY DEF Methods
    <2>2. CASE what \in EQ!Getters
      BY <2>2, <1>1 DEF EQ!processMessage, EQ!Success, EQ!Answered, Touched
    <2>3. CASE what \in EQ!Setters
      <3>1. EqRecord(v)
        <4>1. CASE what = "setEnabled"
          <5> DEFINE w == IF arg THEN EQ!workAroundRefreshSettings(old) ELSE old
          <5>1. v = [w EXCEPT !.enabled = arg]
            BY <4>1 DEF EQ!change
          <5>2. EqRecord(w)
            BY <1>2, EqualizerKeepsFlag
          <5> HIDE DEF v, w
          <5> QED  BY <1>5, <4>1, <5>1, <5>2, EqEnabledSet
        <4>2. CASE what = "setBandLevel"
          <5>1. v = EQ!SetBandLevel(old, arg.band, arg.level)
            BY <4>2 DEF EQ!change
          <5> QED  BY <1>2, <5>1, EqualizerKeepsFlag
        <4>3. CASE what = "usePreset"
          <5>1. v = EQ!UsePreset(old, arg)
            BY <4>3 DEF EQ!change
          <5> QED  BY <1>2, <5>1, EqualizerKeepsFlag
        <4>4. CASE what = "setProperties"
          <5>1. v = EQ!SetProperties(old, arg)
            BY <4>4 DEF EQ!change
          <5> QED  BY <1>2, <5>1, EqualizerKeepsFlag
        <4> QED  BY <2>3, <4>1, <4>2, <4>3, <4>4 DEF EQ!Setters
      <3> HIDE DEF v
      <3>2. answer.system = s \/ answer.system = [s EXCEPT !.equalizer = v]
        BY DEF EQ!processMessage, EQ!Success, EQ!Answered, EQ!IfActive, old, v
      <3> HIDE DEF answer
      <3>3. Answer(s, f, answer)
        BY <1>3, <3>1, <3>2 DEF Answer
      <3> QED  BY <1>1, <3>3, AnswerTouches DEF answer
    <2> QED  BY <2>1, <2>2, <2>3
  <1>6. Touched(s, {f}, EQ!onInstall(s))
    <2> DEFINE v == EQ!getEqProperties(EQ!SetProperties(off, EQ!MakeDefaultSettings))
    <2>1. EqRecord(EQ!SetProperties(off, EQ!MakeDefaultSettings))
      BY <1>4, EqualizerKeepsFlag
    <2>2. EqRecord(v)
      BY <2>1, EqualizerKeepsFlag DEF EQ!getEqProperties
    <2>3. EQ!onInstall(s) = [s EXCEPT !.equalizer = v]
      BY DEF EQ!onInstall, old
    <2> HIDE DEF v
    <2> QED  BY <1>1, <1>3, <2>2, <2>3, FieldSet
  <1>7. Touched(s, {f}, EQ!onUninstall(s)) /\ ~EQ!onUninstall(s).equalizer.enabled
    <2> DEFINE v == EQ!SetProperties(off, EQ!MakeDefaultSettings)
    <2>1. EqRecord(v) /\ v.enabled = FALSE
      <3> HIDE DEF off
      <3> QED  BY <1>4, EqualizerKeepsFlag
    <2>2. EQ!onUninstall(s) = [s EXCEPT !.equalizer = v]
      BY DEF EQ!onUninstall, old
    <2> HIDE DEF v
    <2> QED  BY <1>1, <1>3, <2>1, <2>2, FieldSet
  <1>8. ASSUME NEW started
        PROVE  LET r == EQ!onBeforeAudioSinkStateChanged(s, started)
               IN Touched(s, {f}, r) /\ r.equalizer.enabled = s.equalizer.enabled
    <2>1. CASE started
      <3> DEFINE v == EQ!workAroundRefreshSettings(old)
      <3>1. EqRecord(v) /\ v.enabled = old.enabled
        BY <1>2, EqualizerKeepsFlag
      <3>2. EQ!onBeforeAudioSinkStateChanged(s, started) = [s EXCEPT !.equalizer = v]
        BY <2>1 DEF EQ!onBeforeAudioSinkStateChanged, old
      <3> HIDE DEF v
      <3> QED  BY <1>1, <1>3, <3>1, <3>2, FieldSet DEF old
    <2>2. CASE ~started
      BY <2>2 DEF EQ!onBeforeAudioSinkStateChanged, Touched
    <2> QED  BY <2>1, <2>2
  <1> QED  BY <1>5, <1>6, <1>7, <1>8

LEMMA HQEqualizerTouches ==
  ASSUME NEW s, SystemOK(s)
  PROVE  /\ \A what \in Methods("hqequalizer") : \A arg, active :
              (what = "setEnabled" => arg \in BOOLEAN)
                => Touched(s, {"hqequalizer"}, HQ!processMessage(s, what, arg, active).system)
         /\ Touched(s, {"hqequalizer"}, HQ!onInstall(s))
         /\ Touched(s, {"hqequalizer"}, HQ!onUninstall(s)) /\ ~HQ!onUninstall(s).hqequalizer.enabled
  <1> DEFINE f == "hqequalizer"
             old == s.hqequalizer
  <1>1. f \in Fields /\ Setting(f, old)
    BY FieldNames DEF SystemOK
  <1>2. EqRecord(old)
    BY <1>1 DEF Setting, EqRecord
  <1>3. \A v : EqRecord(v) => Setting(f, v)
    BY DEF Setting, EqRecord
  <1> HIDE DEF old
  <1>4. ASSUME NEW preset, NEW levels
        PROVE  EqRecord([HQ!setAllBandLevel(old, levels) EXCEPT !.preset = preset])
    <2> DEFINE r == [old EXCEPT !.levels = levels]
    <2>1. EqRecord(r)
      BY <1>2, EqLevelsSet
    <2> HIDE DEF r
    <2>2. EqRecord([r EXCEPT !.preset = preset])
      BY <2>1, EqPresetSet
    <2> QED  BY <2>2 DEF HQ!setAllBandLevel, r
  <1>5. ASSUME NEW what \in Methods(f), NEW arg, NEW active, what = "setEnabled" => arg \in BOOLEAN
        PROVE  Touched(s, {f}, HQ!processMessage(s, what, arg, active).system)
    <2> DEFINE answer == HQ!processMessage(s, what, arg, active)
               v == HQ!change(old, what, arg)
    <2>1. what \in HQ!Getters \/ what \in HQ!Setters
      BY DEF Methods
    <2>2. CASE what \in HQ!Getters
      BY <2>2, <1>1 DEF HQ!processMessage, HQ!Success, HQ!Answered, Touched
    <2>3. CASE what \in HQ!Setters
      <3>1. EqRecord(v)
        <4>1. CASE what = "setEnabled"
          <5>1. v = [old EXCEPT !.enabled = arg]
            BY <4>1 DEF HQ!change, HQ!setEnabled
          <5> HIDE DEF v
          <5> QED  BY <1>2, <1>5, <4>1, <5>1, EqEnabledSet
        <4>2. CASE what = "setBandLevel"
          <5> DEFINE l == [old.levels EXCEPT ![arg.band] = arg.level]
                     r == [old EXCEPT !.levels = l]
          <5>1. EqRecord(r) /\ r = HQ!setBandLevel(old, arg.band, arg.level)
            <6>1. EqRecord(r)
              <7> HIDE DEF l
              <7> QED  BY <1>2, EqLevelsSet
            <6> QED  BY <1>2, <6>1 DEF HQ!setBandLevel, EqRecord
          <5>2. v = old \/ v = [r EXCEPT !.preset = HQ!UNDEFINED]
            BY <4>2, <5>1 DEF HQ!change, HQ!changeBandLevel
          <5> HIDE DEF r, v
          <5> QED  BY <1>2, <5>1, <5>2, EqPresetSet
        <4>3. CASE what = "usePreset"
          <5>1. v = HQ!usePreset(old, arg)
            BY <4>3 DEF HQ!change
          <5> HIDE DEF v
          <5> QED  BY <1>4, <5>1 DEF HQ!usePreset
        <4>4. CASE what = "setProperties"
          <5>1. v = HQ!setProperties(old, arg)
            BY <4>4 DEF HQ!change
          <5> HIDE DEF v
          <5> QED  BY <1>4, <5>1 DEF HQ!setProperties, HQ!usePreset
        <4> QED  BY <2>3, <4>1, <4>2, <4>3, <4>4 DEF HQ!Setters
      <3> HIDE DEF v
      <3>2. answer.system = s \/ answer.system = [s EXCEPT !.hqequalizer = v]
        BY DEF HQ!processMessage, HQ!Success, HQ!Answered, HQ!IfActive, old, v
      <3> HIDE DEF answer
      <3>3. Answer(s, f, answer)
        BY <1>3, <3>1, <3>2 DEF Answer
      <3> QED  BY <1>1, <3>3, AnswerTouches DEF answer
    <2> QED  BY <2>1, <2>2, <2>3
  <1>6. Touched(s, {f}, HQ!onInstall(s))
    <2> DEFINE v == [HQ!setAllBandLevel(old, HQ!PresetData(0)) EXCEPT !.preset = 0]
    <2>1. EqRecord(v)
      BY <1>4
    <2>2. HQ!onInstall(s) = [s EXCEPT !.hqequalizer = v]
      BY DEF HQ!onInstall, old
    <2> HIDE DEF v
    <2> QED  BY <1>1, <1>3, <2>1, <2>2, FieldSet
  <1>7. Touched(s, {f}, HQ!onUninstall(s)) /\ ~HQ!onUninstall(s).hqequalizer.enabled
    <2> DEFINE v == [old EXCEPT !.enabled = FALSE]
    <2>1. EqRecord(v) /\ v.enabled = FALSE
      BY <1>2, EqEnabledSet
    <2>2. HQ!onUninstall(s) = [s EXCEPT !.hqequalizer = v]
      BY DEF HQ!onUninstall, HQ!setEnabled, old
    <2> HIDE DEF v
    <2> QED  BY <1>1, <1>3, <2>1, <2>2, FieldSet
  <1> QED  BY <1>5, <1>6, <1>7

LEMMA PreAmpTouches ==
  ASSUME NEW s, SystemOK(s)
  PROVE  /\ \A what \in Methods("preamp") : \A arg, active :
              (what = "setEnabled" => arg \in BOOLEAN)
                => Touched(s, {"preamp"}, PA!processMessage(s, what, arg, active).system)
         /\ Touched(s, {"preamp"}, PA!onInstall(s))
         /\ Touched(s, {"preamp"}, PA!onUninstall(s)) /\ PA!onUninstall(s).preamp.mixer_level = PA!UNITY
  <1> DEFINE f == "preamp"
             old == s.preamp
             Record(v) == v \in [enabled : BOOLEAN, level : {v.level}, mixer_level : {v.mixer_level}]
             reset == PA!resetToDefaultState(old)
  <1>1. f \in Fields /\ Setting(f, old)
    BY FieldNames DEF SystemOK
  <1>2. Record(old)
    BY <1>1 DEF Setting
  <1>3. \A v : Record(v) => Setting(f, v)
    BY DEF Setting
  <1> HIDE DEF old
  <1>4. ASSUME NEW v, Record(v), NEW enabled \in BOOLEAN
        PROVE  Record(PA!setEnabled(v, enabled)) /\ PA!setEnabled(v, enabled).enabled = enabled
    <2> DEFINE r == [v EXCEPT !.enabled = enabled]
    <2>1. Record(r) /\ r.enabled = enabled
      BY <1>4
    <2> HIDE DEF r
    <2>2. Record(PA!apply(r)) /\ PA!apply(r).enabled = enabled
      BY <2>1 DEF PA!apply
    <2> QED  BY <2>2 DEF PA!setEnabled, r
  <1>5. ASSUME NEW v, Record(v), NEW level
        PROVE  /\ Record(PA!setLevel(v, level))
               /\ ~v.enabled => PA!setLevel(v, level).mixer_level = PA!UNITY
    <2> DEFINE r == [v EXCEPT !.level = level]
    <2>1. Record(r) /\ r.enabled = v.enabled
      BY <1>5
    <2> HIDE DEF r
    <2>2. Record(PA!apply(r)) /\ (~v.enabled => PA!apply(r).mixer_level = PA!UNITY)
      BY <2>1 DEF PA!apply
    <2> QED  BY <2>2 DEF PA!setLevel, r
  <1>6. Record(reset) /\ reset.mixer_level = PA!UNITY
    <2> DEFINE w == PA!setEnabled(old, FALSE)
    <2>1. Record(w) /\ w.enabled = FALSE
      BY <1>2, <1>4
    <2>2. reset = PA!setLevel(w, PA!UNITY)
      BY DEF PA!resetToDefaultState
    <2> HIDE DEF w, reset, Record
    <2> QED  BY <1>5, <2>1, <2>2
  <1>7. ASSUME NEW what \in Methods(f), NEW arg, NEW active, what = "setEnabled" => arg \in BOOLEAN
        PROVE  Touched(s, {f}, PA!processMessage(s, what, arg, active).system)
    <2> DEFINE answer == PA!processMessage(s, what, arg, active)
               v == PA!change(old, what, arg)
    <2>1. Record(v)
      <3> HIDE DEF Record
      <3> QED  BY <1>2, <1>4, <1>5, <1>7 DEF PA!change
    <2> HIDE DEF v
    <2>2. answer.system = s \/ answer.system = [s EXCEPT !.preamp = v]
      BY DEF PA!processMessage, PA!Success, PA!Answered, PA!IfActive, old, v
    <2> HIDE DEF answer, Record
    <2>3. Answer(s, f, answer)
      BY <1>3, <2>1, <2>2 DEF Answer
    <2> QED  BY <1>1, <2>3, AnswerTouches DEF answer
  <1>8. PA!onInstall(s) = [s EXCEPT !.preamp = reset] /\ PA!onUninstall(s) = [s EXCEPT !.preamp = reset]
    BY DEF PA!onInstall, PA!onUninstall, old
  <1> HIDE DEF reset, Record
  <1>9. Touched(s, {f}, PA!onInstall(s)) /\ Touched(s, {f}, PA!onUninstall(s))
        /\ PA!onUninstall(s).preamp.mixer_level = PA!UNITY
    BY <1>1, <1>3, <1>6, <1>8, FieldSet
  <1> QED  BY <1>7, <1>9

-----------------------------------------------------------------------------
(* The sends to the two reverbs.                                           *)

\* what is sent is the level that was set
LevelRight(aux) == aux.millibel = PR!linearToMillibel(aux.level)
SendsRight(aux) ==
  /\ LevelRight(aux)
  /\ \A k \in PR!AuxEffects : aux.sends[k] = IF k = aux.active /\ aux.enabled[k] THEN aux.millibel ELSE PR!MIN
\* the sink knows which reverb is there and enabled
Follows(s, there) ==
  SendsRight(s.aux) /\ \A k \in PR!AuxEffects : s.aux.enabled[k] <=> there[k] /\ s[k].enabled

AuxRecord(a) ==
  a \in [active : PR!AuxEffects \cup {"none"}, enabled : [PR!AuxEffects -> BOOLEAN], level : Nat, millibel : Nat,
         sends : [PR!AuxEffects -> Nat]]

LEMMA AuxApplied ==
  ASSUME NEW a, AuxRecord(a), LevelRight(a)
  PROVE  LET r == PR!applyActiveAuxEffectSettings(a)
         IN AuxRecord(r) /\ SendsRight(r) /\ r.active = a.active /\ r.enabled = a.enabled /\ r.level = a.level /\ r.millibel = a.millibel
  <1> DEFINE sent(k) == PR!send(a, k, a.enabled[k], a.millibel).sends[k]
             sends == [k \in PR!AuxEffects |-> IF k = a.active THEN sent(k) ELSE PR!MIN]
             r == [a EXCEPT !.sends = sends]
  <1>1. a.millibel \in Nat /\ PR!MIN = 0 /\ a.sends \in [PR!AuxEffects -> Nat]
    BY DEF AuxRecord, PR!MIN
  <1>2. ASSUME NEW k \in PR!AuxEffects PROVE sent(k) = IF a.enabled[k] THEN a.millibel ELSE 0
    <2> DEFINE x == IF a.enabled[k] /\ a.millibel > PR!MIN THEN a.millibel ELSE PR!MIN
    <2>1. PR!send(a, k, a.enabled[k], a.millibel) = [a EXCEPT !.sends[k] = x]
      BY DEF PR!send
    <2> HIDE DEF x
    <2>2. [a EXCEPT !.sends[k] = x] = [a EXCEPT !.sends = [a.sends EXCEPT ![k] = x]]
      BY DEF AuxRecord
    <2>3. [a EXCEPT !.sends[k] = x].sends[k] = x
      BY <1>1, <2>2 DEF AuxRecord
    <2>4. x = IF a.enabled[k] THEN a.millibel ELSE 0
      BY <1>1 DEF x
    <2> QED  BY <2>1, <2>3, <2>4
  <1> HIDE DEF sent
  <1>3. sends \in [PR!AuxEffects -> Nat]
    BY <1>1, <1>2
  <1>4. \A k \in PR!AuxEffects : sends[k] = IF k = a.active /\ a.enabled[k] THEN a.millibel ELSE PR!MIN
    BY <1>1, <1>2
  <1> HIDE DEF sends
  <1>5. AuxRecord(r) /\ r.sends = sends /\ r.active = a.active /\ r.enabled = a.enabled /\ r.level = a.level /\ r.millibel = a.millibel
    BY <1>3 DEF AuxRecord
  <1>6. PR!applyActiveAuxEffectSettings(a) = r
    BY DEF PR!applyActiveAuxEffectSettings, sent, sends
  <1> HIDE DEF r
  <1>7. SendsRight(r)
    BY <1>4, <1>5 DEF SendsRight, LevelRight
  <1> QED  BY <1>5, <1>6, <1>7

LEMMA AuxSelected ==
  ASSUME NEW a, AuxRecord(a), SendsRight(a), NEW effect \in PR!AuxEffects \cup {"none"}
  PROVE  LET r == PR!onSelectActiveAuxEffect(a, effect) IN AuxRecord(r) /\ SendsRight(r) /\ r.enabled = a.enabled
  <1> DEFINE b == [a EXCEPT !.active = effect]
  <1>1. AuxRecord(b) /\ b.enabled = a.enabled /\ LevelRight(b)
    BY DEF AuxRecord, SendsRight, LevelRight
  <1>2. PR!onSelectActiveAuxEffect(a, effect) = IF a.active = effect THEN a ELSE PR!applyActiveAuxEffectSettings(b)
    BY DEF PR!onSelectActiveAuxEffect
  <1> HIDE DEF b
  <1> QED  BY <1>1, <1>2, AuxApplied

LEMMA AuxLevelSet ==
  ASSUME NEW a, AuxRecord(a), SendsRight(a), NEW level \in Nat
  PROVE  LET r == PR!onSetAuxEffectSendLevel(a, level) IN AuxRecord(r) /\ SendsRight(r) /\ r.enabled = a.enabled
  <1> DEFINE m == PR!linearToMillibel(level)
             b == [a EXCEPT !.level = level, !.millibel = m]
  <1>1. m \in Nat
    BY DEF PR!linearToMillibel, PR!MIN
  <1>2. PR!onSetAuxEffectSendLevel(a, level) = IF a.level = level THEN a ELSE PR!applyActiveAuxEffectSettings(b)
    BY DEF PR!onSetAuxEffectSendLevel
  <1>3. b.millibel = PR!linearToMillibel(b.level) /\ b.enabled = a.enabled
    BY DEF AuxRecord
  <1> HIDE DEF m
  <1>4. AuxRecord(b)
    BY <1>1 DEF AuxRecord
  <1> HIDE DEF b
  <1> QED  BY <1>2, <1>3, <1>4, AuxApplied DEF LevelRight

LEMMA AuxEnabledSet ==
  ASSUME NEW a, AuxRecord(a), SendsRight(a), NEW k \in PR!AuxEffects, NEW enabled \in BOOLEAN
  PROVE  LET r == PR!onSetAuxEffectEnabled(a, k, enabled)
         IN AuxRecord(r) /\ SendsRight(r) /\ r.enabled = [a.enabled EXCEPT ![k] = enabled]
  <1> DEFINE e == [a.enabled EXCEPT ![k] = enabled]
             b == [a EXCEPT !.enabled = e]
  <1>1. e \in [PR!AuxEffects -> BOOLEAN] /\ (a.enabled[k] = enabled => e = a.enabled)
    BY DEF AuxRecord
  <1>2. PR!onSetAuxEffectEnabled(a, k, enabled) =
          IF a.enabled[k] = enabled THEN a ELSE PR!applyActiveAuxEffectSettings(b)
    BY DEF PR!onSetAuxEffectEnabled, AuxRecord
  <1> HIDE DEF e
  <1>3. AuxRecord(b) /\ b.enabled = e /\ LevelRight(b)
    BY <1>1 DEF AuxRecord, SendsRight, LevelRight
  <1> HIDE DEF b
  <1>4. CASE a.enabled[k] = enabled
    BY <1>1, <1>2, <1>4 DEF e
  <1>5. CASE a.enabled[k] # enabled
    BY <1>2, <1>3, <1>5, AuxApplied DEF e
  <1> QED  BY <1>4, <1>5

LEMMA SameSends ==
  \A a, k, enabled : ER!onSetAuxEffectEnabled(a, k, enabled) = PR!onSetAuxEffectEnabled(a, k, enabled)
  BY DEF ER!onSetAuxEffectEnabled, PR!onSetAuxEffectEnabled, ER!applyActiveAuxEffectSettings,
         PR!applyActiveAuxEffectSettings, ER!send, PR!send, ER!AuxEffects, PR!AuxEffects, ER!MIN, PR!MIN

LEMMA AuxField ==
  ASSUME NEW s, SystemOK(s)
  PROVE  "aux" \in Fields /\ AuxRecord(s.aux) /\ \A a : Setting("aux", a) <=> AuxRecord(a)
  <1>1. "aux" \in Fields
    BY FieldNames
  <1>2. Setting("aux", s.aux)
    BY <1>1 DEF SystemOK
  <1>3. \A a : Setting("aux", a) <=> AuxRecord(a)
    BY DEF Setting, AuxRecord
  <1> QED  BY <1>1, <1>2, <1>3

\* a reverb is switched, and its setting changed
LEMMA ReverbSwitched ==
  ASSUME NEW s, SystemOK(s), NEW there, Follows(s, there), NEW k \in PR!AuxEffects, NEW v, Setting(k, v),
         NEW enabled \in BOOLEAN, NEW then,
         enabled <=> then[k] /\ v.enabled, \A j \in PR!AuxEffects \ {k} : then[j] <=> there[j]
  PROVE  LET r == [s EXCEPT ![k] = v, !.aux = PR!onSetAuxEffectEnabled(s.aux, k, enabled)]
         IN Touched(s, {k, "aux"}, r) /\ Follows(r, then)
  <1> DEFINE a == PR!onSetAuxEffectEnabled(s.aux, k, enabled)
             r == [s EXCEPT ![k] = v, !.aux = a]
  <1>1. AuxRecord(s.aux) /\ SendsRight(s.aux) /\ "aux" \in Fields /\ k \in Fields /\ k # "aux"
    BY AuxField, FieldNames DEF Follows
  <1>2. AuxRecord(a) /\ SendsRight(a) /\ a.enabled = [s.aux.enabled EXCEPT ![k] = enabled]
    BY <1>1, AuxEnabledSet
  <1>3. Setting("aux", a)
    BY <1>2, AuxField
  <1> HIDE DEF a
  <1>4. r = [g \in Fields |-> r[g]] /\ r[k] = v /\ r.aux = a /\ \A g \in Fields \ {k, "aux"} : r[g] = s[g]
    BY <1>1 DEF SystemOK
  <1> HIDE DEF r
  <1>5. Touched(s, {k, "aux"}, r)
    BY <1>3, <1>4 DEF Touched, SystemOK
  <1>6. ASSUME NEW j \in PR!AuxEffects PROVE r.aux.enabled[j] <=> then[j] /\ r[j].enabled
    <2>1. s.aux.enabled \in [PR!AuxEffects -> BOOLEAN]
      BY <1>1 DEF AuxRecord
    <2>2. CASE j = k
      BY <1>2, <1>4, <2>1, <2>2
    <2>3. CASE j # k
      <3>1. r.aux.enabled[j] = s.aux.enabled[j] /\ r[j] = s[j]
        BY <1>2, <1>4, <2>1, <2>3, FieldNames
      <3> QED  BY <2>3, <3>1 DEF Follows
    <2> QED  BY <2>2, <2>3
  <1>7. Follows(r, then)
    BY <1>2, <1>4, <1>6 DEF Follows
  <1> QED  BY <1>5, <1>7 DEF r, a

\* a reverb's setting is changed, and nothing is sent for it or all stays as it was
LEMMA ReverbChanged ==
  ASSUME NEW s, SystemOK(s), NEW there, Follows(s, there), NEW k \in PR!AuxEffects, NEW v, Setting(k, v), NEW then,
         (there[k] /\ s[k].enabled) <=> (then[k] /\ v.enabled), \A j \in PR!AuxEffects \ {k} : then[j] <=> there[j]
  PROVE  LET r == [s EXCEPT ![k] = v] IN Touched(s, {k, "aux"}, r) /\ Follows(r, then)
  <1> DEFINE r == [s EXCEPT ![k] = v]
  <1>1. k \in Fields /\ k # "aux" /\ "aux" \in Fields
    BY FieldNames
  <1>2. Touched(s, {k}, r) /\ r[k] = v
    BY <1>1, FieldSet
  <1> HIDE DEF r
  <1>3. r.aux = s.aux /\ \A j \in PR!AuxEffects \ {k} : r[j] = s[j]
    BY <1>1, <1>2, FieldNames DEF Touched
  <1>4. Follows(r, then)
    BY <1>2, <1>3 DEF Follows
  <1> QED  BY <1>2, <1>4 DEF Touched, r

LEMMA PresetReverbTouches ==
  ASSUME NEW s, SystemOK(s), NEW there, Follows(s, there)
  PROVE  LET f == "presetreverb"
         IN /\ there[f] => \A what \in Methods(f) : \A arg, active :
                             (what = "setEnabled" => arg \in BOOLEAN)
                               => LET r == PR!processMessage(s, what, arg, active).system
                                  IN Touched(s, {f, "aux"}, r) /\ Follows(r, there)
            /\ \A then : (\A j \in PR!AuxEffects \ {f} : then[j] <=> there[j]) =>
                 /\ ~there[f] => Touched(s, {f, "aux"}, PR!onInstall(s)) /\ Follows(PR!onInstall(s), then)
                 /\ ~then[f] => Touched(s, {f, "aux"}, PR!onUninstall(s)) /\ Follows(PR!onUninstall(s), then)
  <1> DEFINE f == "presetreverb"
             old == s.presetreverb
             Record(v) == v \in [enabled : BOOLEAN, preset : {v.preset}]
  <1>1. f \in Fields /\ f \in PR!AuxEffects /\ Setting(f, old) /\ s = [g \in Fields |-> s[g]] /\ "aux" \in Fields
    BY FieldNames DEF SystemOK
  <1>2. Record(old)
    BY <1>1 DEF Setting
  <1>3. \A v : Record(v) => Setting(f, v)
    BY DEF Setting
  <1> HIDE DEF old
  <1>4. ASSUME there[f], NEW what \in Methods(f), NEW arg, NEW active, what = "setEnabled" => arg \in BOOLEAN
        PROVE  LET r == PR!processMessage(s, what, arg, active).system
               IN Touched(s, {f, "aux"}, r) /\ Follows(r, there)
    <2> DEFINE r == PR!processMessage(s, what, arg, active).system
               c == PR!change(s, what, arg)
    <2>1. r = s \/ r = c
      BY DEF PR!processMessage, PR!Success, PR!Answered, PR!IfActive
    <2> HIDE DEF r
    <2>2. Touched(s, {f, "aux"}, s) /\ Follows(s, there)
      BY DEF Touched
    <2>3. Touched(s, {f, "aux"}, c) /\ Follows(c, there)
      <3>1. CASE what = "setEnabled"
        <4> DEFINE v == [old EXCEPT !.enabled = arg]
                   w == [s EXCEPT !.presetreverb = v]
                   a == PR!onSetAuxEffectEnabled(s.aux, f, arg)
                   x == [s EXCEPT ![f] = v, !.aux = a]
        <4>1. Record(v) /\ v.enabled = arg /\ arg \in BOOLEAN
          BY <1>2, <1>4, <3>1
        <4>2. w = [s EXCEPT !.presetreverb.enabled = arg]
          BY DEF old
        <4> HIDE DEF v, Record
        <4>3. w.aux = s.aux
          BY <1>1
        <4>4. PR!onEnabledChanged(w, arg) = [w EXCEPT !.aux = a]
          BY <4>3 DEF PR!onEnabledChanged
        <4> HIDE DEF a
        <4>5. [w EXCEPT !.aux = a] = x
          BY <1>1
        <4>6. c = s \/ c = x
          BY <3>1, <4>2, <4>4, <4>5 DEF PR!change, PR!setEnabled
        <4>7. Touched(s, {f, "aux"}, x) /\ Follows(x, there)
          BY <1>1, <1>3, <1>4, <4>1, ReverbSwitched DEF a
        <4> HIDE DEF c, x
        <4> QED  BY <2>2, <4>6, <4>7
      <3>2. CASE what # "setEnabled"
        <4> DEFINE v == [old EXCEPT !.preset = arg]
        <4>1. Record(v) /\ v.enabled = old.enabled
          BY <1>2
        <4>2. c = [s EXCEPT !.presetreverb = v]
          BY <3>2 DEF PR!change, PR!SetProperties, old
        <4> HIDE DEF v, c, Record
        <4> QED  BY <1>1, <1>3, <4>1, <4>2, ReverbChanged DEF old
      <3> QED  BY <3>1, <3>2
    <2> HIDE DEF c
    <2> QED  BY <2>1, <2>2, <2>3 DEF r
  <1>5. ASSUME NEW then, \A j \in PR!AuxEffects \ {f} : then[j] <=> there[j], ~there[f]
        PROVE  Touched(s, {f, "aux"}, PR!onInstall(s)) /\ Follows(PR!onInstall(s), then)
    <2> DEFINE v == [enabled |-> FALSE, preset |-> PR!MakeDefaultSettings]
    <2>1. Record(v) /\ v.enabled = FALSE /\ PR!onInstall(s) = [s EXCEPT !.presetreverb = v]
      BY DEF PR!onInstall
    <2> HIDE DEF v, Record
    <2> QED  BY <1>1, <1>3, <1>5, <2>1, ReverbChanged
  <1>6. ASSUME NEW then, \A j \in PR!AuxEffects \ {f} : then[j] <=> there[j], ~then[f]
        PROVE  Touched(s, {f, "aux"}, PR!onUninstall(s)) /\ Follows(PR!onUninstall(s), then)
    <2> DEFINE v == [old EXCEPT !.preset = PR!MakeDefaultSettings]
               a == PR!onSetAuxEffectEnabled(s.aux, f, FALSE)
               w == [s EXCEPT !.aux = a]
               x == [s EXCEPT ![f] = v, !.aux = a]
    <2>1. Record(v)
      BY <1>2
    <2>2. PR!onUninstall(s) = [w EXCEPT !.presetreverb.preset = PR!MakeDefaultSettings]
      BY DEF PR!onUninstall, PR!SetProperties, PR!onEnabledChanged
    <2> HIDE DEF a
    <2>3. w.presetreverb = old
      BY <1>1 DEF old
    <2>4. PR!onUninstall(s) = [w EXCEPT !.presetreverb = v]
      BY <2>2, <2>3
    <2> HIDE DEF v, Record
    <2>5. [w EXCEPT !.presetreverb = v] = x
      BY <1>1
    <2>6. Touched(s, {f, "aux"}, x) /\ Follows(x, then)
      BY <1>1, <1>3, <1>6, <2>1, ReverbSwitched DEF a
    <2> HIDE DEF x, w
    <2> QED  BY <2>4, <2>5, <2>6
  <1> QED  BY <1>4, <1>5, <1>6

LEMMA EnvReverbTouches ==
  ASSUME NEW s, SystemOK(s), NEW there, Follows(s, there)
  PROVE  LET f == "envreverb"
         IN /\ there[f] => \A what \in Methods(f) : \A arg, active :
                             (what = "setEnabled" => arg \in BOOLEAN)
                               => LET r == ER!processMessage(s, what, arg, active).system
                                  IN Touched(s, {f, "aux"}, r) /\ Follows(r, there)
            /\ \A then : (\A j \in PR!AuxEffects \ {f} : then[j] <=> there[j]) =>
                 /\ ~there[f] => Touched(s, {f, "aux"}, ER!onInstall(s)) /\ Follows(ER!onInstall(s), then)
                 /\ ~then[f] => Touched(s, {f, "aux"}, ER!onUninstall(s)) /\ Follows(ER!onUninstall(s), then)
  <1> DEFINE f == "envreverb"
             old == s.envreverb
             Record(v) == v \in [enabled : BOOLEAN, settings : {v.settings}]
  <1>1. f \in Fields /\ f \in PR!AuxEffects /\ Setting(f, old) /\ s = [g \in Fields |-> s[g]] /\ "aux" \in Fields
    BY FieldNames DEF SystemOK
  <1>2. Record(old)
    BY <1>1 DEF Setting
  <1>3. \A v : Record(v) => Setting(f, v)
    BY DEF Setting
  <1> HIDE DEF old
  <1>4. ASSUME there[f], NEW what \in Methods(f), NEW arg, NEW active, what = "setEnabled" => arg \in BOOLEAN
        PROVE  LET r == ER!processMessage(s, what, arg, active).system
               IN Touched(s, {f, "aux"}, r) /\ Follows(r, there)
    <2> DEFINE r == ER!processMessage(s, what, arg, active).system
               c == ER!change(s, what, arg)
    <2>1. r = s \/ r = c
      BY <1>4 DEF Methods, ER!StatusGetters, ER!processMessage, ER!Success, ER!Answered, ER!IfActive
    <2> HIDE DEF r
    <2>2. Touched(s, {f, "aux"}, s) /\ Follows(s, there)
      BY DEF Touched
    <2>3. Touched(s, {f, "aux"}, r) /\ Follows(r, there)
      <3>1. CASE what = "setEnabled"
        <4> DEFINE v == [old EXCEPT !.enabled = arg]
                   w == [s EXCEPT !.envreverb = v]
                   a == PR!onSetAuxEffectEnabled(s.aux, f, arg)
                   x == [s EXCEPT ![f] = v, !.aux = a]
        <4>1. Record(v) /\ v.enabled = arg /\ arg \in BOOLEAN
          BY <1>2, <1>4, <3>1
        <4>2. w = [s EXCEPT !.envreverb.enabled = arg]
          BY DEF old
        <4> HIDE DEF v, Record
        <4>3. w.aux = s.aux
          BY <1>1
        <4>4. ER!onEnabledChanged(w, arg) = [w EXCEPT !.aux = a]
          BY <4>3, SameSends DEF ER!onEnabledChanged
        <4> HIDE DEF a
        <4>5. [w EXCEPT !.aux = a] = x
          BY <1>1
        <4>6. c = s \/ c = x
          BY <3>1, <4>2, <4>4, <4>5 DEF ER!change, ER!setEnabled
        <4>7. Touched(s, {f, "aux"}, x) /\ Follows(x, there)
          BY <1>1, <1>3, <1>4, <4>1, ReverbSwitched DEF a
        <4> HIDE DEF c, x
        <4> QED  BY <2>1, <2>2, <4>6, <4>7
      <3>2. CASE what \in {"setParameter", "setProperties"}
        <4> DEFINE l == IF what = "setParameter" THEN [old.settings EXCEPT ![arg.parameter] = arg.value] ELSE arg
                   v == [old EXCEPT !.settings = l]
        <4>1. c = [s EXCEPT !.envreverb = v]
          <5>1. CASE what = "setParameter"
            <6>1. c = [s EXCEPT !.envreverb.settings[arg.parameter] = arg.value]
              BY <5>1 DEF ER!change, ER!setParameter
            <6> QED  BY <1>2, <5>1, <6>1 DEF old
          <5>2. CASE what = "setProperties"
            BY <5>2 DEF ER!change, old
          <5> QED  BY <3>2, <5>1, <5>2
        <4> HIDE DEF l
        <4>2. Record(v) /\ v.enabled = old.enabled
          BY <1>2
        <4> HIDE DEF v, c, Record
        <4>3. Touched(s, {f, "aux"}, c) /\ Follows(c, there)
          BY <1>1, <1>3, <4>1, <4>2, ReverbChanged DEF old
        <4> QED  BY <2>1, <2>2, <4>3
      <3>3. CASE what \notin {"setEnabled", "setParameter", "setProperties"}
        <4>1. r = s
          BY <1>4, <3>3 DEF Methods, ER!StatusGetters, ER!processMessage, ER!Success, ER!Answered, r
        <4> QED  BY <2>2, <4>1
      <3> QED  BY <2>1, <2>2, <3>1, <3>2, <3>3
    <2> HIDE DEF c
    <2> QED  BY <2>3 DEF r
  <1>5. ASSUME NEW then, \A j \in PR!AuxEffects \ {f} : then[j] <=> there[j], ~there[f]
        PROVE  Touched(s, {f, "aux"}, ER!onInstall(s)) /\ Follows(ER!onInstall(s), then)
    <2> DEFINE v == [enabled |-> FALSE, settings |-> ER!MakeDefaultSettings]
    <2>1. Record(v) /\ v.enabled = FALSE /\ ER!onInstall(s) = [s EXCEPT !.envreverb = v]
      BY DEF ER!onInstall
    <2> HIDE DEF v, Record
    <2> QED  BY <1>1, <1>3, <1>5, <2>1, ReverbChanged
  <1>6. ASSUME NEW then, \A j \in PR!AuxEffects \ {f} : then[j] <=> there[j], ~then[f]
        PROVE  Touched(s, {f, "aux"}, ER!onUninstall(s)) /\ Follows(ER!onUninstall(s), then)
    <2> DEFINE v == [old EXCEPT !.settings = ER!MakeDefaultSettings]
               a == PR!onSetAuxEffectEnabled(s.aux, f, FALSE)
               w == [s EXCEPT !.aux = a]
               x == [s EXCEPT ![f] = v, !.aux = a]
    <2>1. Record(v)
      BY <1>2
    <2>2. ER!onUninstall(s) = [w EXCEPT !.envreverb.settings = ER!MakeDefaultSettings]
      BY SameSends DEF ER!onUninstall, ER!onEnabledChanged
    <2> HIDE DEF a
    <2>3. w.envreverb = old
      BY <1>1 DEF old
    <2>4. ER!onUninstall(s) = [w EXCEPT !.envreverb = v]
      BY <2>2, <2>3
    <2> HIDE DEF v, Record
    <2>5. [w EXCEPT !.envreverb = v] = x
      BY <1>1
    <2>6. Touched(s, {f, "aux"}, x) /\ Follows(x, then)
      BY <1>1, <1>3, <1>6, <2>1, ReverbSwitched DEF a
    <2> HIDE DEF x, w
    <2> QED  BY <2>4, <2>5, <2>6
  <1> QED  BY <1>4, <1>5, <1>6

-----------------------------------------------------------------------------
(* What the modules of the effects do, whichever it is.                    *)

SinkEffects == {"bassboost", "virtualizer", "equalizer", "hqequalizer"}
\* an effect does nothing to what is heard; the reverbs do it with their sends
Off(s, k) ==
  /\ k \in SinkEffects => ~s[k].enabled
  /\ k = "preamp" => s.preamp.mixer_level = PA!UNITY

LEMMA NotReverb ==
  ASSUME NEW s, NEW r, NEW f \in {"bassboost", "virtualizer", "equalizer", "hqequalizer", "preamp"},
         Touched(s, {f}, r), NEW there, Follows(s, there), NEW then, \A j \in PR!AuxEffects \ {f} : then[j] <=> there[j]
  PROVE  Touched(s, {f, "aux"}, r) /\ Follows(r, then)
  <1>1. "aux" \in Fields \ {f} /\ \A j \in PR!AuxEffects : j \in Fields \ {f} /\ j # f
    BY FieldNames
  <1>2. r.aux = s.aux /\ \A j \in PR!AuxEffects : r[j] = s[j] /\ (then[j] <=> there[j])
    BY <1>1 DEF Touched
  <1> QED  BY <1>2 DEF Touched, Follows

LEMMA EffectNames ==
  ASSUME NEW k \in Effects
  PROVE  k \in {"bassboost", "virtualizer", "equalizer", "hqequalizer", "preamp"} \/ k = "presetreverb" \/ k = "envreverb"
  BY DEF Effects

\* a message to an effect
LEMMA MessageTouches ==
  ASSUME SystemOK(system), NEW there, Follows(system, there), NEW m, m.kind \in Effects,
         m.what \in Methods(m.kind), m.what = "setEnabled" => m.arg \in BOOLEAN, m.kind \in PR!AuxEffects => there[m.kind]
  PROVE  LET r == processMessage(m).system
         IN Touched(system, {m.kind, "aux"}, r) /\ Follows(r, there)
  <1> DEFINE r == processMessage(m).system
             active == is_active(m)
             f == m.kind
  <1>1. CASE f \in {"bassboost", "virtualizer", "equalizer", "hqequalizer", "preamp"}
    <2>1. Touched(system, {f}, r)
      <3> HIDE DEF active
      <3>1. CASE f = "bassboost"
        <4>1. r = BB!processMessage(system, m.what, m.arg, active).system
          BY <3>1 DEF processMessage, active
        <4> QED  BY <3>1, <4>1, BassBoostTouches
      <3>2. CASE f = "virtualizer"
        <4>1. r = VI!processMessage(system, m.what, m.arg, active).system
          BY <3>2 DEF processMessage, active
        <4> QED  BY <3>2, <4>1, VirtualizerTouches
      <3>3. CASE f = "equalizer"
        <4>1. r = EQ!processMessage(system, m.what, m.arg, active).system
          BY <3>3 DEF processMessage, active
        <4> QED  BY <3>3, <4>1, EqualizerTouches
      <3>4. CASE f = "hqequalizer"
        <4>1. r = HQ!processMessage(system, m.what, m.arg, active).system
          BY <3>4 DEF processMessage, active
        <4> QED  BY <3>4, <4>1, HQEqualizerTouches
      <3>5. CASE f = "preamp"
        <4>1. r = PA!processMessage(system, m.what, m.arg, active).system
          BY <3>5 DEF processMessage, active
        <4> QED  BY <3>5, <4>1, PreAmpTouches
      <3> QED  BY <1>1, <3>1, <3>2, <3>3, <3>4, <3>5
    <2> HIDE DEF r
    <2>2. Touched(system, {f, "aux"}, r) /\ Follows(r, there)
      BY <1>1, <2>1, NotReverb
    <2> QED  BY <2>1, <2>2 DEF r
  <1>2. CASE f = "presetreverb"
    <2> HIDE DEF active
    <2>1. r = PR!processMessage(system, m.what, m.arg, active).system
      BY <1>2 DEF processMessage, active
    <2>2. there[f]
      BY <1>2, FieldNames
    <2> QED  BY <1>2, <2>1, <2>2, PresetReverbTouches
  <1>3. CASE f = "envreverb"
    <2> HIDE DEF active
    <2>1. r = ER!processMessage(system, m.what, m.arg, active).system
      BY <1>3 DEF processMessage, active
    <2>2. there[f]
      BY <1>3, FieldNames
    <2> QED  BY <1>3, <2>1, <2>2, EnvReverbTouches
  <1> QED  BY <1>1, <1>2, <1>3, EffectNames

\* a module is installed, or uninstalled
LEMMA InstallTouches ==
  ASSUME SystemOK(system), NEW there, Follows(system, there), NEW kind \in Kinds, ~there[kind],
         NEW then, \A j \in PR!AuxEffects \ {kind} : then[j] <=> there[j]
  PROVE  LET r == onInstall(kind) IN Touched(system, {kind, "aux"}, r) /\ Follows(r, then)
  <1> DEFINE r == onInstall(kind)
  <1>1. CASE kind \in {"bassboost", "virtualizer", "equalizer", "hqequalizer", "preamp"}
    <2>1. Touched(system, {kind}, r)
      BY <1>1, BassBoostTouches, VirtualizerTouches, EqualizerTouches, HQEqualizerTouches, PreAmpTouches DEF onInstall
    <2> HIDE DEF r
    <2>2. Touched(system, {kind, "aux"}, r) /\ Follows(r, then)
      BY <1>1, <2>1, NotReverb
    <2> QED  BY <2>1, <2>2 DEF r
  <1>2. CASE kind = "presetreverb"
    <2>1. r = PR!onInstall(system)
      BY <1>2 DEF onInstall
    <2> QED  BY <1>2, <2>1, PresetReverbTouches
  <1>3. CASE kind = "envreverb"
    <2>1. r = ER!onInstall(system)
      BY <1>3 DEF onInstall
    <2> QED  BY <1>3, <2>1, EnvReverbTouches
  <1>4. CASE kind \in Visualizers
    <2>1. r = system /\ \A j \in PR!AuxEffects : j # kind
      BY <1>4, FieldNames DEF onInstall, Visualizers
    <2> QED  BY <2>1 DEF Touched, Follows
  <1> QED  BY <1>1, <1>2, <1>3, <1>4, EffectNames DEF Kinds

LEMMA UninstallTouches ==
  ASSUME SystemOK(system), NEW there, Follows(system, there), NEW kind \in Kinds,
         NEW then, ~then[kind], \A j \in PR!AuxEffects \ {kind} : then[j] <=> there[j]
  PROVE  LET r == onUninstall(kind) IN Touched(system, {kind, "aux"}, r) /\ Follows(r, then) /\ Off(r, kind)
  <1> DEFINE r == onUninstall(kind)
  <1>1. CASE kind \in {"bassboost", "virtualizer", "equalizer", "hqequalizer", "preamp"}
    <2>1. Touched(system, {kind}, r) /\ Off(r, kind)
      <3>1. CASE kind = "bassboost"
        BY <3>1, BassBoostTouches DEF onUninstall, Off
      <3>2. CASE kind = "virtualizer"
        BY <3>2, VirtualizerTouches DEF onUninstall, Off
      <3>3. CASE kind = "equalizer"
        BY <3>3, EqualizerTouches DEF onUninstall, Off
      <3>4. CASE kind = "hqequalizer"
        BY <3>4, HQEqualizerTouches DEF onUninstall, Off
      <3>5. CASE kind = "preamp"
        BY <3>5, PreAmpTouches DEF onUninstall, Off, SinkEffects
      <3> QED  BY <1>1, <3>1, <3>2, <3>3, <3>4, <3>5
    <2> HIDE DEF r
    <2>2. Touched(system, {kind, "aux"}, r) /\ Follows(r, then)
      BY <1>1, <2>1, NotReverb
    <2> QED  BY <2>1, <2>2 DEF r
  <1>2. CASE kind = "presetreverb"
    <2>1. r = PR!onUninstall(system) /\ Off(r, kind)
      BY <1>2 DEF onUninstall, Off, SinkEffects
    <2> QED  BY <1>2, <2>1, PresetReverbTouches
  <1>3. CASE kind = "envreverb"
    <2>1. r = ER!onUninstall(system) /\ Off(r, kind)
      BY <1>3 DEF onUninstall, Off, SinkEffects
    <2> QED  BY <1>3, <2>1, EnvReverbTouches
  <1>4. CASE kind \in Visualizers
    <2>1. r = system /\ Off(r, kind) /\ \A j \in PR!AuxEffects : j # kind
      BY <1>4, FieldNames DEF onUninstall, Visualizers, Off, SinkEffects
    <2> QED  BY <2>1 DEF Touched, Follows
  <1> QED  BY <1>1, <1>2, <1>3, <1>4, EffectNames DEF Kinds

-----------------------------------------------------------------------------
(* What is not installed is off.                                           *)

Installed == [k \in Kinds |-> slots[k].installed]
SystemInv == SystemOK(system) /\ Follows(system, Installed) /\ \A k \in Kinds : ~slots[k].installed => Off(system, k)
CaptureInv ==
  /\ capture = [k \in Visualizers |-> capture[k]]
  /\ \A k \in Visualizers :
       /\ capture[k] \in [state : {capture[k].state}, client : {capture[k].client}, stop_req : {capture[k].stop_req}]
       /\ ~slots[k].installed => capture[k].state = "none" /\ k \notin acap
Quiet == SystemInv /\ CaptureInv

\* what has no slot of its own keeps its setting
LEMMA OffStays ==
  ASSUME NEW s, NEW k \in Kinds, NEW r, Touched(s, {k, "aux"}, r), NEW j \in Kinds, j # k, Off(s, j)
  PROVE  Off(r, j)
  <1>1. CASE j \in Effects
    <2>1. j \in Fields \ {k, "aux"}
      BY <1>1 DEF Fields, Effects
    <2>2. r[j] = s[j]
      BY <2>1 DEF Touched
    <2>3. j = "preamp" => r.preamp = s.preamp
      BY <2>2
    <2> QED  BY <2>2, <2>3 DEF Off
  <1>2. CASE j \in Visualizers
    BY <1>2 DEF Off, Visualizers, SinkEffects
  <1> QED  BY <1>1, <1>2 DEF Kinds

\* what leaves the effects as they are
LEMMA EffectsStay ==
  ASSUME SystemInv, system' = system, \A k \in Kinds : slots'[k].installed = slots[k].installed
  PROVE  SystemInv'
  <1>1. Installed' = Installed
    BY DEF Installed
  <1>2. SystemOK(system') /\ Follows(system', Installed')
    BY <1>1 DEF SystemInv
  <1>3. \A k \in Kinds : ~slots'[k].installed => Off(system', k)
    BY DEF SystemInv
  <1> QED  BY <1>2, <1>3 DEF SystemInv

\* what changes one of them
LEMMA EffectChanges ==
  ASSUME SystemInv, NEW k \in Kinds, Touched(system, {k, "aux"}, system'), Follows(system', Installed'),
         ~slots'[k].installed => Off(system', k),
         \A j \in Kinds \ {k} : slots'[j].installed = slots[j].installed
  PROVE  SystemInv'
  <1>1. SystemOK(system')
    BY DEF Touched
  <1>2. ASSUME NEW j \in Kinds, ~slots'[j].installed PROVE Off(system', j)
    <2>1. CASE j = k
      BY <1>2, <2>1
    <2>2. CASE j # k
      <3>1. Off(system, j)
        BY <1>2, <2>2 DEF SystemInv
      <3> QED  BY <2>2, <3>1, OffStays
    <2> QED  BY <2>1, <2>2
  <1>3. SystemOK(system)' /\ Follows(system, Installed)'
    BY <1>1
  <1> QED  BY <1>2, <1>3 DEF SystemInv

-----------------------------------------------------------------------------
ThreadRecord(v) == v \in [state : {v.state}, client : {v.client}, stop_req : {v.stop_req}]

\* the thread of one visualizer, and what the mixer captures for it
LEMMA CaptureChanges ==
  ASSUME CaptureInv, NEW kind \in Kinds,
         capture' = capture \/ (kind \in Visualizers /\ \E v : ThreadRecord(v) /\ capture' = [capture EXCEPT ![kind] = v]),
         \A k \in Visualizers \ {kind} : (k \in acap' <=> k \in acap) /\ slots'[k].installed = slots[k].installed,
         kind \in Visualizers /\ ~slots'[kind].installed => capture'[kind].state = "none" /\ kind \notin acap'
  PROVE  CaptureInv'
  <1>1. /\ capture' = [k \in Visualizers |-> capture'[k]]
        /\ \A k \in Visualizers : ThreadRecord(capture'[k])
        /\ \A k \in Visualizers \ {kind} : capture'[k] = capture[k]
    <2>1. CASE capture' = capture
      BY <2>1 DEF CaptureInv, ThreadRecord
    <2>2. CASE kind \in Visualizers /\ \E v : ThreadRecord(v) /\ capture' = [capture EXCEPT ![kind] = v]
      <3>1. PICK v : ThreadRecord(v) /\ capture' = [capture EXCEPT ![kind] = v]
        BY <2>2
      <3>2. capture = [k \in Visualizers |-> capture[k]] /\ \A k \in Visualizers : ThreadRecord(capture[k])
        BY DEF CaptureInv, ThreadRecord
      <3>3. capture' = [k \in Visualizers |-> IF k = kind THEN v ELSE capture[k]]
        BY <3>1, <3>2
      <3> QED  BY <3>1, <3>2, <3>3
    <2> QED  BY <2>1, <2>2
  <1>2. \A k \in Visualizers : ~slots'[k].installed => capture'[k].state = "none" /\ k \notin acap'
    BY <1>1 DEF CaptureInv
  <1> QED  BY <1>1, <1>2 DEF CaptureInv, ThreadRecord

\* steps that touch neither effects nor slots, and only threads that are there
LEMMA CaptureStays ==
  ASSUME CaptureInv, UNCHANGED <<capture, acap>>, \A k \in Kinds : slots'[k].installed = slots[k].installed
  PROVE  CaptureInv'
  BY DEF CaptureInv, Kinds

LEMMA QuietAttachOrInstall ==
  ASSUME Protocol, Quiet, handleExtAttachOrInstall
  PROVE  Quiet'
  <1> DEFINE kind == message.kind
             slot == slots[kind]
  <1>1. /\ SystemInv /\ CaptureInv /\ queue # <<>> /\ capture' = capture
        /\ internalExtAttach(message) \/ internalExtInstall(message)
    BY DEF Quiet, handleExtAttachOrInstall, threadVars
  <1>2. kind \in Kinds /\ slots \in [Kinds -> SlotRecords]
    BY <1>1, HeadOfQueue DEF Protocol, TypeOK
  <1>3. CASE internalExtAttach(message)
    <2>1. slot.installed /\ slots' = [slots EXCEPT ![kind] = attach(slot, message.handle)] /\ UNCHANGED <<system, acap>>
      BY <1>2, <1>3 DEF internalExtAttach
    <2>2. attach(slot, message.handle).installed = slot.installed
      BY <1>2 DEF attach, SlotRecords
    <2>3. \A k \in Kinds : slots'[k].installed = slots[k].installed
      BY <1>2, <2>1, <2>2
    <2> QED  BY <1>1, <2>1, <2>3, EffectsStay, CaptureStays DEF Quiet
  <1>4. CASE internalExtInstall(message) /\ kind \in NeedsInterface \ supported
    <2>1. UNCHANGED <<system, slots, acap>>
      BY <1>4 DEF internalExtInstall
    <2> QED  BY <1>1, <2>1, EffectsStay, CaptureStays DEF Quiet
  <1>5. CASE internalExtInstall(message) /\ kind \notin NeedsInterface \ supported
    <2>1. ~slot.installed /\ system' = onInstall(kind)
          /\ slots' = [slots EXCEPT ![kind] =
               [installed |-> TRUE, num_attached |-> 1, client_queue |-> handleOnInstall(message.handle)]]
          /\ \A k \in Visualizers \ {kind} : k \in acap' <=> k \in acap
      BY <1>5 DEF internalExtInstall, processAfterExtensionTraitsChanged
    <2>2. slots'[kind].installed /\ \A k \in Kinds \ {kind} : slots'[k] = slots[k]
      BY <1>2, <2>1
    <2>3. ~Installed[kind] /\ \A j \in PR!AuxEffects \ {kind} : Installed'[j] <=> Installed[j]
      <3>1. \A j \in PR!AuxEffects : j \in Kinds
        BY FieldNames DEF Kinds, Effects
      <3> QED  BY <1>2, <2>1, <2>2, <3>1 DEF Installed
    <2>4. Touched(system, {kind, "aux"}, system') /\ Follows(system', Installed')
      <3> HIDE DEF kind
      <3> QED  BY <1>1, <1>2, <2>1, <2>3, InstallTouches DEF SystemInv
    <2>5. SystemInv'
      <3>1. \A j \in Kinds \ {kind} : slots'[j].installed = slots[j].installed
        BY <2>2
      <3> HIDE DEF kind
      <3> QED  BY <1>1, <1>2, <2>2, <2>4, <3>1, EffectChanges
    <2>6. CaptureInv'
      <3>1. \A k \in Visualizers \ {kind} : (k \in acap' <=> k \in acap) /\ slots'[k].installed = slots[k].installed
        BY <2>1, <2>2 DEF Kinds
      <3> HIDE DEF kind
      <3> QED  BY <1>1, <1>2, <2>2, <3>1, CaptureChanges
    <2> QED  BY <2>5, <2>6 DEF Quiet
  <1> QED  BY <1>1, <1>3, <1>4, <1>5

LEMMA QuietUninstall ==
  ASSUME Protocol, Quiet, queue # <<>>, finishUninstall(message)
  PROVE  Quiet'
  <1> DEFINE kind == message.kind
  <1>1. SystemInv /\ CaptureInv /\ kind \in Kinds /\ slots \in [Kinds -> SlotRecords]
    BY HeadOfQueue DEF Quiet, Protocol, TypeOK
  <1>2. /\ slots' = [slots EXCEPT ![kind] = FreeSlot] /\ acap' = acap \ {kind} /\ system' = onUninstall(kind)
        /\ capture' = IF kind \in Visualizers THEN [capture EXCEPT ![kind] = NoThread] ELSE capture
    BY DEF finishUninstall
  <1>3. ~slots'[kind].installed /\ \A k \in Kinds \ {kind} : slots'[k] = slots[k]
    BY <1>1, <1>2 DEF FreeSlot
  <1>4. ~Installed'[kind] /\ \A j \in PR!AuxEffects \ {kind} : Installed'[j] <=> Installed[j]
    <2>1. \A j \in PR!AuxEffects : j \in Kinds
      BY FieldNames DEF Kinds, Effects
    <2>2. Installed' = [k \in Kinds |-> slots'[k].installed]
      BY DEF Installed
    <2>3. Installed'[kind] = slots'[kind].installed /\ \A j \in PR!AuxEffects : Installed'[j] = slots'[j].installed
      BY <1>1, <2>1, <2>2
    <2>4. \A j \in PR!AuxEffects : Installed[j] = slots[j].installed
      BY <2>1 DEF Installed
    <2> HIDE DEF kind
    <2> QED  BY <1>3, <2>1, <2>3, <2>4
  <1>5. Touched(system, {kind, "aux"}, system') /\ Follows(system', Installed') /\ Off(system', kind)
    <2> HIDE DEF kind
    <2> QED  BY <1>1, <1>2, <1>4, UninstallTouches DEF SystemInv
  <1>6. SystemInv'
    <2>1. \A j \in Kinds \ {kind} : slots'[j].installed = slots[j].installed
      BY <1>3
    <2> HIDE DEF kind
    <2> QED  BY <1>1, <1>5, <2>1, EffectChanges
  <1>7. CaptureInv'
    <2>1. \A k \in Visualizers \ {kind} : (k \in acap' <=> k \in acap) /\ slots'[k].installed = slots[k].installed
      BY <1>2, <1>3 DEF Kinds
    <2>2. ThreadRecord(NoThread) /\ NoThread.state = "none"
      BY DEF ThreadRecord, NoThread
    <2>3. kind \in Visualizers => capture'[kind].state = "none" /\ kind \notin acap'
      BY <1>1, <1>2, <2>2 DEF CaptureInv
    <2> HIDE DEF kind
    <2> QED  BY <1>1, <1>2, <2>1, <2>2, <2>3, CaptureChanges
  <1> QED  BY <1>6, <1>7 DEF Quiet

LEMMA QuietDetach ==
  ASSUME Protocol, Quiet, queue # <<>>, message.what = "destroy", handler \in {"idle", "stopping"},
         ~(slots[message.kind].num_attached <= 1), NEW stopped, stopped => message.kind \in Visualizers,
         finishDetach(message, stopped)
  PROVE  Quiet'
  <1> DEFINE kind == message.kind
             old == slots[kind]
             s == detached([old EXCEPT !.num_attached = @ - 1], message.handle)
  <1>1. /\ SystemInv /\ CaptureInv /\ kind \in Kinds /\ slots \in [Kinds -> SlotRecords]
    BY HeadOfQueue DEF Quiet, Protocol, TypeOK
  <1>2. old.installed /\ s.installed
    <2>1. 1 \in 1 .. Len(queue) /\ message = calls[queue[1]]
      BY DEF Protocol, TypeOK, message
    <2>2. /\ message.handle \in Members(old.client_queue) /\ old \in SlotRecords /\ SlotSound(old)
      BY <2>1, SenderAttached
    <2> QED  BY <2>2, SlotLeft
  <1>3. slots' = [slots EXCEPT ![kind] = s] /\ UNCHANGED <<system, acap>>
    BY DEF finishDetach
  <1>4. capture' = capture \/ (kind \in Visualizers /\ \E v : ThreadRecord(v) /\ capture' = [capture EXCEPT ![kind] = v])
    <2> DEFINE v == [state |-> "starting", client |-> NULL, stop_req |-> FALSE]
    <2>1. ThreadRecord(v) /\ ThreadRecord(NoThread)
      BY DEF ThreadRecord, NoThread
    <2>2. \/ stopped /\ capture' = [capture EXCEPT ![kind] = v]
          \/ stopped /\ capture' = [capture EXCEPT ![kind] = NoThread]
          \/ capture' = capture
      BY DEF finishDetach, startPeriodicCapturing
    <2> HIDE DEF v
    <2> QED  BY <2>1, <2>2
  <1> HIDE DEF s
  <1>5. \A k \in Kinds : slots'[k].installed = slots[k].installed
    <2>1. slots[kind].installed \in BOOLEAN /\ s.installed = TRUE
      <3>1. s.installed \in BOOLEAN
        <4>1. slots[kind].client_queue \in Seq(Handles)
          BY <1>1 DEF SlotRecords
        <4>2. s.installed = slots[kind].installed
          BY <1>1 DEF detached, SlotRecords, s
        <4> QED  BY <1>1, <4>2 DEF SlotRecords
      <3> QED  BY <1>1, <1>2, <3>1 DEF SlotRecords
    <2>2. slots'[kind].installed = slots[kind].installed
      BY <1>1, <1>2, <1>3, <2>1
    <2> QED  BY <1>1, <1>3, <2>2
  <1>6. SystemInv'
    BY <1>1, <1>3, <1>5, EffectsStay
  <1>7. CaptureInv'
    <2>1. slots'[kind].installed
      BY <1>1, <1>2, <1>3
    <2>2. \A k \in Visualizers \ {kind} : (k \in acap' <=> k \in acap) /\ slots'[k].installed = slots[k].installed
      BY <1>3, <1>5 DEF Kinds
    <2> HIDE DEF kind
    <2> QED  BY <1>1, <1>4, <2>1, <2>2, CaptureChanges
  <1> QED  BY <1>6, <1>7 DEF Quiet

\* the thread of an installed visualizer, or one whose thread was there
LEMMA QuietCapture ==
  ASSUME Protocol, Quiet, UNCHANGED <<system, slots>>, NEW kind \in Kinds,
         capture' = capture \/ (kind \in Visualizers /\ \E v : ThreadRecord(v) /\ capture' = [capture EXCEPT ![kind] = v]),
         \A k \in Visualizers \ {kind} : k \in acap' <=> k \in acap,
         slots[kind].installed \/ (acap' \subseteq acap /\ (kind \in Visualizers => capture'[kind].state = capture[kind].state \/ capture'[kind].state = "none"))
  PROVE  Quiet'
  <1>1. SystemInv /\ CaptureInv
    BY DEF Quiet
  <1>2. SystemInv'
    BY <1>1, EffectsStay
  <1>3. kind \in Visualizers /\ ~slots'[kind].installed => capture'[kind].state = "none" /\ kind \notin acap'
    BY <1>1 DEF CaptureInv
  <1>4. CaptureInv'
    BY <1>1, <1>3, CaptureChanges
  <1> QED  BY <1>2, <1>4 DEF Quiet

-----------------------------------------------------------------------------
\* the record of a thread that is told to stop
LEMMA ThreadToStop ==
  ASSUME CaptureInv, NEW kind \in Visualizers
  PROVE  \E v : /\ ThreadRecord(v) /\ v.state = capture[kind].state
               /\ [capture EXCEPT ![kind].stop_req = TRUE] = [capture EXCEPT ![kind] = v]
  <1> DEFINE old == capture[kind]
             f == [old EXCEPT !.stop_req = TRUE]
  <1>1. ThreadRecord(old)
    BY DEF CaptureInv, ThreadRecord
  <1>2. ThreadRecord(f) /\ f.state = old.state
    <2> HIDE DEF old
    <2> QED  BY <1>1 DEF ThreadRecord
  <1>3. [capture EXCEPT ![kind].stop_req = TRUE] = [capture EXCEPT ![kind] = f]
    OBVIOUS
  <1> QED  BY <1>2, <1>3

\* the record of no thread, and of one that is being made
LEMMA ThreadToStart ==
  ThreadRecord(NoThread) /\ ThreadRecord([state |-> "starting", client |-> NULL, stop_req |-> FALSE])
  BY DEF ThreadRecord, NoThread

LEMMA HandledModule ==
  ASSUME Protocol, queue # <<>>, message.what # "create",
         handler \notin {"starting", "giving_up"} \/ message.what # "destroy"
  PROVE  message.kind \in Kinds /\ slots[message.kind].installed
  <1>1. 1 \in 1 .. Len(queue) /\ message = calls[queue[1]]
    BY DEF Protocol, TypeOK, message
  <1> QED  BY <1>1, SenderAttached

LEMMA QuietDetachOrUninstall ==
  ASSUME Protocol, Quiet, handleExtDetachOrUninstall
  PROVE  Quiet'
  <1> DEFINE m == message
             last == slots[m.kind].num_attached <= 1
             stops == m.kind \in Visualizers /\ (last \/ stopsAtDetach(m))
  <1>1. /\ handler = "idle" /\ queue # <<>> /\ m.what = "destroy"
        /\ IF stops /\ available(m.kind)
             THEN stopPeriodicCapturing(m.kind) /\ acap' = (IF last THEN acap \ {m.kind} ELSE acap) /\ UNCHANGED <<system, slots>>
             ELSE IF last THEN finishUninstall(m) ELSE finishDetach(m, stops)
    BY DEF handleExtDetachOrUninstall
  <1>2. CASE stops /\ available(m.kind)
    <2>1. /\ capture' = [capture EXCEPT ![m.kind].stop_req = TRUE] /\ UNCHANGED <<system, slots>>
          /\ \A k \in Visualizers \ {m.kind} : k \in acap' <=> k \in acap
      BY <1>1, <1>2 DEF stopPeriodicCapturing
    <2>2. \E v : ThreadRecord(v) /\ capture' = [capture EXCEPT ![m.kind] = v]
      <3>1. CaptureInv /\ m.kind \in Visualizers
        BY <1>2 DEF Quiet
      <3>2. PICK k \in Visualizers : k = m.kind
        BY <3>1
      <3>3. PICK v : ThreadRecord(v) /\ [capture EXCEPT ![k].stop_req = TRUE] = [capture EXCEPT ![k] = v]
        BY <3>1, ThreadToStop
      <3> QED  BY <2>1, <3>2, <3>3
    <2>3. m.kind \in Kinds /\ slots[m.kind].installed
      BY <1>1, HandledModule
    <2> QED  BY <1>2, <2>1, <2>2, <2>3, QuietCapture
  <1>3. CASE ~(stops /\ available(m.kind)) /\ last
    BY <1>1, <1>3, QuietUninstall
  <1>4. CASE ~(stops /\ available(m.kind)) /\ ~last
    <2>1. finishDetach(m, stops) /\ (stops => m.kind \in Visualizers)
      BY <1>1, <1>4
    <2> HIDE DEF stops
    <2> QED  BY <1>1, <1>4, <2>1, QuietDetach
  <1> QED  BY <1>2, <1>3, <1>4

LEMMA QuietMessage ==
  ASSUME Protocol, Quiet, handleExtensionMessage
  PROVE  Quiet'
  <1> DEFINE m == message
  <1>1. handler = "idle" /\ queue # <<>> /\ m.what \notin {"create", "destroy"}
    BY DEF handleExtensionMessage
  <1>2. m.kind \in Kinds /\ slots[m.kind].installed /\ CallTyped(m) /\ Made(m)
    BY <1>1, HandledModule, HeadOfQueue
  <1>3. CASE m.kind \in Visualizers
    <2>1. handleVisualizerMessage(m)
      BY <1>2, <1>3 DEF handleExtensionMessage
    <2>2. CASE StartsThread(m) \/ (StopsThread(m) /\ available(m.kind))
      <3>1. /\ UNCHANGED <<system, slots, acap>>
            /\ \/ capture' = [capture EXCEPT ![m.kind] = [state |-> "starting", client |-> NULL, stop_req |-> FALSE]]
               \/ capture' = [capture EXCEPT ![m.kind].stop_req = TRUE]
        BY <2>1, <2>2 DEF handleVisualizerMessage, startPeriodicCapturing, stopPeriodicCapturing, moduleVars
      <3>2. \E v : ThreadRecord(v) /\ capture' = [capture EXCEPT ![m.kind] = v]
        <4>1. CaptureInv /\ m.kind \in Visualizers
          BY <1>3 DEF Quiet
        <4>2. PICK k \in Visualizers : k = m.kind
          BY <4>1
        <4>3. PICK v : ThreadRecord(v) /\ [capture EXCEPT ![k].stop_req = TRUE] = [capture EXCEPT ![k] = v]
          BY <4>1, ThreadToStop
        <4> QED  BY <3>1, <4>2, <4>3, ThreadToStart
      <3> QED  BY <1>2, <1>3, <3>1, <3>2, QuietCapture
    <2>3. CASE ~StartsThread(m) /\ ~(StopsThread(m) /\ available(m.kind))
      <3>1. UNCHANGED <<system, slots, capture>> /\ \A k \in Visualizers \ {m.kind} : k \in acap' <=> k \in acap
        BY <2>1, <2>3 DEF handleVisualizerMessage, processAfterExtensionTraitsChanged
      <3> QED  BY <1>2, <3>1, QuietCapture
    <2> QED  BY <2>2, <2>3
  <1>4. CASE m.kind \notin Visualizers
    <2>1. system' = processMessage(m).system /\ UNCHANGED <<slots, acap, capture>>
      BY <1>2, <1>4 DEF handleExtensionMessage, handleEffectMessage
    <2>2. m.kind \in Effects
      BY <1>2, <1>4 DEF Kinds
    <2>3. m.what \in Methods(m.kind) /\ (m.what = "setEnabled" => m.arg \in BOOLEAN)
      BY <1>1, <1>2 DEF CallTyped
    <2>4. Installed[m.kind] /\ Installed' = Installed
      BY <1>2, <2>1 DEF Installed
    <2>5. SystemInv /\ CaptureInv
      BY DEF Quiet
    <2>6. Touched(system, {m.kind, "aux"}, system') /\ Follows(system', Installed')
      <3> HIDE DEF m
      <3> QED  BY <2>1, <2>2, <2>3, <2>4, <2>5, MessageTouches DEF SystemInv
    <2>7. SystemInv'
      <3>1. \A j \in Kinds : slots'[j].installed = slots[j].installed
        BY <2>1
      <3>2. slots'[m.kind].installed
        BY <1>2, <2>1
      <3> HIDE DEF m
      <3> QED  BY <1>2, <2>5, <2>6, <3>1, <3>2, EffectChanges
    <2>8. CaptureInv'
      BY <2>1, <2>5, CaptureStays
    <2> QED  BY <2>7, <2>8 DEF Quiet
  <1> QED  BY <1>3, <1>4

LEMMA QuietWait ==
  ASSUME Protocol, Quiet, Wait \/ StartTimesOut
  PROVE  Quiet'
  <1> DEFINE kind == message.kind
  <1>1. /\ handler # "idle" /\ queue # <<>> /\ kind \in Visualizers /\ kind \in Kinds
        /\ message.what \in {"destroy", "setEnabled"} /\ CaptureInv
    <2>1. handler # "idle"
      BY DEF Wait, CaptureStopped, CaptureStarted, StartGivenUp, StartTimesOut
    <2> QED  BY <2>1 DEF Protocol, HandlerInv, Quiet, Kinds
  <1>2. CASE CaptureStopped
    <2>1. handler = "stopping"
      BY <1>2 DEF CaptureStopped
    <2>2. CASE message.what = "setEnabled"
      <3>1. /\ UNCHANGED <<system, slots>> /\ capture' = [capture EXCEPT ![kind] = NoThread]
            /\ \A k \in Visualizers \ {kind} : k \in acap' <=> k \in acap
        BY <1>2, <2>2 DEF CaptureStopped, finishSetEnabled, processAfterExtensionTraitsChanged
      <3>2. slots[kind].installed
        BY <1>1, <2>1, HandledModule
      <3>3. \E v : ThreadRecord(v) /\ capture' = [capture EXCEPT ![kind] = v]
        BY <1>1, <3>1, ThreadToStart
      <3> QED  BY <1>1, <3>1, <3>2, <3>3, QuietCapture
    <2>3. CASE message.what = "destroy" /\ slots[kind].num_attached <= 1
      <3>1. finishUninstall(message)
        BY <1>2, <2>3 DEF CaptureStopped
      <3> QED  BY <1>1, <3>1, QuietUninstall
    <2>4. CASE message.what = "destroy" /\ ~(slots[kind].num_attached <= 1)
      <3>1. finishDetach(message, TRUE)
        BY <1>2, <2>4 DEF CaptureStopped
      <3> QED  BY <1>1, <2>1, <2>4, <3>1, QuietDetach
    <2> QED  BY <1>1, <2>2, <2>3, <2>4
  <1>3. CASE CaptureStarted
    <2>1. CASE message.what = "setEnabled"
      <3>1. UNCHANGED <<system, slots, capture>> /\ \A k \in Visualizers \ {kind} : k \in acap' <=> k \in acap
        BY <1>3, <2>1 DEF CaptureStarted, finishSetEnabled, processAfterExtensionTraitsChanged, threadVars
      <3>2. slots[kind].installed
        BY <1>1, <2>1, HandledModule
      <3> QED  BY <1>1, <3>1, <3>2, QuietCapture
    <2>2. CASE message.what # "setEnabled"
      <3>1. UNCHANGED <<system, slots, capture, acap>>
        BY <1>3, <2>2 DEF CaptureStarted, threadVars
      <3> QED  BY <1>1, <3>1, QuietCapture
    <2> QED  BY <2>1, <2>2
  <1>4. CASE StartGivenUp
    <2>1. UNCHANGED <<system, slots, acap>> /\ capture' = [capture EXCEPT ![kind] = NoThread]
      BY <1>4 DEF StartGivenUp, moduleVars
    <2>2. capture'[kind].state = "none"
      BY <1>1, <2>1 DEF CaptureInv, NoThread
    <2>3. \E v : ThreadRecord(v) /\ capture' = [capture EXCEPT ![kind] = v]
      BY <1>1, <2>1, ThreadToStart
    <2> QED  BY <1>1, <2>1, <2>2, <2>3, QuietCapture
  <1>5. CASE StartTimesOut
    <2>1. UNCHANGED <<system, slots, acap>> /\ capture' = [capture EXCEPT ![kind].stop_req = TRUE]
      BY <1>5 DEF StartTimesOut, moduleVars
    <2>2. PICK v : ThreadRecord(v) /\ v.state = capture[kind].state /\ capture' = [capture EXCEPT ![kind] = v]
      <3>1. PICK v : /\ ThreadRecord(v) /\ v.state = capture[kind].state
                     /\ [capture EXCEPT ![kind].stop_req = TRUE] = [capture EXCEPT ![kind] = v]
        BY <1>1, ThreadToStop
      <3> QED  BY <2>1, <3>1
    <2>3. capture'[kind].state = capture[kind].state
      BY <1>1, <2>2 DEF CaptureInv
    <2> QED  BY <1>1, <2>1, <2>2, <2>3, QuietCapture
  <1> QED  BY <1>2, <1>3, <1>4, <1>5 DEF Wait

LEMMA QuietThread ==
  ASSUME Protocol, Quiet, NEW kind \in Visualizers,
         ThreadStarts(kind) \/ ListenerCalled(kind) \/ ListenerReturns(kind) \/ ThreadExits(kind)
  PROVE  Quiet'
  <1>1. CaptureInv /\ kind \in Kinds
    BY DEF Quiet, Kinds
  <1>2. UNCHANGED <<system, slots, acap>> /\ capture[kind].state # "none"
    BY DEF ThreadStarts, ListenerCalled, ListenerReturns, ThreadExits, moduleVars
  <1>3. slots[kind].installed
    BY <1>1, <1>2 DEF CaptureInv
  <1>4. \E v : ThreadRecord(v) /\ capture' = [capture EXCEPT ![kind] = v]
    <2>1. \/ \E b : capture' = [capture EXCEPT ![kind].state = "running", ![kind].client = b]
          \/ \E a : capture' = [capture EXCEPT ![kind].state = a]
      BY DEF ThreadStarts, ListenerCalled, ListenerReturns, ThreadExits
    <2>2. CASE \E b : capture' = [capture EXCEPT ![kind].state = "running", ![kind].client = b]
      <3>1. PICK b : capture' = [capture EXCEPT ![kind].state = "running", ![kind].client = b]
        BY <2>2
      <3>2. PICK c : c = capture'
        OBVIOUS
      <3>3. c = [capture EXCEPT ![kind].state = "running", ![kind].client = b]
        BY <3>1, <3>2
      <3>4. CaptureInv
        BY <1>1
      <3>5. \E v : ThreadRecord(v) /\ c = [capture EXCEPT ![kind] = v]
        <4> DEFINE old == capture[kind]
                   g == [old EXCEPT !.state = "running"]
                   h == [old EXCEPT !.state = "running", !.client = b]
                   d == [capture EXCEPT ![kind] = g]
        <4>1. ThreadRecord(old) /\ capture = [k \in Visualizers |-> capture[k]]
          BY <3>4 DEF CaptureInv, ThreadRecord
        <4>2. ThreadRecord(h)
          <5> HIDE DEF old
          <5> QED  BY <4>1 DEF ThreadRecord
        <4>3. c = [capture EXCEPT ![kind] = h]
          <5>1. c = [d EXCEPT ![kind].client = b]
            BY <3>3
          <5>2. d[kind] = g
            BY <4>1
          <5>3. [d EXCEPT ![kind].client = b] = [d EXCEPT ![kind] = [g EXCEPT !.client = b]]
            BY <5>2
          <5>4. [g EXCEPT !.client = b] = h
            BY <4>1 DEF ThreadRecord
          <5> HIDE DEF h, g
          <5>5. [d EXCEPT ![kind] = h] = [capture EXCEPT ![kind] = h]
            BY <4>1
          <5> QED  BY <5>1, <5>3, <5>4, <5>5
        <4> HIDE DEF h
        <4> QED  BY <4>2, <4>3
      <3> QED  BY <3>2, <3>5
    <2>3. CASE \E a : capture' = [capture EXCEPT ![kind].state = a]
      <3>1. PICK a : capture' = [capture EXCEPT ![kind].state = a]
        BY <2>3
      <3>2. PICK c : c = capture'
        OBVIOUS
      <3>3. c = [capture EXCEPT ![kind].state = a]
        BY <3>1, <3>2
      <3>4. CaptureInv
        BY <1>1
      <3>5. \E v : ThreadRecord(v) /\ c = [capture EXCEPT ![kind] = v]
        <4> DEFINE old == capture[kind]
                   g == [old EXCEPT !.state = a]
        <4>1. ThreadRecord(old)
          BY <3>4 DEF CaptureInv, ThreadRecord
        <4>2. ThreadRecord(g)
          <5> HIDE DEF old
          <5> QED  BY <4>1 DEF ThreadRecord
        <4>3. c = [capture EXCEPT ![kind] = g]
          BY <3>3
        <4> HIDE DEF g
        <4> QED  BY <4>2, <4>3
      <3> QED  BY <3>2, <3>5
    <2> QED  BY <2>1, <2>2, <2>3
  <1> QED  BY <1>1, <1>2, <1>3, <1>4, QuietCapture

LEMMA QuietSystem ==
  ASSUME Protocol, Quiet,
         \/ \E next_is_started \in BOOLEAN : raiseOnBeforeAudioSinkStateChanged(next_is_started)
         \/ \E effect \in PR!AuxEffects \cup {"none"} : selectActiveAuxEffect(effect)
         \/ \E level \in 0 .. 2 : setAuxEffectSendLevel(level)
  PROVE  Quiet'
  <1>1. UNCHANGED <<slots, acap, capture>>
    BY DEF raiseOnBeforeAudioSinkStateChanged, selectActiveAuxEffect, setAuxEffectSendLevel, threadVars
  <1>2. SystemInv /\ CaptureInv /\ SystemOK(system) /\ Installed' = Installed
    BY <1>1 DEF Quiet, SystemInv, Installed
  <1>3. CaptureInv'
    BY <1>1, <1>2, CaptureStays
  <1>4. CASE \E next_is_started \in BOOLEAN : raiseOnBeforeAudioSinkStateChanged(next_is_started)
    <2>1. Touched(system, {"equalizer"}, system') /\ system'.equalizer.enabled = system.equalizer.enabled
      BY <1>2, <1>4, EqualizerTouches DEF raiseOnBeforeAudioSinkStateChanged
    <2>2. "equalizer" \in Kinds
      BY DEF Kinds, Effects
    <2>3. Touched(system, {"equalizer", "aux"}, system') /\ Follows(system', Installed')
      BY <1>2, <2>1, NotReverb DEF SystemInv
    <2>4. ~slots'["equalizer"].installed => Off(system', "equalizer")
      BY <1>1, <1>2, <2>1, <2>2 DEF SystemInv, Off, SinkEffects
    <2>5. SystemInv'
      <3>1. \A j \in Kinds \ {"equalizer"} : slots'[j].installed = slots[j].installed
        BY <1>1
      <3> QED  BY <1>2, <2>2, <2>3, <2>4, <3>1, EffectChanges
    <2> QED  BY <1>3, <2>5 DEF Quiet
  <1>5. ASSUME NEW a, AuxRecord(a), SendsRight(a), a.enabled = system.aux.enabled, system' = [system EXCEPT !.aux = a]
        PROVE  Quiet'
    <2>1. Touched(system, {"aux"}, system') /\ system'.aux = a
      BY <1>2, <1>5, AuxField, FieldSet
    <2>2. \A j \in PR!AuxEffects : system'[j] = system[j]
      BY <2>1, FieldNames DEF Touched
    <2>3. Follows(system', Installed')
      BY <1>2, <1>5, <2>1, <2>2 DEF SystemInv, Follows
    <2>4. "presetreverb" \in Kinds /\ Touched(system, {"presetreverb", "aux"}, system')
      BY <2>1 DEF Touched, Kinds, Effects
    <2>5. ~slots'["presetreverb"].installed => Off(system', "presetreverb")
      BY DEF Off, SinkEffects
    <2>6. SystemInv'
      <3>1. \A j \in Kinds \ {"presetreverb"} : slots'[j].installed = slots[j].installed
        BY <1>1
      <3> QED  BY <1>2, <2>3, <2>4, <2>5, <3>1, EffectChanges
    <2> QED  BY <1>3, <2>6 DEF Quiet
  <1>6. AuxRecord(system.aux) /\ SendsRight(system.aux)
    BY <1>2, AuxField DEF SystemInv, Follows
  <1>7. CASE \E effect \in PR!AuxEffects \cup {"none"} : selectActiveAuxEffect(effect)
    <2>1. PICK effect \in PR!AuxEffects \cup {"none"} : selectActiveAuxEffect(effect)
      BY <1>7
    <2> DEFINE a == PR!onSelectActiveAuxEffect(system.aux, effect)
    <2>2. AuxRecord(a) /\ SendsRight(a) /\ a.enabled = system.aux.enabled
      BY <1>6, AuxSelected
    <2>3. system' = [system EXCEPT !.aux = a]
      BY <2>1 DEF selectActiveAuxEffect
    <2> HIDE DEF a
    <2> QED  BY <1>5, <2>2, <2>3
  <1>8. CASE \E level \in 0 .. 2 : setAuxEffectSendLevel(level)
    <2>1. PICK level \in 0 .. 2 : setAuxEffectSendLevel(level)
      BY <1>8
    <2> DEFINE a == PR!onSetAuxEffectSendLevel(system.aux, level)
    <2>2. AuxRecord(a) /\ SendsRight(a) /\ a.enabled = system.aux.enabled
      <3>1. level \in Nat
        OBVIOUS
      <3> QED  BY <1>6, <3>1, AuxLevelSet
    <2>3. system' = [system EXCEPT !.aux = a]
      BY <2>1 DEF setAuxEffectSendLevel
    <2> HIDE DEF a
    <2> QED  BY <1>5, <2>2, <2>3
  <1> QED  BY <1>4, <1>7, <1>8

LEMMA InitQuiet == Init => Quiet
  <1> SUFFICES ASSUME Init PROVE Quiet
    OBVIOUS
  <1> DEFINE aux == [active |-> "none", enabled |-> [e \in PR!AuxEffects |-> FALSE], level |-> 0,
                     millibel |-> PR!MIN, sends |-> [e \in PR!AuxEffects |-> PR!MIN]]
             bb == [enabled |-> FALSE, strength |-> 0]
             eq == [enabled |-> FALSE, preset |-> 0, levels |-> EQ!Flat(0)]
             hq == [enabled |-> FALSE, preset |-> 0, levels |-> HQ!PresetData(0)]
             pa == [enabled |-> FALSE, level |-> PA!UNITY, mixer_level |-> PA!UNITY]
             pr == [enabled |-> FALSE, preset |-> PR!NONE]
             er == [enabled |-> FALSE, settings |-> ER!MakeDefaultSettings]
  <1>1. AuxRecord(aux) /\ SendsRight(aux) /\ aux.enabled = [e \in PR!AuxEffects |-> FALSE]
    BY DEF AuxRecord, SendsRight, LevelRight, PR!linearToMillibel, PR!MIN
  <1>2. /\ Setting("aux", aux) /\ Setting("bassboost", bb) /\ Setting("virtualizer", bb)
        /\ Setting("equalizer", eq) /\ Setting("hqequalizer", hq) /\ Setting("preamp", pa)
        /\ Setting("presetreverb", pr) /\ Setting("envreverb", er)
        /\ ~bb.enabled /\ ~eq.enabled /\ ~hq.enabled /\ pa.mixer_level = PA!UNITY
    BY <1>1 DEF Setting, AuxRecord
  <1> HIDE DEF aux, bb, eq, hq, pa, pr, er
  <1>3. system = [bassboost |-> bb, virtualizer |-> bb, equalizer |-> eq, hqequalizer |-> hq, preamp |-> pa,
                  presetreverb |-> pr, envreverb |-> er, aux |-> aux]
    BY DEF Init, aux, bb, eq, hq, pa, pr, er
  <1>4. SystemOK(system)
    <2>1. /\ system = [f \in Fields |-> system[f]]
          /\ system.bassboost = bb /\ system.virtualizer = bb /\ system.equalizer = eq /\ system.hqequalizer = hq
          /\ system.preamp = pa /\ system.presetreverb = pr /\ system.envreverb = er /\ system.aux = aux
      BY <1>3, FieldNames
    <2> QED  BY <1>2, <2>1, FieldNames DEF SystemOK
  <1>5. \A k \in Kinds : ~slots[k].installed
    BY DEF Init, FreeSlot
  <1>6. Follows(system, Installed)
    <2>1. \A j \in PR!AuxEffects : ~Installed[j]
      BY <1>5, FieldNames DEF Installed, Kinds, Effects
    <2>2. system.aux = aux
      BY <1>3
    <2> QED  BY <1>1, <2>1, <2>2 DEF Follows
  <1>7. \A k \in Kinds : Off(system, k)
    <2>1. system.bassboost = bb /\ system.virtualizer = bb /\ system.equalizer = eq /\ system.hqequalizer = hq
          /\ system.preamp = pa
      BY <1>3
    <2> QED  BY <1>2, <2>1 DEF Off, SinkEffects
  <1>8. CaptureInv
    BY DEF Init, NoThread, CaptureInv
  <1> QED  BY <1>4, <1>6, <1>7, <1>8 DEF Quiet, SystemInv

LEMMA NextQuiet == Protocol /\ Quiet /\ [Next]_vars => Quiet'
  <1> SUFFICES ASSUME Protocol, Quiet, [Next]_vars PROVE Quiet'
    OBVIOUS
  <1>1. ASSUME UNCHANGED <<system, slots, acap, capture>> PROVE Quiet'
    BY <1>1, EffectsStay, CaptureStays DEF Quiet
  <1>2. CASE \E t \in Threads, h \in Handles :
               \/ \E kind \in scenario : Create(t, h, kind)
               \/ Destroy(t, h)
               \/ handles[h] # NULL /\ \E what \in Asked(scenario, handles[h].kind) :
                    \E arg \in Legal(handles[h].kind, what) \cup Illegal(handles[h].kind, what) : Use(t, h, what, arg)
    <2>1. UNCHANGED <<system, slots, acap, capture>>
      BY <1>2 DEF Create, Destroy, Use, moduleVars, threadVars
    <2> QED  BY <1>1, <2>1
  <1>3. CASE \E t \in Threads : Return(t)
    <2>1. UNCHANGED <<system, slots, acap, capture>>
      BY <1>3 DEF Return, threadVars
    <2> QED  BY <1>1, <2>1
  <1>4. CASE Handle
    BY <1>4, QuietAttachOrInstall, QuietDetachOrUninstall, QuietMessage DEF Handle
  <1>5. CASE Wait \/ StartTimesOut
    BY <1>5, QuietWait
  <1>6. CASE \E kind \in Visualizers :
               ThreadStarts(kind) \/ ListenerCalled(kind) \/ ListenerReturns(kind) \/ ThreadExits(kind)
    BY <1>6, QuietThread
  <1>7. CASE \/ \E next_is_started \in BOOLEAN : raiseOnBeforeAudioSinkStateChanged(next_is_started)
             \/ \E effect \in PR!AuxEffects \cup {"none"} : selectActiveAuxEffect(effect)
             \/ \E level \in 0 .. 2 : setAuxEffectSendLevel(level)
    BY <1>7, QuietSystem
  <1>8. CASE UNCHANGED vars
    <2>1. UNCHANGED <<system, slots, acap, capture>>
      BY <1>8 DEF vars, moduleVars, threadVars
    <2> QED  BY <1>1, <2>1
  <1> QED  BY <1>2, <1>3, <1>4, <1>5, <1>6, <1>7, <1>8 DEF Next

LEMMA QuietHolds == Spec => []Quiet
  BY InitProtocol, NextProtocol, InitQuiet, NextQuiet, PTL DEF Spec

LEMMA QuietSends == Quiet => SendsFollowSelection
  <1> SUFFICES ASSUME Quiet, NEW k \in PR!AuxEffects
               PROVE  system.aux.sends[k] =
                        IF k = system.aux.active /\ slots[k].installed /\ system[k].enabled
                        THEN PR!linearToMillibel(system.aux.level) ELSE PR!MIN
    BY DEF SendsFollowSelection
  <1>1. k \in Kinds
    BY FieldNames DEF Kinds, Effects
  <1>2. system.aux.enabled[k] <=> slots[k].installed /\ system[k].enabled
    BY <1>1 DEF Quiet, SystemInv, Follows, Installed
  <1>3. system.aux.millibel = PR!linearToMillibel(system.aux.level)
    BY DEF Quiet, SystemInv, Follows, SendsRight, LevelRight
  <1> QED  BY <1>2, <1>3 DEF Quiet, SystemInv, Follows, SendsRight

LEMMA QuietSilent == Quiet => SilentWithoutHandles
  <1> SUFFICES ASSUME Quiet, NEW k \in Kinds, ~slots[k].installed
               PROVE  CASE k \in SinkEffects      -> ~system[k].enabled
                        [] k = "preamp"            -> system.preamp.mixer_level = PA!UNITY
                        [] k \in PR!AuxEffects     -> system.aux.sends[k] = PR!MIN
                        [] k \in Visualizers       -> capture[k].state = "none" /\ k \notin acap
    BY DEF SilentWithoutHandles, SinkEffects
  <1>1. Off(system, k)
    BY DEF Quiet, SystemInv
  <1>2. k \in PR!AuxEffects => system.aux.sends[k] = PR!MIN
    BY QuietSends DEF SendsFollowSelection
  <1>3. k \in Visualizers => capture[k].state = "none" /\ k \notin acap
    BY DEF Quiet, CaptureInv
  <1>4. CASE k \in SinkEffects
    BY <1>1, <1>4, FieldNames DEF Off, SinkEffects, Visualizers
  <1>5. CASE k = "preamp"
    BY <1>1, <1>5, FieldNames DEF Off, SinkEffects, Visualizers
  <1>6. CASE k \in PR!AuxEffects
    BY <1>2, <1>6, FieldNames DEF SinkEffects, Visualizers
  <1>7. CASE k \in Visualizers
    BY <1>3, <1>7, FieldNames DEF SinkEffects, Visualizers
  <1> QED  BY <1>4, <1>5, <1>6, <1>7, FieldNames DEF Kinds, Effects, SinkEffects

(* The sends of the two environmental effects follow what is selected: the
   selected reverb has the level of the player while it is enabled, the other
   the least level, whatever order selections, levels, settings and handles
   come in. *)
THEOREM SendsFollowSelectionHolds == Spec => []SendsFollowSelection
  BY QuietHolds, QuietSends, PTL

(* What has no handle is silent: an effect whose module is not installed does
   nothing to what is heard, and no thread of a visualizer outlives its module.
   onUninstall undoes what the last client had set. *)
THEOREM SilentWithoutHandlesHolds == Spec => []SilentWithoutHandles
  BY QuietHolds, QuietSilent, PTL

-----------------------------------------------------------------------------
(* Capturing follows control.                                              *)

Pack(enabled, client) == V!PackWaveFftStatus(enabled, client)
Direct(c) == c.kind = "visualizer" /\ c.what \in V!Direct
StatusOK(s) ==
  /\ s = [f \in DOMAIN s |-> s[f]]
  /\ {"enabled", "get_waveform_fft_state"} \subseteq DOMAIN s
  /\ s.enabled \in BOOLEAN

On(k) == slots[k].installed /\ status[k].enabled
Active(k) == Head(slots[k].client_queue)
\* what can be read directly can be read by the active client
Readable(k) == status[k].get_waveform_fft_state \in {Pack(status[k].enabled, Active(k)), Pack(FALSE, NULL)}

Settled(k) ==
  /\ k \in acap <=> On(k)
  /\ capture[k].state # "none" => On(k) /\ ~capture[k].stop_req
  /\ On(k) /\ preparedForCapturing(Active(k)) /\ ~timed_out => capture[k].state # "none"
  /\ slots[k].installed => Readable(k)

\* while the handler thread waits, for what the message asked: what it will find when it goes on
Waits(k) ==
  /\ slots[k].installed /\ Readable(k)
  /\ message.what = "setEnabled" => message.handle = Active(k)
  /\ handler = "stopping" /\ message.what = "setEnabled" => ~message.arg
  /\ handler = "stopping" /\ message.what = "destroy" /\ ~(slots[k].num_attached <= 1) =>
       status[k].enabled /\ k \in acap /\ message.handle = Active(k)
  /\ handler # "stopping" /\ message.what = "setEnabled" => message.arg /\ ~status[k].enabled /\ k \notin acap
  /\ handler # "stopping" /\ message.what = "destroy" => status[k].enabled /\ k \in acap
  /\ handler = "starting" => capture[k].state # "none" /\ ~capture[k].stop_req
  /\ handler = "giving_up" => timed_out

Following(k) == IF handler # "idle" /\ k = message.kind THEN Waits(k) ELSE Settled(k)

ControlInv ==
  /\ status = [k \in Visualizers |-> status[k]] /\ \A k \in Visualizers : StatusOK(status[k])
  /\ infos = [h \in Handles |-> infos[h]]
  /\ \A h \in Handles : handles[h] = NULL => ~preparedForCapturing(h)
  /\ \A t \in Threads : calls[t].phase = "posted" => ~Direct(calls[t])
  /\ timed_out \in BOOLEAN
  /\ \A k \in Visualizers : Following(k)

LEMMA InitControl == Init => ControlInv
  <1> SUFFICES ASSUME Init PROVE ControlInv
    OBVIOUS
  <1>1. status = [k \in Visualizers |-> status[k]]
    BY DEF Init, Visualizers
  <1>2. StatusOK(V!VisualizerStatus) /\ ~V!VisualizerStatus.enabled
    <2> DEFINE s == V!VisualizerStatus
    <2>1. s.enabled = FALSE /\ {"enabled", "get_waveform_fft_state"} \subseteq DOMAIN s /\ s = [f \in DOMAIN s |-> s[f]]
      BY DEF V!VisualizerStatus
    <2> QED  BY <2>1 DEF StatusOK
  <1>3. StatusOK(HV!HQVisualizerStatus) /\ ~HV!HQVisualizerStatus.enabled
    <2> DEFINE s == HV!HQVisualizerStatus
    <2>1. s.enabled = FALSE /\ {"enabled", "get_waveform_fft_state"} \subseteq DOMAIN s /\ s = [f \in DOMAIN s |-> s[f]]
      BY DEF HV!HQVisualizerStatus
    <2> QED  BY <2>1 DEF StatusOK
  <1>4. \A k \in Visualizers : StatusOK(status[k]) /\ ~status[k].enabled
    <2>1. status["visualizer"] = V!VisualizerStatus /\ status["hqvisualizer"] = HV!HQVisualizerStatus
      BY DEF Init
    <2> QED  BY <1>2, <1>3, <2>1 DEF Visualizers
  <1>5. /\ infos = [h \in Handles |-> infos[h]] /\ \A h \in Handles : ~preparedForCapturing(h)
        /\ \A t \in Threads : calls[t].phase # "posted"
        /\ timed_out = FALSE /\ handler = "idle"
    BY DEF Init, Idle, preparedForCapturing, V!preparedForCapturing, V!ClientInfo
  <1>6. ASSUME NEW k \in Visualizers PROVE Settled(k)
    <2>1. ~slots[k].installed /\ k \notin acap /\ capture[k].state = "none"
      BY DEF Init, FreeSlot, NoThread, Kinds
    <2> QED  BY <2>1 DEF Settled, On
  <1> QED  BY <1>1, <1>4, <1>5, <1>6 DEF ControlInv, Following

LEMMA ControlSuffices == ControlInv => CaptureFollowsControl
  <1> SUFFICES ASSUME ControlInv, handler = "idle", NEW k \in Visualizers PROVE Settled(k)
    BY DEF CaptureFollowsControl, Settled, On, Active, Readable, Pack
  <1> QED  BY DEF ControlInv, Following

\* the client in control keeps it when another leaves
LEMMA HeadKept ==
  ASSUME NEW S, NEW clients \in Seq(S), NEW client, clients # <<>>, Head(clients) # client
  PROVE  Head(handleOnDetach(clients, client)) = Head(clients)
  <1> DEFINE N == Len(clients)
             kept == CHOOSE f : KeptOf(f, clients, client, N)
             Good(n) == kept[n] \in Seq(S) /\ (n # 0 => kept[n] # <<>> /\ Head(kept[n]) = Head(clients))
             P == {n \in 0 .. N : Good(n)}
  <1>1. N \in Nat /\ N # 0 /\ Head(clients) = clients[1] /\ \A i \in 1 .. N : clients[i] \in S
    OBVIOUS
  <1>2. KeptOf(kept, clients, client, N)
    BY <1>1, KeptExists
  <1>3. handleOnDetach(clients, client) = kept[N]
    BY DEF handleOnDetach, KeptOf
  <1> HIDE DEF kept, N
  <1>4. 0 \in P
    <2>1. kept[0] = <<>> /\ 0 \in 0 .. N
      BY <1>1, <1>2, KeptStep
    <2>2. Good(0)
      BY <2>1
    <2> HIDE DEF Good
    <2> QED  BY <2>1, <2>2
  <1>5. ASSUME NEW n \in 0 .. N - 1, n \in P PROVE n + 1 \in P
    <2>1. kept[n + 1] = IF clients[n + 1] = client THEN kept[n] ELSE Append(kept[n], clients[n + 1])
      BY <1>1, <1>2, KeptStep
    <2>2. n + 1 \in 1 .. N /\ clients[n + 1] \in S
      BY <1>1
    <2>3. Good(n)
      BY <1>5
    <2>4. n \in Nat /\ n + 1 # 0 /\ n + 1 \in 0 .. N
      BY <1>1
    <2> DEFINE s == kept[n]
               r == kept[n + 1]
               c == clients[n + 1]
    <2>5. s \in Seq(S) /\ c \in S /\ r = (IF c = client THEN s ELSE Append(s, c))
      BY <2>1, <2>2, <2>3
    <2>6. n # 0 => s # <<>> /\ Head(s) = Head(clients)
      BY <2>3
    <2>7. n = 0 => s = <<>> /\ c = Head(clients)
      <3>1. kept[0] = <<>>
        BY <1>1, <1>2, KeptStep
      <3> QED  BY <1>1, <3>1
    <2> HIDE DEF s, r, c
    <2>8. r \in Seq(S)
      BY <2>5
    <2>9. r # <<>> /\ Head(r) = Head(clients)
      <3>1. CASE n = 0
        <4>1. s = <<>> /\ c # client /\ r = Append(s, c)
          BY <2>5, <2>7, <3>1
        <4>2. r # <<>> /\ Head(r) = c
          BY <2>5, <4>1
        <4> QED  BY <2>7, <3>1, <4>2
      <3>2. CASE n # 0
        <4>1. s # <<>> /\ Head(s) = Head(clients) /\ s[1] = Head(s)
          BY <2>5, <2>6, <3>2
        <4>2. Append(s, c) # <<>> /\ Head(Append(s, c)) = Head(s)
          BY <2>5, <4>1
        <4> QED  BY <2>5, <4>1, <4>2
      <3> QED  BY <3>1, <3>2
    <2>10. Good(n + 1)
      BY <2>8, <2>9 DEF r
    <2> HIDE DEF Good
    <2> QED  BY <2>4, <2>10
  <1>6. P = 0 .. N
    <2>1. P \in SUBSET (0 .. N)
      OBVIOUS
    <2> HIDE DEF P
    <2> QED  BY <1>1, <1>4, <1>5, <2>1, UpTo
  <1>7. Good(N)
    <2>1. N \in 0 .. N
      BY <1>1
    <2> QED  BY <1>6, <2>1
  <1> QED  BY <1>1, <1>3, <1>7

-----------------------------------------------------------------------------
\* one field of a status is set
LEMMA StatusSet ==
  ASSUME NEW s, StatusOK(s), NEW f \in DOMAIN s, NEW v, f = "enabled" => v \in BOOLEAN
  PROVE  LET r == [s EXCEPT ![f] = v]
         IN StatusOK(r) /\ DOMAIN r = DOMAIN s /\ r[f] = v /\ \A g \in DOMAIN s : g # f => r[g] = s[g]
  <1> DEFINE r == [s EXCEPT ![f] = v]
  <1>1. DOMAIN r = DOMAIN s /\ r[f] = v /\ \A g \in DOMAIN s : g # f => r[g] = s[g]
    BY DEF StatusOK
  <1>2. r = [g \in DOMAIN r |-> r[g]]
    BY DEF StatusOK
  <1> HIDE DEF r
  <1>3. StatusOK(r)
    BY <1>1, <1>2 DEF StatusOK
  <1> QED  BY <1>1, <1>3 DEF r

LEMMA ReadableSet ==
  ASSUME NEW s, StatusOK(s), NEW v
  PROVE  LET r == [s EXCEPT !.get_waveform_fft_state = v]
         IN StatusOK(r) /\ r.enabled = s.enabled /\ r.get_waveform_fft_state = v
  <1> DEFINE r == [s EXCEPT !["get_waveform_fft_state"] = v]
  <1>1. StatusOK(r) /\ r["get_waveform_fft_state"] = v /\ \A g \in DOMAIN s : g # "get_waveform_fft_state" => r[g] = s[g]
    BY StatusSet DEF StatusOK
  <1>2. r["enabled"] = s["enabled"]
    <2> HIDE DEF r
    <2> QED  BY <1>1 DEF StatusOK
  <1> QED  BY <1>1, <1>2

LEMMA AttachedStatus ==
  ASSUME NEW k \in Visualizers, NEW client, StatusOK(status[k])
  PROVE  LET r == onAttach(k, client)
         IN StatusOK(r) /\ r.enabled = status[k].enabled /\ r.get_waveform_fft_state = Pack(r.enabled, client)
  <1> DEFINE r == [status[k] EXCEPT !.get_waveform_fft_state = Pack(status[k].enabled, client)]
  <1>1. onAttach(k, client) = r
    BY DEF onAttach, V!onAttach, HV!onAttach, HV!V!onAttach, Pack, V!PackWaveFftStatus, HV!V!PackWaveFftStatus
  <1>2. StatusOK(r) /\ r.enabled = status[k].enabled /\ r.get_waveform_fft_state = Pack(status[k].enabled, client)
    BY ReadableSet
  <1> HIDE DEF r
  <1> QED  BY <1>1, <1>2

LEMMA DetachedStatus ==
  ASSUME NEW m, m.kind \in Visualizers, NEW active, StatusOK(status[m.kind])
  PROVE  LET s == status[m.kind]
             r == afterDetach(m, active)
         IN /\ StatusOK(r) /\ r.enabled = s.enabled
            /\ r.get_waveform_fft_state = IF s.get_waveform_fft_state.client # m.handle THEN s.get_waveform_fft_state
                                          ELSE Pack(s.enabled, active)
  <1> DEFINE s == status[m.kind]
             r == [s EXCEPT !.get_waveform_fft_state = Pack(s.enabled, active)]
  <1>1. afterDetach(m, active) = IF s.get_waveform_fft_state.client # m.handle THEN s ELSE r
    BY DEF afterDetach, V!afterDetach, HV!afterDetach, HV!V!afterDetach, Pack, V!PackWaveFftStatus, HV!V!PackWaveFftStatus
  <1>2. StatusOK(r) /\ r.enabled = s.enabled /\ r.get_waveform_fft_state = Pack(s.enabled, active)
    BY ReadableSet
  <1> HIDE DEF r
  <1> QED  BY <1>1, <1>2

LEMMA EnabledStatus ==
  ASSUME NEW s, StatusOK(s), NEW enabled \in BOOLEAN, NEW client
  PROVE  LET r == V!enabledChanged(s, enabled, client)
         IN StatusOK(r) /\ r.enabled = enabled /\ r.get_waveform_fft_state = Pack(enabled, client)
  <1> DEFINE q == [s EXCEPT !["enabled"] = enabled]
             r == [q EXCEPT !.get_waveform_fft_state = Pack(enabled, client)]
  <1>1. StatusOK(q) /\ q["enabled"] = enabled
    BY StatusSet DEF StatusOK
  <1>2. V!enabledChanged(s, enabled, client) = r
    BY DEF V!enabledChanged, Pack
  <1> HIDE DEF q
  <1>3. StatusOK(r) /\ r.enabled = enabled /\ r.get_waveform_fft_state = Pack(enabled, client)
    BY <1>1, ReadableSet
  <1> HIDE DEF r
  <1> QED  BY <1>2, <1>3

LEMMA ChangedStatus ==
  ASSUME NEW m, m.kind \in Visualizers, m.arg \in BOOLEAN, StatusOK(status[m.kind])
  PROVE  LET r == enabledChanged(m)
         IN StatusOK(r) /\ r.enabled = m.arg /\ r.get_waveform_fft_state = Pack(m.arg, m.handle)
  <1>1. enabledChanged(m) = V!enabledChanged(status[m.kind], m.arg, m.handle)
    BY DEF enabledChanged, HV!enabledChanged, HV!V!enabledChanged, V!enabledChanged, V!PackWaveFftStatus, HV!V!PackWaveFftStatus
  <1> QED  BY <1>1, EnabledStatus

\* what a capturing module is asked for
LEMMA Traits ==
  ASSUME NEW k, NEW s
  PROVE  "capture_audio_data" \in traits(k, s) <=> s.enabled
  BY DEF traits, V!getExtensionTraits, HV!getExtensionTraits

-----------------------------------------------------------------------------
\* a message to a visualizer: who is told to capture may change with setEnabled only
OwnOK(o) == o \in [status : {o.status}, info : {o.info}] /\ StatusOK(o.status)
Kept(o, r) == r.status.enabled = o.status.enabled /\ r.status.get_waveform_fft_state = o.status.get_waveform_fft_state
Switched(o, r, arg, client) ==
  /\ r.status.enabled = arg /\ o.status.enabled # arg /\ r.status.get_waveform_fft_state = Pack(arg, client)
  /\ r.info = o.info
Handled(o, r, client, what, arg, active) ==
  /\ StatusOK(r.status)
  /\ o.status.enabled => r.info = o.info
  /\ Kept(o, r) \/ (what = "setEnabled" /\ active /\ Switched(o, r, arg, client))

LEMMA OwnStatusSet ==
  ASSUME NEW o, OwnOK(o), NEW s
  PROVE  LET r == [o EXCEPT !.status = s] IN r.status = s /\ r.info = o.info
  BY DEF OwnOK

LEMMA OwnInfoSet ==
  ASSUME NEW o, OwnOK(o), NEW i
  PROVE  LET r == [o EXCEPT !.info = i] IN r.status = o.status /\ r.info = i
  BY DEF OwnOK

\* nothing changes, or a field of the status that is not about control
LEMMA SameHandled ==
  ASSUME NEW o, OwnOK(o), NEW client, NEW what, NEW arg, NEW active
  PROVE  Handled(o, o, client, what, arg, active)
  BY DEF Handled, Kept, OwnOK

LEMMA OtherFieldHandled ==
  ASSUME NEW o, OwnOK(o), NEW f, f \notin {"enabled", "get_waveform_fft_state"}, NEW v,
         NEW client, NEW what, NEW arg, NEW active
  PROVE  Handled(o, [o EXCEPT !.status = [o.status EXCEPT ![f] = v]], client, what, arg, active)
  <1> DEFINE s == o.status
             q == [s EXCEPT ![f] = v]
             r == [o EXCEPT !.status = q]
  <1>1. StatusOK(s) /\ "enabled" \in DOMAIN s /\ "get_waveform_fft_state" \in DOMAIN s
    BY DEF OwnOK, StatusOK
  <1>2. StatusOK(q) /\ q["enabled"] = s["enabled"] /\ q["get_waveform_fft_state"] = s["get_waveform_fft_state"]
    <2>1. CASE f \in DOMAIN s
      BY <1>1, <2>1, StatusSet
    <2>2. CASE f \notin DOMAIN s
      <3> HIDE DEF s
      <3>1. q = s
        BY <1>1, <2>2 DEF StatusOK
      <3> QED  BY <1>1, <3>1
    <2> QED  BY <2>1, <2>2
  <1> HIDE DEF q
  <1>3. r.status = q /\ r.info = o.info
    BY OwnStatusSet
  <1> HIDE DEF r
  <1>4. Handled(o, r, client, what, arg, active)
    BY <1>2, <1>3 DEF Handled, Kept
  <1> QED  BY <1>4 DEF r, q

LEMMA ListenerHandled ==
  ASSUME NEW o, OwnOK(o), ~o.status.enabled, NEW i, NEW client, NEW what, NEW arg, NEW active
  PROVE  Handled(o, [o EXCEPT !.info = i], client, what, arg, active)
  <1> DEFINE r == [o EXCEPT !.info = i]
  <1>1. r.status = o.status
    BY OwnInfoSet
  <1> HIDE DEF r
  <1>2. Handled(o, r, client, what, arg, active)
    BY <1>1 DEF Handled, Kept, OwnOK
  <1> QED  BY <1>2 DEF r

LEMMA SwitchHandled ==
  ASSUME NEW o, OwnOK(o), NEW arg \in BOOLEAN, o.status.enabled # arg, NEW client
  PROVE  Handled(o, [o EXCEPT !.status = V!enabledChanged(o.status, arg, client)], client, "setEnabled", arg, TRUE)
  <1> DEFINE s == o.status
             q == V!enabledChanged(s, arg, client)
             r == [o EXCEPT !.status = q]
  <1>1. StatusOK(q) /\ q.enabled = arg /\ q.get_waveform_fft_state = Pack(arg, client)
    BY EnabledStatus DEF OwnOK
  <1> HIDE DEF q
  <1>2. r.status = q /\ r.info = o.info
    BY OwnStatusSet
  <1> HIDE DEF r
  <1>3. Handled(o, r, client, "setEnabled", arg, TRUE)
    BY <1>1, <1>2 DEF Handled, Switched
  <1> QED  BY <1>3 DEF r, q

-----------------------------------------------------------------------------
LEMMA VisualizerHandles ==
  ASSUME NEW o, OwnOK(o), NEW client, NEW what \in Methods("visualizer") \ V!Direct, NEW arg, NEW active \in BOOLEAN,
         what = "setEnabled" => arg \in BOOLEAN
  PROVE  Handled(o, V!processMessage(o, client, what, arg, active).system, client, what, arg, active)
  <1> DEFINE H(r) == Handled(o, r, client, what, arg, active)
             answer == V!processMessage(o, client, what, arg, active)
  <1>1. H(o)
    BY SameHandled
  <1>2. \A f : f \notin {"enabled", "get_waveform_fft_state"} =>
          \A v : H([o EXCEPT !.status = [o.status EXCEPT ![f] = v]])
    BY OtherFieldHandled
  <1>3. ~o.status.enabled => \A i : H([o EXCEPT !.info = i])
    BY ListenerHandled
  <1>4. CASE what \in V!Getters \/ ~active
    <2>1. answer.system = o
      BY <1>4 DEF V!processMessage, V!answerQuery, V!Answered, V!Success
    <2> HIDE DEF H
    <2> QED  BY <1>1, <2>1 DEF H
  <1>5. CASE what \notin V!Getters /\ active
    <2> DEFINE r == V!change(o, client, what, arg).system
    <2>1. answer.system = r
      BY <1>5 DEF V!processMessage
    <2>2. what \in V!Setters
      BY <1>5 DEF Methods
    <2>3. CASE what = "setEnabled"
      <3>1. CASE o.status.enabled = arg
        <4>1. r = o
          BY <2>3, <3>1 DEF V!change, V!Listeners, V!Success, V!Answered
        <4> HIDE DEF r
        <4> QED  BY <1>1, <2>1, <4>1
      <3>2. CASE o.status.enabled # arg
        <4>1. r = [o EXCEPT !.status = V!enabledChanged(o.status, arg, client)]
          BY <2>3, <3>2 DEF V!change, V!Listeners, V!Success, V!Answered
        <4> HIDE DEF r
        <4>2. active = TRUE
          BY <1>5
        <4>3. Handled(o, r, client, "setEnabled", arg, TRUE)
          BY <2>3, <3>2, <4>1, SwitchHandled
        <4>4. H(r)
          BY <2>3, <4>2, <4>3
        <4> QED  BY <2>1, <4>4
      <3> QED  BY <3>1, <3>2
    <2>4. CASE what = "setCaptureSize"
      <3>1. r = o \/ r = [o EXCEPT !.status = [o.status EXCEPT !["capture_size"] = arg]]
        BY <2>4 DEF V!change, V!Listeners, V!setCaptureSize, V!WhenDisabled, V!Success, V!Answered
      <3> HIDE DEF r, H
      <3>2. H(r)
        BY <1>1, <1>2, <3>1
      <3> QED  BY <2>1, <3>2 DEF H
    <2>5. CASE what = "setMeasurementMode"
      <3>1. r = [o EXCEPT !.status = [o.status EXCEPT !["measurement_mode"] = arg]]
        BY <2>5 DEF V!change, V!Listeners, V!Success, V!Answered
      <3> HIDE DEF r, H
      <3>2. H(r)
        BY <1>2, <3>1
      <3> QED  BY <2>1, <3>2 DEF H
    <2>6. CASE what = "setScalingMode"
      <3>1. r = [o EXCEPT !.status = [o.status EXCEPT !["scaling_mode"] = arg]]
        BY <2>6 DEF V!change, V!Listeners, V!Success, V!Answered
      <3> HIDE DEF r, H
      <3>2. H(r)
        BY <1>2, <3>1
      <3> QED  BY <2>1, <3>2 DEF H
    <2>7. CASE what \in V!Listeners
      <3>1. r = o \/ (~o.status.enabled /\ \E i : r = [o EXCEPT !.info = i])
        <4>1. what \notin {"setEnabled", "setCaptureSize", "setMeasurementMode", "setScalingMode"}
          BY <2>7 DEF V!Listeners
        <4>2. r = V!WhenDisabled(o, V!Success([o EXCEPT !.info = V!setListener(o.info, what, arg)], NULL)).system
          BY <2>7, <4>1 DEF V!change
        <4>3. CASE o.status.enabled
          BY <4>2, <4>3 DEF V!WhenDisabled, V!Answered
        <4>4. CASE ~o.status.enabled
          BY <4>2, <4>4 DEF V!WhenDisabled, V!Answered, V!Success
        <4> QED  BY <4>3, <4>4
      <3> HIDE DEF r, H
      <3>2. H(r)
        BY <1>1, <1>3, <3>1
      <3> QED  BY <2>1, <3>2 DEF H
    <2> HIDE DEF r, H, answer
    <2> QED  BY <2>2, <2>3, <2>4, <2>5, <2>6, <2>7 DEF V!Setters, H, answer
  <1> QED  BY <1>4, <1>5

LEMMA HQVisualizerHandles ==
  ASSUME NEW o, OwnOK(o), NEW client, NEW what \in Methods("hqvisualizer"), NEW arg, NEW active \in BOOLEAN,
         what = "setEnabled" => arg \in BOOLEAN
  PROVE  Handled(o, HV!processMessage(o, client, what, arg, active).system, client, what, arg, active)
  <1> DEFINE H(r) == Handled(o, r, client, what, arg, active)
             answer == HV!processMessage(o, client, what, arg, active)
  <1>1. H(o)
    BY SameHandled
  <1>2. \A f : f \notin {"enabled", "get_waveform_fft_state"} =>
          \A v : H([o EXCEPT !.status = [o.status EXCEPT ![f] = v]])
    BY OtherFieldHandled
  <1>3. ~o.status.enabled => \A i : H([o EXCEPT !.info = i])
    BY ListenerHandled
  <1>4. CASE what \in HV!Getters
    <2>1. answer.system = o
      BY <1>4 DEF HV!processMessage, HV!Getters, HV!Answered, HV!Success
    <2> HIDE DEF H
    <2> QED  BY <1>1, <2>1 DEF H
  <1>5. CASE what = "setWindowFunction"
    <2> DEFINE r == answer.system
    <2>1. r = o \/ r = [o EXCEPT !.status = [o.status EXCEPT !["window_type"] = arg]]
      BY <1>5 DEF HV!processMessage, HV!setWindowFunction, HV!Answered, HV!Success, HV!Getters
    <2> HIDE DEF r, H
    <2>2. H(r)
      BY <1>1, <1>2, <2>1
    <2> QED  BY <2>2 DEF r, H
  <1>6. CASE what \notin HV!Getters /\ what # "setWindowFunction" /\ ~active
    <2>1. answer.system = o
      BY <1>6 DEF HV!processMessage, HV!Answered
    <2> HIDE DEF H
    <2> QED  BY <1>1, <2>1 DEF H
  <1>7. CASE what \notin HV!Getters /\ what # "setWindowFunction" /\ active
    <2> DEFINE r == HV!change(o, client, what, arg).system
    <2>1. answer.system = r
      BY <1>7 DEF HV!processMessage
    <2>2. what \in HV!Setters
      BY <1>7 DEF Methods
    <2>3. CASE what = "setEnabled"
      <3>1. CASE o.status.enabled = arg
        <4>1. r = o
          BY <2>3, <3>1 DEF HV!change, HV!V!change, HV!V!Listeners, HV!V!Success, HV!V!Answered
        <4> HIDE DEF r
        <4> QED  BY <1>1, <2>1, <4>1
      <3>2. CASE o.status.enabled # arg
        <4>1. r = [o EXCEPT !.status = V!enabledChanged(o.status, arg, client)]
          BY <2>3, <3>2 DEF HV!change, HV!V!change, HV!V!Listeners, HV!V!Success, HV!V!Answered, HV!V!enabledChanged, V!enabledChanged,
                            HV!V!PackWaveFftStatus, V!PackWaveFftStatus
        <4> HIDE DEF r
        <4>2. active = TRUE
          BY <1>7
        <4>3. Handled(o, r, client, "setEnabled", arg, TRUE)
          BY <2>3, <3>2, <4>1, SwitchHandled
        <4>4. H(r)
          BY <2>3, <4>2, <4>3
        <4> QED  BY <2>1, <4>4
      <3> QED  BY <3>1, <3>2
    <2>4. CASE what = "setCaptureSize"
      <3>1. r = o \/ r = [o EXCEPT !.status = [o.status EXCEPT !["capture_size"] = arg]]
        BY <2>4 DEF HV!change, HV!setCaptureSize, HV!V!WhenDisabled, HV!Success, HV!Answered, HV!V!Answered
      <3> HIDE DEF r, H
      <3>2. H(r)
        BY <1>1, <1>2, <3>1
      <3> QED  BY <2>1, <3>2 DEF H
    <2>5. CASE what \in HV!Listeners
      <3>1. r = o \/ (~o.status.enabled /\ \E i : r = [o EXCEPT !.info = i])
        <4>1. what \notin {"setEnabled", "setCaptureSize", "setMeasurementMode", "setScalingMode"} /\ what \in HV!V!Listeners
          BY <2>5 DEF HV!Listeners, HV!V!Listeners
        <4>2. r = HV!V!WhenDisabled(o, HV!V!Success([o EXCEPT !.info = HV!V!setListener(o.info, what, arg)], NULL)).system
          BY <4>1 DEF HV!change, HV!V!change
        <4>3. CASE o.status.enabled
          BY <4>2, <4>3 DEF HV!V!WhenDisabled, HV!V!Answered
        <4>4. CASE ~o.status.enabled
          BY <4>2, <4>4 DEF HV!V!WhenDisabled, HV!V!Answered, HV!V!Success
        <4> QED  BY <4>3, <4>4
      <3> HIDE DEF r, H
      <3>2. H(r)
        BY <1>1, <1>3, <3>1
      <3> QED  BY <2>1, <3>2 DEF H
    <2> HIDE DEF r, H, answer
    <2> QED  BY <1>7, <2>2, <2>3, <2>4, <2>5 DEF HV!Setters, H, answer
  <1> QED  BY <1>4, <1>5, <1>6, <1>7

LEMMA MessageHandles ==
  ASSUME NEW m, m.kind \in Visualizers, ~Direct(m), m.what \in Methods(m.kind), m.what = "setEnabled" => m.arg \in BOOLEAN,
         StatusOK(status[m.kind])
  PROVE  Handled(own(m), processVisualizerMessage(m).system, m.handle, m.what, m.arg, is_active(m))
  <1> DEFINE o == own(m)
  <1>1. o = [status |-> status[m.kind], info |-> infos[m.handle]]
    BY DEF own
  <1> HIDE DEF o
  <1>2. OwnOK(o)
    BY <1>1 DEF OwnOK
  <1>3. is_active(m) \in BOOLEAN
    BY DEF is_active, checkIsClientActive
  <1>4. CASE m.kind = "visualizer"
    <2>1. m.what \in Methods("visualizer") \ V!Direct
      BY <1>4 DEF Direct
    <2>2. processVisualizerMessage(m) = V!processMessage(o, m.handle, m.what, m.arg, is_active(m))
      BY <1>4 DEF processVisualizerMessage, o
    <2> QED  BY <1>2, <1>3, <2>1, <2>2, VisualizerHandles DEF o
  <1>5. CASE m.kind = "hqvisualizer"
    <2>1. m.what \in Methods("hqvisualizer")
      BY <1>5
    <2>2. processVisualizerMessage(m) = HV!processMessage(o, m.handle, m.what, m.arg, is_active(m))
      BY <1>5 DEF processVisualizerMessage, o
    <2> QED  BY <1>2, <1>3, <2>1, <2>2, HQVisualizerHandles DEF o
  <1> QED  BY <1>4, <1>5 DEF Visualizers

-----------------------------------------------------------------------------
\* nobody's client but its module's
LEMMA InOwnQueue ==
  ASSUME Protocol, NEW h \in Handles, handles[h] # NULL, NEW k \in Kinds, h \in Members(slots[k].client_queue)
  PROVE  handles[h].kind = k
  <1>1. Joined(h, k) /\ CallsInv
    BY DEF Protocol, SlotsInv
  <1>2. \A t \in Threads : ~Entered(calls[t], h, k)
    BY <1>1 DEF CallsInv, CallAgrees, Entered, Given
  <1> QED  BY <1>1, <1>2 DEF Joined

\* the first client is one of them
LEMMA ActiveIsClient ==
  ASSUME Protocol, NEW k \in Kinds, slots[k].installed
  PROVE  /\ slots[k].client_queue \in Seq(Handles) /\ slots[k].client_queue # <<>> /\ OnceEach(slots[k].client_queue)
         /\ Active(k) \in Handles /\ Active(k) \in Members(slots[k].client_queue)
  <1> DEFINE q == slots[k].client_queue
  <1>1. q \in Seq(Handles) /\ q # <<>> /\ OnceEach(q)
    BY DEF Protocol, TypeOK, SlotsInv, SlotSound, SlotRecords
  <1> HIDE DEF q
  <1>2. Head(q) = q[1] /\ 1 \in DOMAIN q /\ q[1] \in Handles
    BY <1>1
  <1> QED  BY <1>1, <1>2 DEF Active, Members, q

\* what a step leaves alone
LEMMA SettledStays ==
  ASSUME Protocol, NEW k \in Visualizers, Settled(k), slots'[k] = slots[k], status'[k] = status[k],
         k \in acap' <=> k \in acap, capture'[k] = capture[k], timed_out => timed_out',
         slots[k].installed => (preparedForCapturing(Active(k))' => preparedForCapturing(Active(k)))
  PROVE  Settled(k)'
  BY DEF Settled, On, Active, Readable

\* the message that is handled stays the same while others are posted and answers are fetched
LEMMA SameMessage ==
  ASSUME Protocol, queue # <<>>, NEW t \in Threads, calls[t].phase # "posted",
         \A u \in Threads \ {t} : calls'[u] = calls[u], queue' = queue \/ queue' = Append(queue, t)
  PROVE  message' = message /\ queue' # <<>>
  <1>1. queue \in Seq(Threads) /\ Head(queue) \in Threads /\ Head(queue) # t
    BY HeadOfQueue DEF Protocol, TypeOK, message
  <1>2. Head(queue') = Head(queue) /\ queue' # <<>>
    BY <1>1
  <1> QED  BY <1>1, <1>2 DEF message

LEMMA FollowingStays ==
  ASSUME Protocol, NEW k \in Visualizers, Following(k), handler' = handler, handler # "idle" => message' = message,
         slots' = slots, status' = status, acap' = acap, capture' = capture, timed_out' = timed_out,
         slots[k].installed => (preparedForCapturing(Active(k))' => preparedForCapturing(Active(k)))
  PROVE  Following(k)'
  <1>1. CASE handler # "idle" /\ k = message.kind
    BY <1>1 DEF Following, Waits, Readable, Active
  <1>2. CASE ~(handler # "idle" /\ k = message.kind)
    BY <1>2, SettledStays DEF Following
  <1> QED  BY <1>1, <1>2

\* a call begins
LEMMA CallFollows ==
  ASSUME Protocol, ControlInv, NEW t \in Threads, calls[t] = Idle, NEW call, calls' = [calls EXCEPT ![t] = call],
         call.phase = "posted" => ~Direct(call), queue' = queue \/ queue' = Append(queue, t),
         UNCHANGED <<moduleVars, handles, handler, threadVars>>
  PROVE  ControlInv'
  <1>1. /\ UNCHANGED <<slots, acap, infos, status, handles, handler, capture, timed_out>>
        /\ calls[t].phase # "posted"
    BY DEF moduleVars, threadVars, Idle
  <1>2. \A u \in Threads : calls'[u] = IF u = t THEN call ELSE calls[u]
    BY DEF Protocol, TypeOK
  <1>3. handler # "idle" => message' = message
    BY <1>1, <1>2, SameMessage DEF Protocol, HandlerInv
  <1>4. ASSUME NEW k \in Visualizers PROVE Following(k)'
    <2>1. Following(k) /\ (preparedForCapturing(Active(k))' => preparedForCapturing(Active(k)))
      BY <1>1 DEF ControlInv, preparedForCapturing, Active
    <2> QED  BY <1>1, <1>3, <2>1, FollowingStays
  <1>5. /\ status' = [k \in Visualizers |-> status'[k]] /\ \A k \in Visualizers : StatusOK(status'[k])
        /\ infos' = [h \in Handles |-> infos'[h]] /\ timed_out' \in BOOLEAN
        /\ \A h \in Handles : handles'[h] = NULL => ~preparedForCapturing(h)'
    BY <1>1 DEF ControlInv, preparedForCapturing
  <1>6. \A u \in Threads : calls'[u].phase = "posted" => ~Direct(calls'[u])
    BY <1>2 DEF ControlInv
  <1> QED  BY <1>4, <1>5, <1>6 DEF ControlInv, Direct

LEMMA CallsFollow ==
  ASSUME Protocol, ControlInv, NEW t \in Threads, NEW h \in Handles,
         \/ \E kind \in scenario : Create(t, h, kind)
         \/ Destroy(t, h)
         \/ handles[h] # NULL /\ \E what \in Asked(scenario, handles[h].kind) :
              \E arg \in Legal(handles[h].kind, what) \cup Illegal(handles[h].kind, what) : Use(t, h, what, arg)
  PROVE  ControlInv'
  <1>1. ASSUME NEW kind, NEW what \in {"create", "destroy"}, NEW call, NEW result,
               call = Call(h, kind, what, NULL) \/ call = Replied(Call(h, kind, what, NULL), result, NULL)
        PROVE  call.phase = "posted" => ~Direct(call)
    <2> DEFINE c == Call(h, kind, what, NULL)
               r == Replied(c, result, NULL)
    <2>1. c.what = what
      BY DEF Call
    <2>2. r.phase = "replied"
      BY DEF Replied, Call
    <2>3. what \notin V!Direct
      BY DEF V!Direct
    <2> HIDE DEF c, r
    <2>4. call = c \/ call = r
      BY <1>1 DEF c, r
    <2> QED  BY <2>1, <2>2, <2>3, <2>4 DEF Direct
  <1>2. CASE \E kind \in scenario : Create(t, h, kind)
    <2>1. PICK kind \in scenario : Create(t, h, kind)
      BY <1>2
    <2>2. PICK call : /\ call = Call(h, kind, "create", NULL) \/ call = Replied(Call(h, kind, "create", NULL), "dead_object", NULL)
                      /\ calls' = [calls EXCEPT ![t] = call]
                      /\ queue' = queue \/ queue' = Append(queue, t)
      BY <2>1 DEF Create, post
    <2>3. calls[t] = Idle /\ UNCHANGED <<moduleVars, handles, handler, threadVars>>
      BY <2>1 DEF Create
    <2> QED  BY <1>1, <2>2, <2>3, CallFollows
  <1>3. CASE Destroy(t, h)
    <2>1. PICK kind : kind = handles[h].kind
      OBVIOUS
    <2>2. PICK call : /\ call = Call(h, kind, "destroy", NULL) \/ call = Replied(Call(h, kind, "destroy", NULL), "dead_object", NULL)
                      /\ calls' = [calls EXCEPT ![t] = call]
                      /\ queue' = queue \/ queue' = Append(queue, t)
      BY <1>3, <2>1 DEF Destroy, post
    <2>3. calls[t] = Idle /\ UNCHANGED <<moduleVars, handles, handler, threadVars>>
      BY <1>3 DEF Destroy
    <2> QED  BY <1>1, <2>2, <2>3, CallFollows
  <1>4. ASSUME handles[h] # NULL, NEW what, NEW arg, Use(t, h, what, arg) PROVE ControlInv'
    <2>1. PICK kind : kind = handles[h].kind
      OBVIOUS
    <2> DEFINE call == Call(h, kind, what, arg)
               outcome == posting(h, what, arg)
               refused == Replied(call, outcome, NULL)
    <2>2. /\ calls[t] = Idle /\ UNCHANGED <<moduleVars, handles, handler, threadVars>>
          /\ \/ outcome = "posted" /\ calls' = [calls EXCEPT ![t] = call] /\ queue' = Append(queue, t)
             \/ calls' = [calls EXCEPT ![t] = refused] /\ queue' = queue
      BY <1>4, <2>1 DEF Use, post
    <2>3. refused.phase = "replied"
      BY DEF Replied, Call
    <2>4. outcome = "posted" => ~Direct(call)
      <3> SUFFICES ASSUME outcome = "posted", kind = "visualizer", what \in V!Direct PROVE FALSE
        BY DEF Direct, Call
      <3>1. outcome = V!posting(handles[h].has_module, status[kind], h, what, arg)
        BY <2>1 DEF posting
      <3> QED  BY <3>1 DEF V!posting, V!getWaveForm
    <2> HIDE DEF call, outcome, refused
    <2> QED  BY <2>2, <2>3, <2>4, CallFollows
  <1> QED  BY <1>2, <1>3, <1>4

\* a call returns
LEMMA ReturnFollows ==
  ASSUME Protocol, ControlInv, NEW t \in Threads, Return(t)
  PROVE  ControlInv'
  <1> DEFINE c == calls[t]
  <1>1. /\ c.phase = "replied" /\ Made(c) /\ CallTyped(c) /\ CallAgrees(c) /\ c.handle \in Handles
    <2>1. c.phase = "replied" /\ Made(c)
      BY DEF Return, Made
    <2>2. CallTyped(c) /\ CallAgrees(c)
      BY <2>1 DEF Protocol, TypeOK, CallsInv
    <2> QED  BY <2>1, <2>2 DEF CallTyped
  <1>2. UNCHANGED <<slots, acap, status, queue, handler, capture, timed_out>> /\ calls' = [calls EXCEPT ![t] = Idle]
    BY DEF Return, threadVars
  <1>3. \A u \in Threads : calls'[u] = IF u = t THEN Idle ELSE calls[u]
    BY <1>2 DEF Protocol, TypeOK
  <1>4. infos' = infos \/ (c.what = "destroy" /\ infos' = [infos EXCEPT ![c.handle] = V!ClientInfo])
    BY DEF Return
  <1>5. handler # "idle" => message' = message
    BY <1>1, <1>2, <1>3, SameMessage DEF Protocol, HandlerInv
  <1>6. \A h \in Handles : infos'[h] = infos[h] \/ ~V!preparedForCapturing(infos'[h])
    <2>1. ~V!preparedForCapturing(V!ClientInfo)
      BY DEF V!preparedForCapturing, V!ClientInfo
    <2>2. infos = [h \in Handles |-> infos[h]]
      BY DEF ControlInv
    <2> DEFINE i == V!ClientInfo
               g == c.handle
    <2>3. infos' = infos \/ infos' = [infos EXCEPT ![g] = i]
      BY <1>4
    <2> HIDE DEF i, g
    <2>4. \A h \in Handles : infos'[h] = infos[h] \/ infos'[h] = i
      BY <2>2, <2>3
    <2> QED  BY <2>1, <2>4 DEF i
  <1>7. infos' = [h \in Handles |-> infos'[h]]
    BY <1>4 DEF ControlInv
  <1>8. ASSUME NEW k \in Visualizers PROVE Following(k)'
    <2>1. Following(k) /\ (slots[k].installed => (preparedForCapturing(Active(k))' => preparedForCapturing(Active(k))))
      <3>1. slots[k].installed => Active(k) \in Handles
        BY ActiveIsClient DEF Kinds
      <3>2. Active(k)' = Active(k)
        BY <1>2 DEF Active
      <3> QED  BY <1>6, <3>1, <3>2 DEF ControlInv, preparedForCapturing
    <2> QED  BY <1>2, <1>5, <2>1, FollowingStays
  <1>9. ASSUME NEW h \in Handles, handles'[h] = NULL PROVE ~preparedForCapturing(h)'
    <2>1. CASE handles[h] = NULL
      BY <1>6, <2>1 DEF ControlInv, preparedForCapturing
    <2>2. CASE handles[h] # NULL
      <3>1. c.what \in {"create", "destroy"} /\ h = c.handle
        BY <1>1, <1>9, <2>2 DEF Return, Protocol, TypeOK
      <3>2. c.what = "destroy"
        BY <1>1, <2>2, <3>1 DEF CallAgrees
      <3>3. infos'[h] = V!ClientInfo
        BY <1>1, <3>1, <3>2 DEF Return, ControlInv
      <3> QED  BY <3>3 DEF preparedForCapturing, V!preparedForCapturing, V!ClientInfo
    <2> QED  BY <2>1, <2>2
  <1>10. \A u \in Threads : calls'[u].phase = "posted" => ~Direct(calls'[u])
    BY <1>3 DEF ControlInv, Idle
  <1>11. /\ status' = [k \in Visualizers |-> status'[k]] /\ (\A k \in Visualizers : StatusOK(status'[k]))
         /\ timed_out' \in BOOLEAN
    BY <1>2 DEF ControlInv
  <1> QED  BY <1>7, <1>8, <1>9, <1>10, <1>11 DEF ControlInv, Direct

-----------------------------------------------------------------------------
\* a step of the handler thread about one module: the others go on as they are
LEMMA CapturesKept ==
  ASSUME Protocol, ControlInv, queue # <<>>, NEW kind \in Kinds, kind = message.kind, handles' = handles,
         \/ handler' = "idle" /\ \E result, value : reply(result, value)
         \/ handler' # "idle" /\ UNCHANGED <<calls, queue>>,
         \A k \in Visualizers \ {kind} :
           slots'[k] = slots[k] /\ status'[k] = status[k] /\ (k \in acap' <=> k \in acap) /\ capture'[k] = capture[k],
         status' = status \/ (kind \in Visualizers /\ \E s : StatusOK(s) /\ status' = [status EXCEPT ![kind] = s]),
         infos' = infos \/ (message.what # "create" /\ \E i : infos' = [infos EXCEPT ![message.handle] = i]),
         timed_out => timed_out', timed_out' \in BOOLEAN,
         kind \in Visualizers => IF handler' = "idle" THEN Settled(kind)' ELSE Waits(kind)'
  PROVE  ControlInv'
  <1>1. message.handle \in Handles /\ CallAgrees(message) /\ Head(queue) \in Threads
    BY HeadOfQueue
  <1>2. message.what # "create" => handles[message.handle] # NULL /\ handles[message.handle].kind = kind
    BY <1>1 DEF CallAgrees
  <1>3. status' = [k \in Visualizers |-> status'[k]] /\ \A k \in Visualizers : StatusOK(status'[k])
    <2>1. CASE status' = status
      BY <2>1 DEF ControlInv
    <2>2. CASE kind \in Visualizers /\ \E s : StatusOK(s) /\ status' = [status EXCEPT ![kind] = s]
      <3>1. PICK s : StatusOK(s) /\ status' = [status EXCEPT ![kind] = s]
        BY <2>2
      <3>2. status = [k \in Visualizers |-> status[k]] /\ \A k \in Visualizers : StatusOK(status[k])
        BY DEF ControlInv
      <3>3. status' = [k \in Visualizers |-> IF k = kind THEN s ELSE status[k]]
        BY <3>1, <3>2
      <3> QED  BY <3>1, <3>2, <3>3
    <2> QED  BY <2>1, <2>2
  <1>4. /\ infos' = [h \in Handles |-> infos'[h]]
        /\ \A h \in Handles : infos'[h] = infos[h] \/ (message.what # "create" /\ h = message.handle)
    <2>1. infos = [h \in Handles |-> infos[h]]
      BY DEF ControlInv
    <2>2. CASE infos' = infos
      BY <2>1, <2>2
    <2>3. CASE message.what # "create" /\ \E i : infos' = [infos EXCEPT ![message.handle] = i]
      <3>1. PICK i : infos' = [infos EXCEPT ![message.handle] = i]
        BY <2>3
      <3> QED  BY <2>1, <2>3, <3>1
    <2> QED  BY <2>2, <2>3
  <1>5. \A h \in Handles : handles'[h] = NULL => ~preparedForCapturing(h)'
    BY <1>2, <1>4 DEF ControlInv, preparedForCapturing
  <1>6. \A u \in Threads : calls'[u].phase = "posted" => ~Direct(calls'[u])
    <2>1. CASE UNCHANGED <<calls, queue>>
      BY <2>1 DEF ControlInv
    <2>2. CASE \E result, value : reply(result, value)
      <3>1. PICK result, value : reply(result, value)
        BY <2>2
      <3>2. PICK m : m = message
        OBVIOUS
      <3>3. CallTyped(m) /\ Made(m)
        BY <3>2, HeadOfQueue
      <3> DEFINE r == Replied(m, result, value)
      <3>4. r.phase = "replied"
        BY <3>3, RepliedCall
      <3>5. calls' = [calls EXCEPT ![Head(queue)] = r]
        BY <3>1, <3>2 DEF reply, message
      <3> HIDE DEF r
      <3>6. calls = [u \in Threads |-> calls[u]]
        BY DEF Protocol, TypeOK
      <3>7. \A u \in Threads : calls'[u] = IF u = Head(queue) THEN r ELSE calls[u]
        BY <3>5, <3>6
      <3> QED  BY <3>4, <3>7 DEF ControlInv
    <2> QED  BY <2>1, <2>2
  <1>7. ASSUME NEW k \in Visualizers, k # kind PROVE Following(k)'
    <2>1. Settled(k)
      BY <1>7 DEF ControlInv, Following
    <2>2. slots[k].installed => infos'[Active(k)] = infos[Active(k)]
      <3> SUFFICES ASSUME slots[k].installed PROVE infos'[Active(k)] = infos[Active(k)]
        OBVIOUS
      <3>1. k \in Kinds
        BY DEF Kinds
      <3>2. Active(k) \in Handles /\ Active(k) \in Members(slots[k].client_queue)
        BY <3>1, ActiveIsClient
      <3>3. handles[Active(k)] # NULL => handles[Active(k)].kind = k
        BY <3>1, <3>2, InOwnQueue
      <3> QED  BY <1>2, <1>4, <1>7, <3>2, <3>3
    <2>3. slots[k].installed => (preparedForCapturing(Active(k))' => preparedForCapturing(Active(k)))
      <3>1. Active(k)' = Active(k)
        BY <1>7 DEF Active
      <3> QED  BY <2>2, <3>1 DEF preparedForCapturing
    <2>4. Settled(k)'
      <3>1. slots'[k] = slots[k] /\ status'[k] = status[k] /\ (k \in acap' <=> k \in acap) /\ capture'[k] = capture[k]
        BY <1>7
      <3> QED  BY <2>1, <2>3, <3>1, SettledStays
    <2>5. handler' # "idle" => message' = message
      BY DEF message
    <2> QED  BY <1>7, <2>4, <2>5 DEF Following
  <1>8. ASSUME kind \in Visualizers PROVE Following(kind)'
    <2>1. handler' # "idle" => message' = message
      BY DEF message
    <2> QED  BY <1>8, <2>1 DEF Following
  <1> QED  BY <1>3, <1>4, <1>5, <1>6, <1>7, <1>8 DEF ControlInv, Direct

\* what is not asked of a visualizer
LEMMA EffectsFollow ==
  ASSUME Protocol, ControlInv, queue # <<>>, NEW kind \in Kinds \ Visualizers, kind = message.kind,
         \E result, value : reply(result, value),
         \A k \in Visualizers : slots'[k] = slots[k] /\ (k \in acap' <=> k \in acap),
         UNCHANGED <<status, infos, handles, capture, timed_out>>
  PROVE  ControlInv'
  <1>1. handler' = "idle" /\ timed_out' \in BOOLEAN
    BY DEF reply, ControlInv
  <1> QED  BY <1>1, CapturesKept

LEMMA VisualizerNamed == Visualizers \subseteq Kinds
  BY DEF Kinds

\* the first client of a visualizer, or one more, who has no listener yet
LEMMA AttachFollows ==
  ASSUME Protocol, Quiet, ControlInv, handleExtAttachOrInstall
  PROVE  ControlInv'
  <1>a. PICK m : m = message
    OBVIOUS
  <1>b. PICK kind, h, slot : kind = m.kind /\ h = m.handle /\ slot = slots[kind]
    OBVIOUS
  <1>1. /\ handler = "idle" /\ queue # <<>> /\ m.what = "create" /\ UNCHANGED <<infos, handles, capture, timed_out>>
        /\ internalExtAttach(m) \/ internalExtInstall(m)
    BY <1>a DEF handleExtAttachOrInstall, threadVars
  <1>2. /\ kind \in Kinds /\ h \in Handles /\ slot \in SlotRecords /\ handles[h] = NULL
        /\ slots = [k \in Kinds |-> slots[k]]
    BY <1>a, <1>b, <1>1, HeadOfQueue DEF Protocol, TypeOK, CallAgrees
  <1>3. /\ timed_out \in BOOLEAN /\ status = [k \in Visualizers |-> status[k]] /\ ~preparedForCapturing(h)
        /\ \A k \in Visualizers : StatusOK(status[k]) /\ Settled(k)
    BY <1>1, <1>2 DEF ControlInv, Following
  <1>4. ASSUME NEW s, NEW new, UNCHANGED acap, kind \in Visualizers => StatusOK(new),
               slots' = [slots EXCEPT ![kind] = s],
               status' = IF kind \in Visualizers THEN [status EXCEPT ![kind] = new] ELSE status,
               kind \in Visualizers => Settled(kind)', reply("success", NULL)
        PROVE  ControlInv'
    <2>1. \A k \in Visualizers \ {kind} :
            slots'[k] = slots[k] /\ status'[k] = status[k] /\ (k \in acap' <=> k \in acap) /\ capture'[k] = capture[k]
      BY <1>1, <1>2, <1>3, <1>4, VisualizerNamed
    <2>2. status' = status \/ (kind \in Visualizers /\ \E o : StatusOK(o) /\ status' = [status EXCEPT ![kind] = o])
      BY <1>4
    <2>3. handler' = "idle" /\ \E result, value : reply(result, value)
      BY <1>4 DEF reply
    <2> QED  BY <1>a, <1>b, <1>1, <1>2, <1>3, <1>4, <2>1, <2>2, <2>3, CapturesKept
  <1>5. CASE internalExtAttach(m)
    <2> DEFINE s == attach(slot, h)
               new == onAttach(kind, h)
    <2>1. /\ slot.installed /\ slots' = [slots EXCEPT ![kind] = s] /\ reply("success", NULL) /\ acap' = acap
          /\ status' = IF kind \in Visualizers THEN [status EXCEPT ![kind] = new] ELSE status
      BY <1>b, <1>5, <1>2 DEF internalExtAttach
    <2>2. s.installed /\ Head(s.client_queue) = h
      <3> DEFINE q == handleOnAttach(slot.client_queue, h)
      <3>1. slot.client_queue \in Seq(Handles)
        BY <1>2 DEF SlotRecords
      <3>2. Head(q) = h
        BY <1>2, <3>1 DEF handleOnAttach
      <3>3. s.installed = slot.installed /\ s.client_queue = q
        <4> HIDE DEF q
        <4> QED  BY <1>2 DEF attach, SlotRecords, q
      <3> QED  BY <2>1, <3>2, <3>3
    <2>3. ASSUME kind \in Visualizers PROVE StatusOK(new) /\ new.enabled = status[kind].enabled
                                            /\ new.get_waveform_fft_state = Pack(new.enabled, h)
      BY <1>3, <2>3, AttachedStatus
    <2> HIDE DEF s, new
    <2>4. ASSUME kind \in Visualizers PROVE Settled(kind)'
      <3>1. slots'[kind] = s /\ status'[kind] = new /\ capture'[kind] = capture[kind]
        BY <1>1, <1>2, <1>3, <2>1, <2>4
      <3>2. Active(kind)' = h
        BY <2>2, <3>1 DEF Active
      <3>3. (On(kind)' <=> On(kind)) /\ slot.installed
        BY <1>b, <2>1, <2>2, <2>3, <2>4, <3>1 DEF On
      <3>4. ~preparedForCapturing(Active(kind))'
        BY <1>1, <1>3, <3>2 DEF preparedForCapturing
      <3>5. Readable(kind)'
        BY <2>3, <2>4, <3>1, <3>2 DEF Readable
      <3>6. Settled(kind)
        BY <1>3, <2>4
      <3> QED  BY <2>1, <3>1, <3>3, <3>4, <3>5, <3>6 DEF Settled
    <2> QED  BY <1>4, <2>1, <2>3, <2>4
  <1>6. CASE internalExtInstall(m)
    <2>1. CASE kind \in NeedsInterface \ supported
      <3>1. reply("error", NULL) /\ UNCHANGED <<slots, acap, status>>
        BY <1>b, <1>6, <2>1 DEF internalExtInstall
      <3>2. kind \in Kinds \ Visualizers
        BY <1>2, <2>1 DEF NeedsInterface, Visualizers
      <3> QED  BY <1>a, <1>b, <1>1, <3>1, <3>2, EffectsFollow
    <2>2. CASE kind \notin NeedsInterface \ supported
      <3> DEFINE s == [installed |-> TRUE, num_attached |-> 1, client_queue |-> handleOnInstall(h)]
                 new == newStatus(kind)
      <3>1. /\ ~slot.installed /\ slots' = [slots EXCEPT ![kind] = s] /\ reply("success", NULL)
            /\ status' = IF kind \in Visualizers THEN [status EXCEPT ![kind] = new] ELSE status
            /\ IF kind \in Visualizers THEN acap' = (IF "capture_audio_data" \in traits(kind, new) THEN acap \cup {kind} ELSE acap \ {kind})
               ELSE acap' = acap
        BY <1>b, <1>6, <2>2 DEF internalExtInstall, processAfterExtensionTraitsChanged
      <3>2. s.installed = TRUE
        OBVIOUS
      <3>3. StatusOK(new) /\ ~new.enabled /\ new.get_waveform_fft_state = Pack(FALSE, NULL)
        <4>1. PICK a : a = V!VisualizerStatus
          OBVIOUS
        <4>2. PICK b : b = HV!HQVisualizerStatus
          OBVIOUS
        <4>3. /\ a.enabled = FALSE /\ {"enabled", "get_waveform_fft_state"} \subseteq DOMAIN a /\ a = [f \in DOMAIN a |-> a[f]]
              /\ a.get_waveform_fft_state = Pack(FALSE, NULL)
          BY <4>1 DEF V!VisualizerStatus, Pack
        <4>4. /\ b.enabled = FALSE /\ {"enabled", "get_waveform_fft_state"} \subseteq DOMAIN b /\ b = [f \in DOMAIN b |-> b[f]]
              /\ b.get_waveform_fft_state = Pack(FALSE, NULL)
          BY <4>2 DEF HV!HQVisualizerStatus, HV!V!PackWaveFftStatus, V!PackWaveFftStatus, Pack
        <4>5. new = a \/ new = b
          BY <4>1, <4>2 DEF newStatus
        <4> HIDE DEF new
        <4> QED  BY <4>3, <4>4, <4>5 DEF StatusOK
      <3> HIDE DEF s, new
      <3>4. kind \in Visualizers => kind \notin acap /\ capture[kind].state = "none"
        BY <1>b, <1>3, <3>1 DEF Settled, On
      <3>5. acap' = acap
        BY <3>1, <3>3, <3>4, Traits
      <3>6. ASSUME kind \in Visualizers PROVE Settled(kind)'
        <4>1. slots'[kind] = s /\ status'[kind] = new /\ capture'[kind] = capture[kind]
          BY <1>1, <1>2, <1>3, <3>1, <3>6
        <4>2. ~On(kind)' /\ Readable(kind)'
          BY <3>3, <4>1 DEF On, Readable
        <4> QED  BY <3>4, <3>5, <3>6, <4>1, <4>2 DEF Settled
      <3> QED  BY <1>4, <3>1, <3>3, <3>5, <3>6
    <2> QED  BY <2>1, <2>2
  <1> QED  BY <1>1, <1>5, <1>6

-----------------------------------------------------------------------------
\* the last client leaves
LEMMA UninstallFollows ==
  ASSUME Protocol, Quiet, ControlInv, queue # <<>>, finishUninstall(message), UNCHANGED <<infos, handles, timed_out>>
  PROVE  ControlInv'
  <1>a. PICK kind : kind = message.kind
    OBVIOUS
  <1>1. kind \in Kinds /\ slots = [k \in Kinds |-> slots[k]] /\ capture = [k \in Visualizers |-> capture[k]]
    BY <1>a, HeadOfQueue DEF Protocol, TypeOK, Quiet, CaptureInv
  <1>2. /\ slots' = [slots EXCEPT ![kind] = FreeSlot] /\ acap' = acap \ {kind} /\ status' = status
        /\ capture' = IF kind \in Visualizers THEN [capture EXCEPT ![kind] = NoThread] ELSE capture
        /\ reply("success", NULL)
    BY <1>a DEF finishUninstall
  <1>3. /\ handler' = "idle" /\ (\E result, value : reply(result, value)) /\ timed_out' \in BOOLEAN
        /\ ~FreeSlot.installed /\ NoThread.state = "none"
    BY <1>2 DEF reply, ControlInv, FreeSlot, NoThread
  <1>4. \A k \in Visualizers \ {kind} :
          slots'[k] = slots[k] /\ status'[k] = status[k] /\ (k \in acap' <=> k \in acap) /\ capture'[k] = capture[k]
    BY <1>1, <1>2, VisualizerNamed
  <1>5. ASSUME kind \in Visualizers PROVE Settled(kind)'
    <2>1. slots'[kind] = FreeSlot /\ capture'[kind] = NoThread /\ kind \notin acap'
      BY <1>1, <1>2, <1>5
    <2>2. ~On(kind)'
      BY <1>3, <2>1 DEF On
    <2> QED  BY <1>3, <2>1, <2>2 DEF Settled
  <1> QED  BY <1>a, <1>1, <1>2, <1>3, <1>4, <1>5, CapturesKept

\* the slot that one of several leaves
LEMMA LeftSlot ==
  ASSUME NEW slot \in SlotRecords, NEW h
  PROVE  LET s == detached([slot EXCEPT !.num_attached = @ - 1], h)
         IN s.installed = slot.installed /\ s.client_queue = handleOnDetach(slot.client_queue, h)
  BY DEF SlotRecords, detached

\* one of several leaves: the capture goes on for the client in control
LEMMA DetachFollows ==
  ASSUME Protocol, Quiet, ControlInv, queue # <<>>, message.what = "destroy", handler \in {"idle", "stopping"},
         ~(slots[message.kind].num_attached <= 1), NEW stopped \in BOOLEAN, finishDetach(message, stopped),
         stopped => /\ message.kind \in Visualizers /\ status[message.kind].enabled
                    /\ message.handle = Active(message.kind) /\ message.kind \in acap,
         ~stopped /\ message.kind \in Visualizers =>
           Settled(message.kind) /\ (status[message.kind].enabled => message.handle # Active(message.kind)),
         message.kind \in Visualizers => Readable(message.kind),
         UNCHANGED <<infos, handles, timed_out>>
  PROVE  ControlInv'
  <1>a. PICK m : m = message
    OBVIOUS
  <1>b. PICK kind, h, slot : kind = m.kind /\ h = m.handle /\ slot = slots[kind]
    OBVIOUS
  <1> DEFINE s == detached([slot EXCEPT !.num_attached = @ - 1], h)
             active == Head(s.client_queue)
             new == afterDetach(m, active)
  <1>1. /\ kind \in Kinds /\ slots = [k \in Kinds |-> slots[k]] /\ capture = [k \in Visualizers |-> capture[k]]
        /\ slot \in SlotRecords /\ status = [k \in Visualizers |-> status[k]] /\ \A k \in Visualizers : StatusOK(status[k])
    BY <1>a, <1>b, HeadOfQueue DEF Protocol, TypeOK, Quiet, CaptureInv, ControlInv
  <1>2. slot.installed /\ s.installed = slot.installed /\ s.client_queue = handleOnDetach(slot.client_queue, h)
    <2>1. slot.installed
      BY <1>a, <1>b, HandledModule
    <2> QED  BY <1>1, <2>1, LeftSlot
  <1>3. /\ slots' = [slots EXCEPT ![kind] = s] /\ acap' = acap
        /\ status' = IF kind \in Visualizers THEN [status EXCEPT ![kind] = new] ELSE status
        /\ IF stopped /\ status[kind].enabled /\ preparedForCapturing(active)
             THEN startPeriodicCapturing(kind)
             ELSE /\ capture' = (IF stopped THEN [capture EXCEPT ![kind] = NoThread] ELSE capture)
                  /\ reply("success", NULL)
    BY <1>a, <1>b DEF finishDetach
  <1>4. ASSUME kind \in Visualizers
        PROVE  /\ StatusOK(new) /\ new.enabled = status[kind].enabled
               /\ new.get_waveform_fft_state = IF status[kind].get_waveform_fft_state.client # h THEN status[kind].get_waveform_fft_state
                                               ELSE Pack(status[kind].enabled, active)
    <2> HIDE DEF active
    <2> QED  BY <1>b, <1>1, <1>4, DetachedStatus
  <1>5. Head(slot.client_queue) # h => active = Head(slot.client_queue)
    <2>1. slot.client_queue \in Seq(Handles) /\ slot.client_queue # <<>>
      BY <1>b, <1>1, <1>2, ActiveIsClient
    <2> QED  BY <1>2, <2>1, HeadKept
  <1> HIDE DEF s, active, new
  <1>6. \A k \in Visualizers \ {kind} :
          slots'[k] = slots[k] /\ status'[k] = status[k] /\ (k \in acap' <=> k \in acap) /\ capture'[k] = capture[k]
    BY <1>1, <1>3, VisualizerNamed DEF startPeriodicCapturing
  <1>7. /\ status' = status \/ (kind \in Visualizers /\ \E o : StatusOK(o) /\ status' = [status EXCEPT ![kind] = o])
        /\ timed_out' \in BOOLEAN
    BY <1>3, <1>4 DEF ControlInv
  <1>8. ASSUME kind \in Visualizers
        PROVE  /\ slots'[kind] = s /\ status'[kind] = new /\ Active(kind)' = active /\ (On(kind)' <=> status[kind].enabled)
               /\ (preparedForCapturing(Active(kind))' <=> preparedForCapturing(active)) /\ Readable(kind)'
    <2>1. slots'[kind] = s /\ status'[kind] = new
      BY <1>1, <1>3, <1>8
    <2>2. Active(kind)' = active
      BY <2>1 DEF Active, active
    <2>3. On(kind)' <=> status[kind].enabled
      BY <1>2, <1>4, <1>8, <2>1 DEF On
    <2>4. preparedForCapturing(Active(kind))' <=> preparedForCapturing(active)
      BY <2>2 DEF preparedForCapturing
    <2>5. Readable(kind)'
      <3>1. status[kind].get_waveform_fft_state \in {Pack(status[kind].enabled, Head(slot.client_queue)), Pack(FALSE, NULL)}
        BY <1>a, <1>b, <1>8 DEF Readable, Active
      <3>2. new.get_waveform_fft_state \in {Pack(new.enabled, active), Pack(FALSE, NULL)}
        <4>1. CASE status[kind].get_waveform_fft_state.client # h
          <5>1. Pack(status[kind].enabled, Head(slot.client_queue)).client = Head(slot.client_queue)
            BY DEF Pack, V!PackWaveFftStatus
          <5>2. CASE status[kind].get_waveform_fft_state = Pack(status[kind].enabled, Head(slot.client_queue))
            BY <1>4, <1>5, <1>8, <4>1, <5>1, <5>2
          <5>3. CASE status[kind].get_waveform_fft_state = Pack(FALSE, NULL)
            BY <1>4, <1>8, <4>1, <5>3
          <5> QED  BY <3>1, <5>2, <5>3
        <4>2. CASE ~(status[kind].get_waveform_fft_state.client # h)
          BY <1>4, <1>8, <4>2
        <4> QED  BY <4>1, <4>2
      <3> QED  BY <2>1, <2>2, <3>2 DEF Readable
    <2> QED  BY <2>1, <2>2, <2>3, <2>4, <2>5
  <1>9. CASE stopped /\ status[kind].enabled /\ preparedForCapturing(active)
    <2>1. /\ capture' = [capture EXCEPT ![kind] = [state |-> "starting", client |-> NULL, stop_req |-> FALSE]]
          /\ handler' = "starting" /\ UNCHANGED <<calls, queue>> /\ kind \in Visualizers /\ kind \in acap'
      BY <1>a, <1>b, <1>3, <1>9 DEF startPeriodicCapturing
    <2>2. capture'[kind].state = "starting" /\ ~capture'[kind].stop_req
      BY <1>1, <2>1
    <2>3. message' = m /\ m.what = "destroy"
      BY <1>a, <2>1 DEF message
    <2>4. Waits(kind)'
      <3>1. slots'[kind].installed /\ status'[kind].enabled
        BY <1>2, <1>4, <1>8, <1>9, <2>1
      <3> QED  BY <1>8, <2>1, <2>2, <2>3, <3>1 DEF Waits
    <2>5. handler' # "idle"
      BY <2>1
    <2> QED  BY <1>a, <1>b, <1>1, <1>6, <1>7, <2>1, <2>4, <2>5, CapturesKept
  <1>10. CASE ~(stopped /\ status[kind].enabled /\ preparedForCapturing(active))
    <2>1. /\ capture' = (IF stopped THEN [capture EXCEPT ![kind] = NoThread] ELSE capture)
          /\ handler' = "idle" /\ \E result, value : reply(result, value)
      BY <1>3, <1>10 DEF reply
    <2>2. ASSUME kind \in Visualizers PROVE Settled(kind)'
      <3>1. CASE stopped
        <4>1. capture'[kind].state = "none" /\ status[kind].enabled /\ kind \in acap' /\ ~preparedForCapturing(active)
          BY <1>a, <1>b, <1>1, <1>3, <1>10, <2>1, <2>2, <3>1 DEF NoThread
        <4> QED  BY <1>8, <2>2, <4>1 DEF Settled
      <3>2. CASE ~stopped
        <4>1. Settled(kind) /\ capture'[kind] = capture[kind] /\ (kind \in acap' <=> kind \in acap)
              /\ (On(kind) <=> status[kind].enabled)
          BY <1>a, <1>b, <1>2, <1>3, <2>1, <2>2, <3>2 DEF On
        <4>2. status[kind].enabled => Active(kind) = active
          BY <1>a, <1>b, <1>5, <2>2, <3>2 DEF Active
        <4>3. timed_out' = timed_out
          OBVIOUS
        <4> QED  BY <1>8, <2>2, <4>1, <4>2, <4>3 DEF Settled
      <3> QED  BY <3>1, <3>2
    <2> QED  BY <1>a, <1>b, <1>1, <1>6, <1>7, <2>1, <2>2, CapturesKept
  <1> QED  BY <1>9, <1>10

LEMMA DetachOrUninstallFollows ==
  ASSUME Protocol, Quiet, ControlInv, handleExtDetachOrUninstall
  PROVE  ControlInv'
  <1>a. PICK m : m = message
    OBVIOUS
  <1>b. PICK kind, last, stops : /\ kind = m.kind /\ last = (slots[kind].num_attached <= 1)
                                 /\ stops = (kind \in Visualizers /\ (last \/ stopsAtDetach(m)))
    OBVIOUS
  <1>1. /\ handler = "idle" /\ queue # <<>> /\ m.what = "destroy" /\ UNCHANGED <<infos, handles, timed_out>>
        /\ IF stops /\ available(kind)
             THEN /\ stopPeriodicCapturing(kind) /\ acap' = (IF last THEN acap \ {kind} ELSE acap)
                  /\ UNCHANGED <<slots, status>>
             ELSE IF last THEN finishUninstall(m) ELSE finishDetach(m, stops)
    BY <1>a, <1>b DEF handleExtDetachOrUninstall
  <1>2. /\ kind \in Kinds /\ slots[kind].installed /\ capture = [k \in Visualizers |-> capture[k]]
        /\ timed_out \in BOOLEAN /\ last \in BOOLEAN /\ stops \in BOOLEAN
        /\ \A k \in Visualizers : Settled(k)
    BY <1>a, <1>b, <1>1, HandledModule DEF Quiet, CaptureInv, ControlInv, Following
  <1>3. ASSUME kind \in Visualizers
        PROVE  /\ Settled(kind) /\ Readable(kind) /\ (On(kind) <=> status[kind].enabled)
               /\ (stopsAtDetach(m) <=> status[kind].enabled /\ m.handle = Active(kind))
    <2>1. slots[kind].client_queue # <<>>
      BY <1>2, ActiveIsClient
    <2> QED  BY <1>b, <1>2, <1>3, <2>1 DEF Settled, On, stopsAtDetach, is_active, checkIsClientActive, Active
  <1>4. CASE stops /\ available(kind)
    <2>1. /\ capture' = [capture EXCEPT ![kind].stop_req = TRUE] /\ handler' = "stopping" /\ UNCHANGED <<calls, queue>>
          /\ acap' = (IF last THEN acap \ {kind} ELSE acap) /\ UNCHANGED <<slots, status>> /\ kind \in Visualizers
      BY <1>b, <1>1, <1>4 DEF stopPeriodicCapturing
    <2>2. \A k \in Visualizers \ {kind} :
            slots'[k] = slots[k] /\ status'[k] = status[k] /\ (k \in acap' <=> k \in acap) /\ capture'[k] = capture[k]
      BY <1>2, <2>1
    <2>3. message' = m
      BY <1>a, <2>1 DEF message
    <2>4. Waits(kind)'
      <3>1. ~last => status[kind].enabled /\ kind \in acap' /\ m.handle = Active(kind)
        BY <1>b, <1>3, <1>4, <2>1 DEF Settled
      <3>2. Readable(kind)' /\ Active(kind)' = Active(kind)
        BY <1>3, <2>1 DEF Readable, Active
      <3> QED  BY <1>b, <1>1, <1>2, <2>1, <2>3, <3>1, <3>2 DEF Waits
    <2>5. handler' # "idle"
      BY <2>1
    <2> QED  BY <1>a, <1>b, <1>1, <1>2, <2>1, <2>2, <2>4, <2>5, CapturesKept
  <1>5. CASE ~(stops /\ available(kind)) /\ last
    BY <1>a, <1>1, <1>5, UninstallFollows
  <1>6. CASE ~(stops /\ available(kind)) /\ ~last
    <2>1. stops => kind \in Visualizers /\ status[kind].enabled /\ m.handle = Active(kind) /\ kind \in acap
      BY <1>b, <1>3, <1>6 DEF Settled
    <2>2. ~stops /\ kind \in Visualizers => Settled(kind) /\ (status[kind].enabled => m.handle # Active(kind))
      BY <1>b, <1>3
    <2>3. kind \in Visualizers => Readable(kind)
      BY <1>3
    <2>4. finishDetach(m, stops) /\ ~(slots[kind].num_attached <= 1)
      BY <1>b, <1>1, <1>6
    <2> QED  BY <1>a, <1>b, <1>1, <1>2, <2>1, <2>2, <2>3, <2>4, DetachFollows
  <1> QED  BY <1>2, <1>4, <1>5, <1>6

-----------------------------------------------------------------------------
\* when the thread has to be started or stopped first
LEMMA ThreadNeeded ==
  ASSUME NEW m, m.kind \in Visualizers, m.what = "setEnabled" => m.arg \in BOOLEAN
  PROVE  /\ StartsThread(m) <=> /\ m.what = "setEnabled" /\ is_active(m) /\ m.arg /\ ~status[m.kind].enabled
                                /\ preparedForCapturing(m.handle)
         /\ StopsThread(m) <=> m.what = "setEnabled" /\ is_active(m) /\ ~m.arg /\ status[m.kind].enabled
  <1> DEFINE o == own(m)
  <1>1. o.status = status[m.kind] /\ o.info = infos[m.handle]
    BY DEF own
  <1>2. StartsThread(m) <=> V!StartsThread(o, m.what, m.arg, is_active(m))
    BY DEF StartsThread, HV!StartsThread, HV!V!StartsThread, V!StartsThread, HV!V!preparedForCapturing, V!preparedForCapturing
  <1>3. StopsThread(m) <=> V!StopsThread(o, m.what, m.arg, is_active(m))
    BY DEF StopsThread, HV!StopsThread, HV!V!StopsThread, V!StopsThread
  <1> HIDE DEF o
  <1> QED  BY <1>1, <1>2, <1>3 DEF V!StartsThread, V!StopsThread, preparedForCapturing

\* a visualizer's method
LEMMA VisualizerMessageFollows ==
  ASSUME Protocol, Quiet, ControlInv, handler = "idle", queue # <<>>, message.what \notin {"create", "destroy"},
         message.kind \in Visualizers, handleVisualizerMessage(message), UNCHANGED <<handles, timed_out>>
  PROVE  ControlInv'
  <1>a. PICK m : m = message
    OBVIOUS
  <1>b. PICK kind, h : kind = m.kind /\ h = m.handle
    OBVIOUS
  <1>1. /\ kind \in Visualizers /\ kind \in Kinds /\ slots[kind].installed /\ h \in Handles
        /\ capture = [k \in Visualizers |-> capture[k]] /\ status = [k \in Visualizers |-> status[k]]
        /\ infos = [g \in Handles |-> infos[g]]
        /\ timed_out \in BOOLEAN /\ StatusOK(status[kind]) /\ \A k \in Visualizers : Settled(k)
    BY <1>a, <1>b, HeadOfQueue, HandledModule DEF Quiet, CaptureInv, ControlInv, Following
  <1>2. m.what \in Methods(kind) /\ (m.what = "setEnabled" => m.arg \in BOOLEAN) /\ ~Direct(m)
    <2>1. CallTyped(m) /\ Made(m) /\ Head(queue) \in Threads /\ m = calls[Head(queue)] /\ m.phase = "posted"
      BY <1>a, HeadOfQueue DEF message
    <2> QED  BY <1>a, <1>b, <2>1 DEF CallTyped, ControlInv
  <1>3. is_active(m) <=> h = Active(kind)
    <2>1. slots[kind].client_queue # <<>>
      BY <1>1, ActiveIsClient
    <2> QED  BY <1>b, <2>1 DEF is_active, checkIsClientActive, Active
  <1>4. /\ Settled(kind) /\ Readable(kind) /\ (On(kind) <=> status[kind].enabled)
    BY <1>1 DEF Settled, On
  <1>5. ASSUME UNCHANGED <<slots, status, infos, acap, calls, queue>>, handler' # "idle",
               \A k \in Visualizers \ {kind} : capture'[k] = capture[k], Waits(kind)'
        PROVE  ControlInv'
    <2>1. \A k \in Visualizers \ {kind} :
            slots'[k] = slots[k] /\ status'[k] = status[k] /\ (k \in acap' <=> k \in acap) /\ capture'[k] = capture[k]
      BY <1>5
    <2> QED  BY <1>a, <1>b, <1>1, <1>5, <2>1, CapturesKept
  <1>6. CASE StartsThread(m)
    <2>1. /\ capture' = [capture EXCEPT ![kind] = [state |-> "starting", client |-> NULL, stop_req |-> FALSE]]
          /\ handler' = "starting" /\ UNCHANGED <<calls, queue, slots, status, infos, acap>>
      BY <1>a, <1>b, <1>6 DEF handleVisualizerMessage, startPeriodicCapturing, moduleVars
    <2>2. m.what = "setEnabled" /\ h = Active(kind) /\ m.arg /\ ~status[kind].enabled
      BY <1>b, <1>1, <1>2, <1>3, <1>6, ThreadNeeded
    <2>3. capture'[kind].state = "starting" /\ ~capture'[kind].stop_req /\ \A k \in Visualizers \ {kind} : capture'[k] = capture[k]
      BY <1>1, <2>1
    <2>4. message' = m
      BY <1>a, <2>1 DEF message
    <2>5. Waits(kind)'
      <3>1. kind \notin acap' /\ Readable(kind)' /\ Active(kind)' = Active(kind) /\ slots'[kind].installed
            /\ ~status'[kind].enabled
        BY <1>1, <1>4, <2>1, <2>2 DEF Settled, Readable, Active
      <3> QED  BY <1>b, <2>1, <2>2, <2>3, <2>4, <3>1 DEF Waits
    <2> QED  BY <1>5, <2>1, <2>3, <2>5
  <1>7. CASE ~StartsThread(m) /\ StopsThread(m) /\ available(kind)
    <2>1. /\ capture' = [capture EXCEPT ![kind].stop_req = TRUE]
          /\ handler' = "stopping" /\ UNCHANGED <<calls, queue, slots, status, infos, acap>>
      BY <1>a, <1>b, <1>7 DEF handleVisualizerMessage, stopPeriodicCapturing, moduleVars
    <2>2. m.what = "setEnabled" /\ h = Active(kind) /\ ~m.arg
      BY <1>b, <1>1, <1>2, <1>3, <1>7, ThreadNeeded
    <2>3. \A k \in Visualizers \ {kind} : capture'[k] = capture[k]
      BY <1>1, <2>1
    <2>4. message' = m
      BY <1>a, <2>1 DEF message
    <2>5. Waits(kind)'
      <3>1. Readable(kind)' /\ Active(kind)' = Active(kind) /\ slots'[kind].installed
        BY <1>1, <1>4, <2>1 DEF Readable, Active
      <3> QED  BY <1>b, <2>1, <2>2, <2>4, <3>1 DEF Waits
    <2> QED  BY <1>5, <2>1, <2>3, <2>5
  <1>8. CASE ~StartsThread(m) /\ ~(StopsThread(m) /\ available(kind))
    <2>a. PICK o, answer : o = own(m) /\ answer = processVisualizerMessage(m)
      OBVIOUS
    <2>b. PICK r, s : r = answer.system /\ s = r.status
      OBVIOUS
    <2>1. /\ status' = [status EXCEPT ![kind] = s] /\ infos' = [infos EXCEPT ![h] = r.info]
          /\ acap' = (IF s.enabled # status[kind].enabled
                        THEN (IF "capture_audio_data" \in traits(kind, s) THEN acap \cup {kind} ELSE acap \ {kind})
                        ELSE acap)
          /\ reply(answer.result, answer.value) /\ UNCHANGED <<slots, capture>>
      BY <1>a, <1>b, <1>8, <2>a, <2>b DEF handleVisualizerMessage, processAfterExtensionTraitsChanged
    <2>2. o.status = status[kind] /\ o.info = infos[h]
      BY <1>b, <2>a DEF own
    <2>3. Handled(o, r, h, m.what, m.arg, is_active(m))
      BY <1>b, <1>1, <1>2, <2>a, <2>b, MessageHandles
    <2>4. /\ slots'[kind] = slots[kind] /\ status'[kind] = s /\ infos'[h] = r.info /\ capture'[kind] = capture[kind]
          /\ Active(kind)' = Active(kind) /\ (On(kind)' <=> s.enabled)
      BY <1>1, <2>1 DEF Active, On
    <2>5. StatusOK(s) /\ s.enabled \in BOOLEAN /\ status[kind].enabled \in BOOLEAN
      BY <1>1, <2>b, <2>3 DEF Handled, StatusOK
    <2>6. kind \in acap' <=> s.enabled
      BY <1>4, <2>1, <2>5, Traits DEF Settled
    <2>7. Settled(kind)'
      <3>1. CASE Kept(o, r)
        <4>1. s.enabled = status[kind].enabled /\ s.get_waveform_fft_state = status[kind].get_waveform_fft_state
          BY <2>b, <2>2, <3>1 DEF Kept
        <4>2. On(kind)' => infos' = infos
          BY <1>1, <2>1, <2>2, <2>3, <2>4, <4>1 DEF Handled
        <4>3. On(kind)' => (preparedForCapturing(Active(kind))' <=> preparedForCapturing(Active(kind)))
          BY <2>4, <4>2 DEF preparedForCapturing
        <4>4. Readable(kind)'
          BY <1>4, <2>4, <4>1 DEF Readable
        <4> QED  BY <1>4, <2>4, <2>6, <4>1, <4>3, <4>4 DEF Settled
      <3>2. CASE m.what = "setEnabled" /\ is_active(m) /\ Switched(o, r, m.arg, h)
        <4>1. /\ s.enabled = m.arg /\ status[kind].enabled # m.arg /\ s.get_waveform_fft_state = Pack(m.arg, h)
              /\ infos' = infos /\ h = Active(kind) /\ m.arg \in BOOLEAN
          BY <1>1, <1>2, <1>3, <2>b, <2>1, <2>2, <3>2 DEF Switched
        <4>2. Readable(kind)'
          BY <2>4, <4>1 DEF Readable
        <4>3. capture[kind].state = "none"
          <5>1. CASE m.arg
            BY <1>4, <4>1, <5>1 DEF Settled
          <5>2. CASE ~m.arg
            <6>1. StopsThread(m)
              BY <1>b, <1>1, <1>2, <2>5, <3>2, <4>1, <5>2, ThreadNeeded
            <6> QED  BY <1>8, <6>1 DEF available
          <5> QED  BY <4>1, <5>1, <5>2
        <4>4. On(kind)' => ~preparedForCapturing(Active(kind))'
          <5>1. s.enabled => ~preparedForCapturing(h)
            BY <1>b, <1>1, <1>2, <1>8, <2>5, <3>2, <4>1, ThreadNeeded
          <5> QED  BY <2>4, <4>1, <5>1 DEF preparedForCapturing
        <4> QED  BY <2>4, <2>6, <4>2, <4>3, <4>4 DEF Settled
      <3> QED  BY <2>3, <3>1, <3>2 DEF Handled
    <2>8. \A k \in Visualizers \ {kind} :
            slots'[k] = slots[k] /\ status'[k] = status[k] /\ (k \in acap' <=> k \in acap) /\ capture'[k] = capture[k]
      BY <1>1, <2>1
    <2>9. handler' = "idle" /\ \E result, value : reply(result, value)
      BY <2>1 DEF reply
    <2> QED  BY <1>a, <1>b, <1>1, <2>1, <2>5, <2>7, <2>8, <2>9, CapturesKept
  <1> QED  BY <1>6, <1>7, <1>8

LEMMA MessageFollows ==
  ASSUME Protocol, Quiet, ControlInv, handleExtensionMessage
  PROVE  ControlInv'
  <1>1. /\ handler = "idle" /\ queue # <<>> /\ message.what \notin {"create", "destroy"}
        /\ UNCHANGED <<handles, timed_out>>
    BY DEF handleExtensionMessage
  <1>2. message.kind \in Kinds /\ slots[message.kind].installed
    BY <1>1, HandledModule
  <1>3. CASE message.kind \in Visualizers
    <2>1. handleVisualizerMessage(message)
      BY <1>2, <1>3 DEF handleExtensionMessage
    <2> QED  BY <1>1, <1>3, <2>1, VisualizerMessageFollows
  <1>4. CASE message.kind \notin Visualizers
    <2>1. (\E result, value : reply(result, value)) /\ UNCHANGED <<slots, acap, infos, status, capture>>
      BY <1>2, <1>4 DEF handleExtensionMessage, handleEffectMessage
    <2> QED  BY <1>1, <1>2, <1>4, <2>1, EffectsFollow
  <1> QED  BY <1>3, <1>4

-----------------------------------------------------------------------------
\* the handler thread goes on, or gives up
LEMMA WaitFollows ==
  ASSUME Protocol, Quiet, ControlInv, Wait \/ StartTimesOut
  PROVE  ControlInv'
  <1>a. PICK m : m = message
    OBVIOUS
  <1>b. PICK kind, h : kind = m.kind /\ h = m.handle
    OBVIOUS
  <1>0. handler # "idle"
    BY DEF Wait, CaptureStopped, CaptureStarted, StartGivenUp, StartTimesOut
  <1>1. /\ queue # <<>> /\ kind \in Visualizers /\ kind \in Kinds /\ m.what \in {"destroy", "setEnabled"}
        /\ capture = [k \in Visualizers |-> capture[k]] /\ status = [k \in Visualizers |-> status[k]]
        /\ timed_out \in BOOLEAN /\ StatusOK(status[kind]) /\ Waits(kind)
    BY <1>a, <1>b, <1>0, VisualizerNamed DEF Protocol, HandlerInv, Quiet, CaptureInv, ControlInv, Following
  <1>2. slots[kind].installed /\ Readable(kind) /\ (m.what = "setEnabled" => h = Active(kind) /\ m.arg \in BOOLEAN)
    <2>1. CallTyped(m) /\ Made(m)
      BY <1>a, <1>1, HeadOfQueue
    <2> QED  BY <1>a, <1>b, <1>1, <2>1 DEF Waits, CallTyped
  <1>3. ASSUME finishSetEnabled(m), m.what = "setEnabled", UNCHANGED <<infos, handles, timed_out>>,
               \A k \in Visualizers \ {kind} : capture'[k] = capture[k],
               IF m.arg THEN capture'[kind].state # "none" /\ ~capture'[kind].stop_req ELSE capture'[kind].state = "none"
        PROVE  ControlInv'
    <2>a. PICK s : s = enabledChanged(m)
      OBVIOUS
    <2>1. /\ status' = [status EXCEPT ![kind] = s] /\ slots' = slots /\ reply("success", NULL)
          /\ acap' = IF "capture_audio_data" \in traits(kind, s) THEN acap \cup {kind} ELSE acap \ {kind}
      BY <1>b, <1>3, <2>a DEF finishSetEnabled, processAfterExtensionTraitsChanged
    <2>2. StatusOK(s) /\ s.enabled = m.arg /\ s.get_waveform_fft_state = Pack(m.arg, h)
      BY <1>b, <1>1, <1>2, <1>3, <2>a, ChangedStatus
    <2>3. status'[kind] = s /\ slots'[kind] = slots[kind] /\ Active(kind)' = Active(kind) /\ (On(kind)' <=> s.enabled)
      BY <1>1, <1>2, <2>1 DEF Active, On
    <2>4. kind \in acap' <=> s.enabled
      BY <2>1, Traits
    <2>5. Readable(kind)'
      BY <1>2, <1>3, <2>2, <2>3 DEF Readable
    <2>6. Settled(kind)'
      BY <1>2, <1>3, <2>2, <2>3, <2>4, <2>5 DEF Settled
    <2>7. handler' = "idle" /\ \E result, value : reply(result, value)
      BY <2>1 DEF reply
    <2>8. \A k \in Visualizers \ {kind} :
            slots'[k] = slots[k] /\ status'[k] = status[k] /\ (k \in acap' <=> k \in acap) /\ capture'[k] = capture[k]
      BY <1>1, <1>3, <2>1
    <2> QED  BY <1>a, <1>b, <1>1, <1>3, <2>1, <2>2, <2>6, <2>7, <2>8, CapturesKept
  <1>4. ASSUME (\E result, value : reply(result, value)), UNCHANGED <<slots, acap, status, infos, handles>>,
               timed_out => timed_out', timed_out' \in BOOLEAN,
               \A k \in Visualizers \ {kind} : capture'[k] = capture[k],
               kind \in acap <=> status[kind].enabled,
               capture'[kind].state # "none" => status[kind].enabled /\ ~capture'[kind].stop_req,
               status[kind].enabled /\ ~timed_out' => capture'[kind].state # "none"
        PROVE  ControlInv'
    <2>1. (On(kind)' <=> status[kind].enabled) /\ Readable(kind)'
      BY <1>2, <1>4 DEF On, Readable, Active
    <2>2. Settled(kind)'
      BY <1>4, <2>1 DEF Settled
    <2>3. handler' = "idle"
      BY <1>4 DEF reply
    <2>4. \A k \in Visualizers \ {kind} :
            slots'[k] = slots[k] /\ status'[k] = status[k] /\ (k \in acap' <=> k \in acap) /\ capture'[k] = capture[k]
      BY <1>4
    <2> QED  BY <1>a, <1>b, <1>1, <1>4, <2>2, <2>3, <2>4, CapturesKept
  <1>5. CASE CaptureStopped
    <2>1. handler = "stopping" /\ UNCHANGED <<infos, handles, timed_out>>
      BY <1>5 DEF CaptureStopped
    <2>2. CASE m.what = "setEnabled"
      <3>1. finishSetEnabled(m) /\ capture' = [capture EXCEPT ![kind] = NoThread]
        BY <1>a, <1>b, <1>5, <2>2 DEF CaptureStopped
      <3>2. ~m.arg
        BY <1>a, <1>b, <1>1, <2>1, <2>2 DEF Waits
      <3>3. capture'[kind].state = "none" /\ \A k \in Visualizers \ {kind} : capture'[k] = capture[k]
        BY <1>1, <3>1 DEF NoThread
      <3> QED  BY <1>3, <2>1, <2>2, <3>1, <3>2, <3>3
    <2>3. CASE m.what = "destroy" /\ slots[kind].num_attached <= 1
      <3>1. finishUninstall(message)
        BY <1>a, <1>b, <1>5, <2>3 DEF CaptureStopped
      <3> QED  BY <1>1, <2>1, <3>1, UninstallFollows
    <2>4. CASE m.what = "destroy" /\ ~(slots[kind].num_attached <= 1)
      <3>1. finishDetach(message, TRUE)
        BY <1>a, <1>b, <1>5, <2>4 DEF CaptureStopped
      <3>2. status[kind].enabled /\ kind \in acap /\ h = Active(kind)
        BY <1>a, <1>b, <1>1, <2>1, <2>4 DEF Waits
      <3> QED  BY <1>a, <1>b, <1>1, <1>2, <2>1, <2>4, <3>1, <3>2, DetachFollows
    <2> QED  BY <1>1, <2>2, <2>3, <2>4
  <1>6. CASE CaptureStarted
    <2>1. handler = "starting" /\ UNCHANGED <<infos, handles, timed_out, capture>>
      BY <1>6 DEF CaptureStarted, threadVars
    <2>2. capture[kind].state # "none" /\ ~capture[kind].stop_req
      BY <1>1, <2>1 DEF Waits
    <2>3. CASE m.what = "setEnabled"
      <3>1. finishSetEnabled(m) /\ m.arg
        BY <1>a, <1>b, <1>1, <1>6, <2>1, <2>3 DEF CaptureStarted, Waits
      <3> QED  BY <1>3, <2>1, <2>2, <2>3, <3>1
    <2>4. CASE m.what = "destroy"
      <3>1. (\E result, value : reply(result, value)) /\ UNCHANGED <<slots, acap, status>>
        BY <1>a, <1>6, <2>4 DEF CaptureStarted
      <3>2. status[kind].enabled /\ kind \in acap
        BY <1>a, <1>b, <1>1, <2>1, <2>4 DEF Waits
      <3> QED  BY <1>1, <1>4, <2>1, <2>2, <3>1, <3>2
    <2> QED  BY <1>1, <2>3, <2>4
  <1>7. CASE StartGivenUp
    <2>1. /\ handler = "giving_up" /\ UNCHANGED <<slots, acap, status, infos, handles, timed_out>>
          /\ capture' = [capture EXCEPT ![kind] = NoThread] /\ \E result, value : reply(result, value)
      BY <1>a, <1>b, <1>7 DEF StartGivenUp, moduleVars
    <2>2. capture'[kind].state = "none" /\ \A k \in Visualizers \ {kind} : capture'[k] = capture[k]
      BY <1>1, <2>1 DEF NoThread
    <2>3. timed_out /\ (kind \in acap <=> status[kind].enabled)
      BY <1>a, <1>b, <1>1, <2>1 DEF Waits
    <2> QED  BY <1>1, <1>4, <2>1, <2>2, <2>3
  <1>8. CASE StartTimesOut
    <2>1. /\ handler = "starting" /\ handler' = "giving_up" /\ timed_out' = TRUE
          /\ capture' = [capture EXCEPT ![kind].stop_req = TRUE]
          /\ UNCHANGED <<slots, acap, status, infos, handles, calls, queue>>
      BY <1>a, <1>b, <1>8 DEF StartTimesOut, moduleVars
    <2>2. message' = message
      BY <2>1 DEF message
    <2>3. Waits(kind)'
      <3>1. Readable(kind)' /\ Active(kind)' = Active(kind)
        BY <1>2, <2>1 DEF Readable, Active
      <3> QED  BY <1>1, <2>1, <2>2, <3>1 DEF Waits
    <2>4. \A k \in Visualizers \ {kind} :
            slots'[k] = slots[k] /\ status'[k] = status[k] /\ (k \in acap' <=> k \in acap) /\ capture'[k] = capture[k]
      BY <1>1, <2>1
    <2> QED  BY <1>a, <1>b, <1>1, <2>1, <2>3, <2>4, CapturesKept
  <1> QED  BY <1>5, <1>6, <1>7, <1>8 DEF Wait

\* a thread that runs goes on as it was told
LEMMA ThreadGoesOn ==
  ASSUME Quiet, NEW kind \in Visualizers,
         ThreadStarts(kind) \/ ListenerCalled(kind) \/ ListenerReturns(kind) \/ ThreadExits(kind)
  PROVE  /\ capture[kind].state # "none" /\ capture'[kind].state # "none"
         /\ capture'[kind].stop_req = capture[kind].stop_req
         /\ \A k \in Visualizers \ {kind} : capture'[k] = capture[k]
  <1>1. /\ capture[kind].state # "none"
        /\ \/ \E b : capture' = [capture EXCEPT ![kind].state = "running", ![kind].client = b]
           \/ \E a \in {"calling", "running", "exited"} : capture' = [capture EXCEPT ![kind].state = a]
    BY DEF ThreadStarts, ListenerCalled, ListenerReturns, ThreadExits
  <1>2. /\ capture = [k \in Visualizers |-> capture[k]] /\ ThreadRecord(capture[kind])
    BY DEF Quiet, CaptureInv, ThreadRecord
  <1>a. PICK c : c = capture'
    OBVIOUS
  <1>b. PICK old : old = capture[kind]
    OBVIOUS
  <1>3. c[kind].state # "none" /\ c[kind].stop_req = capture[kind].stop_req /\ \A k \in Visualizers \ {kind} : c[k] = capture[k]
    <2>1. CASE \E a \in {"calling", "running", "exited"} : capture' = [capture EXCEPT ![kind].state = a]
      <3>1. PICK a \in {"calling", "running", "exited"} : c = [capture EXCEPT ![kind].state = a]
        BY <1>a, <2>1
      <3> DEFINE new == [old EXCEPT !.state = a]
      <3>2. new.state = a /\ new.stop_req = old.stop_req
        BY <1>2, <1>b DEF ThreadRecord
      <3>3. c = [capture EXCEPT ![kind] = new]
        BY <1>b, <3>1
      <3> HIDE DEF new
      <3> QED  BY <1>2, <1>b, <3>2, <3>3
    <2>2. CASE \E b : capture' = [capture EXCEPT ![kind].state = "running", ![kind].client = b]
      <3>1. PICK b : c = [capture EXCEPT ![kind].state = "running", ![kind].client = b]
        BY <1>a, <2>2
      <3> DEFINE mid == [old EXCEPT !.state = "running"]
                 d == [capture EXCEPT ![kind] = mid]
                 new == [mid EXCEPT !.client = b]
      <3>2. c = [d EXCEPT ![kind] = [d[kind] EXCEPT !.client = b]]
        BY <1>b, <3>1
      <3>3. mid.state = "running" /\ mid.stop_req = old.stop_req /\ ThreadRecord(mid)
        BY <1>2, <1>b DEF ThreadRecord
      <3> HIDE DEF mid
      <3>4. new.state = "running" /\ new.stop_req = old.stop_req
        BY <3>3 DEF ThreadRecord
      <3>5. d[kind] = mid /\ d = [k \in Visualizers |-> d[k]] /\ \A k \in Visualizers \ {kind} : d[k] = capture[k]
        BY <1>2
      <3>6. c = [d EXCEPT ![kind] = new]
        BY <3>2, <3>5
      <3> HIDE DEF d, new
      <3> QED  BY <1>b, <3>4, <3>5, <3>6
    <2> QED  BY <1>1, <2>1, <2>2
  <1> QED  BY <1>1, <1>a, <1>3

\* the thread of a visualizer neither comes nor goes by itself
LEMMA ThreadFollows ==
  ASSUME Protocol, Quiet, ControlInv, NEW kind \in Visualizers,
         ThreadStarts(kind) \/ ListenerCalled(kind) \/ ListenerReturns(kind) \/ ThreadExits(kind)
  PROVE  ControlInv'
  <1>1. UNCHANGED <<slots, acap, status, infos, handles, calls, queue, handler, timed_out>>
    BY DEF ThreadStarts, ListenerCalled, ListenerReturns, ThreadExits, moduleVars
  <1>2. /\ capture[kind].state # "none" /\ capture'[kind].state # "none"
        /\ capture'[kind].stop_req = capture[kind].stop_req
        /\ \A k \in Visualizers \ {kind} : capture'[k] = capture[k]
    BY ThreadGoesOn
  <1>3. /\ message' = message /\ \A k \in Visualizers : /\ Active(k)' = Active(k) /\ (On(k)' <=> On(k)) /\ (Readable(k)' <=> Readable(k))
                                      /\ (preparedForCapturing(Active(k))' <=> preparedForCapturing(Active(k)))
    BY <1>1 DEF message, Active, On, Readable, preparedForCapturing
  <1>4. ASSUME NEW k \in Visualizers PROVE Following(k)'
    <2>1. Following(k) /\ (capture'[k].state # "none" <=> capture[k].state # "none")
                       /\ (capture'[k].stop_req <=> capture[k].stop_req)
      BY <1>2 DEF ControlInv
    <2>2. CASE handler # "idle" /\ k = message.kind
      BY <1>1, <1>3, <2>1, <2>2 DEF Following, Waits
    <2>3. CASE ~(handler # "idle" /\ k = message.kind)
      BY <1>1, <1>3, <2>1, <2>3 DEF Following, Settled
    <2> QED  BY <2>2, <2>3
  <1>5. /\ status' = [k \in Visualizers |-> status'[k]] /\ (\A k \in Visualizers : StatusOK(status'[k]))
        /\ infos' = [h \in Handles |-> infos'[h]]
        /\ \A h \in Handles : handles'[h] = NULL => ~preparedForCapturing(h)'
        /\ \A t \in Threads : calls'[t].phase = "posted" => ~Direct(calls'[t])
        /\ timed_out' \in BOOLEAN
    BY <1>1 DEF ControlInv, preparedForCapturing
  <1> QED  BY <1>4, <1>5 DEF ControlInv, Direct

\* what does not touch the visualizers
LEMMA ControlStays ==
  ASSUME ControlInv, UNCHANGED <<slots, acap, status, infos, handles, calls, queue, handler, capture, timed_out>>
  PROVE  ControlInv'
  <1>1. \A k \in Visualizers : Following(k)'
    BY DEF ControlInv, Following, Waits, Settled, Readable, Active, On, preparedForCapturing, message
  <1> QED  BY <1>1 DEF ControlInv, Direct, preparedForCapturing

LEMMA NextControl == Protocol /\ Quiet /\ ControlInv /\ [Next]_vars => ControlInv'
  <1> SUFFICES ASSUME Protocol, Quiet, ControlInv, [Next]_vars PROVE ControlInv'
    OBVIOUS
  <1>1. CASE \E t \in Threads, h \in Handles :
               \/ \E kind \in scenario : Create(t, h, kind)
               \/ Destroy(t, h)
               \/ handles[h] # NULL /\ \E what \in Asked(scenario, handles[h].kind) :
                    \E arg \in Legal(handles[h].kind, what) \cup Illegal(handles[h].kind, what) : Use(t, h, what, arg)
    BY <1>1, CallsFollow
  <1>2. CASE \E t \in Threads : Return(t)
    BY <1>2, ReturnFollows
  <1>3. CASE Handle
    BY <1>3, AttachFollows, DetachOrUninstallFollows, MessageFollows DEF Handle
  <1>4. CASE Wait \/ StartTimesOut
    BY <1>4, WaitFollows
  <1>5. CASE \E kind \in Visualizers :
               ThreadStarts(kind) \/ ListenerCalled(kind) \/ ListenerReturns(kind) \/ ThreadExits(kind)
    BY <1>5, ThreadFollows
  <1>6. CASE \/ \E next_is_started \in BOOLEAN : raiseOnBeforeAudioSinkStateChanged(next_is_started)
             \/ \E effect \in PR!AuxEffects \cup {"none"} : selectActiveAuxEffect(effect)
             \/ \E level \in 0 .. 2 : setAuxEffectSendLevel(level)
    <2>1. UNCHANGED <<slots, acap, status, infos, handles, calls, queue, handler, capture, timed_out>>
      BY <1>6 DEF raiseOnBeforeAudioSinkStateChanged, selectActiveAuxEffect, setAuxEffectSendLevel, threadVars
    <2> QED  BY <2>1, ControlStays
  <1>7. CASE UNCHANGED vars
    <2>1. UNCHANGED <<slots, acap, status, infos, handles, calls, queue, handler, capture, timed_out>>
      BY <1>7 DEF vars, moduleVars, threadVars
    <2> QED  BY <2>1, ControlStays
  <1> QED  BY <1>1, <1>2, <1>3, <1>4, <1>5, <1>6, <1>7 DEF Next

LEMMA ControlHolds == Spec => []ControlInv
  BY InitProtocol, NextProtocol, QuietHolds, ProtocolHolds, InitControl, NextControl, PTL DEF Spec

(* Between two messages a visualizer is captured for exactly while it is
   enabled, its thread is there only then, and it is there when the client in
   control has a listener (unless a start was given up after three seconds), and what
   a caller's thread may read directly belongs to the client in control or to
   nobody: whatever handles come, leave and set, and wherever the handler thread
   had to wait for that thread to start or to end (onAttach, onDetach, onUninstall
   and setEnabled of the two visualizers). *)
THEOREM CaptureFollowsControlHolds == Spec => []CaptureFollowsControl
  BY ControlHolds, ControlSuffices, PTL

-----------------------------------------------------------------------------
(* Who has left control is not called.                                     *)

\* no thread, no client
NoClient == \A k \in Visualizers : capture[k].state = "none" => capture[k].client = NULL

\* what can happen to the thread of a visualizer
Steered(kind) ==
  \/ capture' = [capture EXCEPT ![kind] = NoThread]
  \/ capture' = [capture EXCEPT ![kind] = [state |-> "starting", client |-> NULL, stop_req |-> FALSE]]
  \/ capture' = [capture EXCEPT ![kind].stop_req = TRUE]
RunsOn(kind) == ThreadStarts(kind) \/ ListenerCalled(kind) \/ ListenerReturns(kind) \/ ThreadExits(kind)

LEMMA ThreadSteps ==
  ASSUME Protocol, [Next]_vars
  PROVE  capture' = capture \/ \E kind \in Visualizers : Steered(kind) \/ RunsOn(kind)
  <1> DEFINE Goal == capture' = capture \/ \E kind \in Visualizers : Steered(kind) \/ RunsOn(kind)
  <1>a. PICK kind : kind = message.kind
    OBVIOUS
  <1>b. ASSUME kind \in Visualizers, Steered(kind) PROVE Goal
    BY <1>b
  <1>1. CASE \E t \in Threads, h \in Handles :
               \/ \E k \in scenario : Create(t, h, k)
               \/ Destroy(t, h)
               \/ handles[h] # NULL /\ \E what \in Asked(scenario, handles[h].kind) :
                    \E arg \in Legal(handles[h].kind, what) \cup Illegal(handles[h].kind, what) : Use(t, h, what, arg)
    BY <1>1 DEF Create, Destroy, Use, threadVars
  <1>2. CASE \E t \in Threads : Return(t)
    BY <1>2 DEF Return, threadVars
  <1>3. CASE handleExtAttachOrInstall
    BY <1>3 DEF handleExtAttachOrInstall, threadVars
  <1>4. ASSUME NEW stopped, stopped => kind \in Visualizers, finishDetach(message, stopped) PROVE Goal
    BY <1>a, <1>b, <1>4 DEF finishDetach, startPeriodicCapturing, Steered
  <1>5. ASSUME finishUninstall(message) PROVE Goal
    BY <1>a, <1>b, <1>5 DEF finishUninstall, Steered
  <1>6. CASE handleExtDetachOrUninstall
    <2>1. PICK stops : stops = (kind \in Visualizers /\ (slots[kind].num_attached <= 1 \/ stopsAtDetach(message)))
      OBVIOUS
    <2>2. \/ stops /\ stopPeriodicCapturing(kind)
          \/ finishUninstall(message)
          \/ finishDetach(message, stops)
      BY <1>a, <1>6, <2>1 DEF handleExtDetachOrUninstall
    <2>3. stops => kind \in Visualizers
      BY <2>1
    <2>4. CASE stops /\ stopPeriodicCapturing(kind)
      BY <1>b, <2>3, <2>4 DEF stopPeriodicCapturing, Steered
    <2> HIDE DEF Goal
    <2> QED  BY <1>4, <1>5, <2>2, <2>3, <2>4 DEF Goal
  <1>7. CASE handleExtensionMessage
    <2>1. \/ capture' = capture
          \/ kind \in Visualizers /\ (startPeriodicCapturing(kind) \/ stopPeriodicCapturing(kind))
      BY <1>a, <1>7 DEF handleExtensionMessage, unanswered, handleVisualizerMessage, handleEffectMessage
    <2> QED  BY <1>b, <2>1 DEF startPeriodicCapturing, stopPeriodicCapturing, Steered
  <1>8. CASE Wait \/ StartTimesOut
    <2>1. kind \in Visualizers
      <3>1. handler # "idle"
        BY <1>8 DEF Wait, CaptureStopped, CaptureStarted, StartGivenUp, StartTimesOut
      <3> QED  BY <1>a, <3>1 DEF Protocol, HandlerInv
    <2>2. CASE CaptureStopped
      <3>1. \/ capture' = [capture EXCEPT ![kind] = NoThread]
            \/ finishUninstall(message)
            \/ finishDetach(message, TRUE)
        BY <1>a, <2>2 DEF CaptureStopped
      <3>2. CASE capture' = [capture EXCEPT ![kind] = NoThread]
        BY <1>b, <2>1, <3>2 DEF Steered
      <3> HIDE DEF Goal
      <3> QED  BY <1>4, <1>5, <2>1, <3>1, <3>2 DEF Goal
    <2>3. CASE CaptureStarted
      BY <2>3 DEF CaptureStarted, threadVars
    <2>4. CASE StartGivenUp \/ StartTimesOut
      BY <1>a, <1>b, <2>1, <2>4 DEF StartGivenUp, StartTimesOut, Steered
    <2> QED  BY <1>8, <2>2, <2>3, <2>4 DEF Wait
  <1>9. CASE \E k \in Visualizers :
               ThreadStarts(k) \/ ListenerCalled(k) \/ ListenerReturns(k) \/ ThreadExits(k)
    BY <1>9 DEF RunsOn
  <1>10. CASE \/ \E next_is_started \in BOOLEAN : raiseOnBeforeAudioSinkStateChanged(next_is_started)
              \/ \E effect \in PR!AuxEffects \cup {"none"} : selectActiveAuxEffect(effect)
              \/ \E level \in 0 .. 2 : setAuxEffectSendLevel(level)
    BY <1>10 DEF raiseOnBeforeAudioSinkStateChanged, selectActiveAuxEffect, setAuxEffectSendLevel, threadVars
  <1>11. CASE UNCHANGED vars
    BY <1>11 DEF vars, threadVars
  <1> HIDE DEF Goal
  <1> QED  BY <1>1, <1>2, <1>3, <1>6, <1>7, <1>8, <1>9, <1>10, <1>11 DEF Next, Handle, Goal

-----------------------------------------------------------------------------
LEMMA InitNoClient == Init => NoClient
  BY DEF Init, NoClient, NoThread

LEMMA NextNoClient == Protocol /\ Quiet /\ NoClient /\ [Next]_vars => NoClient'
  <1> SUFFICES ASSUME Protocol, Quiet, NoClient, [Next]_vars PROVE NoClient'
    OBVIOUS
  <1>1. capture = [k \in Visualizers |-> capture[k]] /\ \A k \in Visualizers : ThreadRecord(capture[k])
    BY DEF Quiet, CaptureInv, ThreadRecord
  <1>2. CASE capture' = capture
    BY <1>2 DEF NoClient
  <1>3. ASSUME NEW kind \in Visualizers, Steered(kind) \/ RunsOn(kind) PROVE NoClient'
    <2>a. PICK c, old : c = capture' /\ old = capture[kind]
      OBVIOUS
    <2>1. ASSUME NEW v, v.state = "none" => v.client = NULL, c = [capture EXCEPT ![kind] = v] PROVE NoClient'
      BY <1>1, <2>a, <2>1 DEF NoClient
    <2>2. CASE capture' = [capture EXCEPT ![kind] = NoThread]
      <3>1. NoThread.client = NULL
        BY DEF NoThread
      <3> QED  BY <2>1, <2>2, <2>a, <3>1
    <2>3. CASE capture' = [capture EXCEPT ![kind] = [state |-> "starting", client |-> NULL, stop_req |-> FALSE]]
      <3> DEFINE v == [state |-> "starting", client |-> NULL, stop_req |-> FALSE]
      <3>1. v.client = NULL
        OBVIOUS
      <3>2. c = [capture EXCEPT ![kind] = v]
        BY <2>3, <2>a
      <3> HIDE DEF v
      <3> QED  BY <2>1, <3>1, <3>2
    <2>4. CASE capture' = [capture EXCEPT ![kind].stop_req = TRUE]
      <3> DEFINE v == [old EXCEPT !.stop_req = TRUE]
      <3>1. v.state = old.state /\ v.client = old.client
        BY <1>1, <2>a DEF ThreadRecord
      <3>2. c = [capture EXCEPT ![kind] = v]
        BY <2>4, <2>a
      <3> HIDE DEF v
      <3> QED  BY <2>1, <2>a, <3>1, <3>2 DEF NoClient
    <2>5. CASE RunsOn(kind)
      <3>1. c[kind].state # "none" /\ \A k \in Visualizers \ {kind} : c[k] = capture[k]
        BY <2>5, <2>a, ThreadGoesOn DEF RunsOn
      <3> QED  BY <2>a, <3>1 DEF NoClient
    <2> QED  BY <1>3, <2>2, <2>3, <2>4, <2>5 DEF Steered
  <1> QED  BY <1>2, <1>3, ThreadSteps

\* a call is answered when the message at the head of the queue is
LEMMA OnlyTheHead ==
  ASSUME Protocol, [Next]_vars, NEW t \in Threads, calls[t].phase = "posted", calls'[t].phase = "replied"
  PROVE  /\ queue # <<>> /\ calls[t] = message /\ (Handle \/ Wait)
         /\ \E result, value : reply(result, value)
  <1>1. calls = [u \in Threads |-> calls[u]]
    BY DEF Protocol, TypeOK
  <1>a. ASSUME calls' = calls PROVE FALSE
    BY <1>a
  <1>b. ASSUME NEW u \in Threads, calls[u].phase # "posted", NEW c, calls' = [calls EXCEPT ![u] = c] PROVE FALSE
    BY <1>1, <1>b
  <1>2. ASSUME NEW u \in Threads, NEW h \in Handles,
               \/ \E kind \in scenario : Create(u, h, kind)
               \/ Destroy(u, h)
               \/ \E what, arg : Use(u, h, what, arg)
        PROVE  FALSE
    <2>1. calls[u] = Idle /\ \E c : calls' = [calls EXCEPT ![u] = c]
      BY <1>2 DEF Create, Destroy, Use, post
    <2>2. calls[u].phase # "posted"
      BY <2>1 DEF Idle
    <2> QED  BY <1>b, <2>1, <2>2
  <1>3. ASSUME NEW u \in Threads, Return(u) PROVE FALSE
    <2>1. calls[u].phase # "posted" /\ \E c : calls' = [calls EXCEPT ![u] = c]
      BY <1>3 DEF Return
    <2> QED  BY <1>b, <2>1
  <1>4. CASE Handle \/ Wait
    <2>1. (handler = "idle" /\ queue # <<>>) \/ handler # "idle"
      BY <1>4 DEF Handle, Wait, handleExtAttachOrInstall, handleExtDetachOrUninstall, handleExtensionMessage, CaptureStopped,
                  CaptureStarted, StartGivenUp
    <2>2. queue # <<>>
      BY <2>1 DEF Protocol, HandlerInv
    <2>3. calls' = calls \/ \E result, value : reply(result, value)
      <3>1. CASE handleExtAttachOrInstall
        BY <3>1 DEF handleExtAttachOrInstall, internalExtAttach, internalExtInstall
      <3>2. CASE handleExtDetachOrUninstall
        BY <3>2 DEF handleExtDetachOrUninstall, stopPeriodicCapturing, finishUninstall, finishDetach, startPeriodicCapturing
      <3>3. CASE handleExtensionMessage
        BY <3>3 DEF handleExtensionMessage, unanswered, handleVisualizerMessage, handleEffectMessage, startPeriodicCapturing,
                    stopPeriodicCapturing
      <3>4. CASE CaptureStopped
        BY <3>4 DEF CaptureStopped, finishSetEnabled, finishUninstall, finishDetach, startPeriodicCapturing
      <3>5. CASE CaptureStarted \/ StartGivenUp
        BY <3>5 DEF CaptureStarted, StartGivenUp, finishSetEnabled
      <3> QED  BY <1>4, <3>1, <3>2, <3>3, <3>4, <3>5 DEF Handle, Wait
    <2>4. \E result, value : reply(result, value)
      BY <1>a, <2>3
    <2>5. t = Head(queue)
      <3>1. PICK c : calls' = [calls EXCEPT ![Head(queue)] = c]
        BY <2>4 DEF reply
      <3> QED  BY <1>1, <3>1
    <2> QED  BY <1>4, <2>2, <2>4, <2>5 DEF message
  <1>5. CASE StartTimesOut
    BY <1>a, <1>5 DEF StartTimesOut
  <1>6. CASE \E kind \in Visualizers :
               ThreadStarts(kind) \/ ListenerCalled(kind) \/ ListenerReturns(kind) \/ ThreadExits(kind)
    BY <1>a, <1>6 DEF ThreadStarts, ListenerCalled, ListenerReturns, ThreadExits
  <1>7. CASE \/ \E next_is_started \in BOOLEAN : raiseOnBeforeAudioSinkStateChanged(next_is_started)
             \/ \E effect \in PR!AuxEffects \cup {"none"} : selectActiveAuxEffect(effect)
             \/ \E level \in 0 .. 2 : setAuxEffectSendLevel(level)
    BY <1>a, <1>7 DEF raiseOnBeforeAudioSinkStateChanged, selectActiveAuxEffect, setAuxEffectSendLevel
  <1>8. CASE UNCHANGED vars
    BY <1>a, <1>8 DEF vars
  <1> QED  BY <1>2, <1>3, <1>4, <1>5, <1>6, <1>7, <1>8 DEF Next

-----------------------------------------------------------------------------
\* the client with control disables, or leaves: there is no thread when that is answered
LEMMA LeavesNoThread ==
  ASSUME Protocol, Quiet, ControlInv, NoClient, [Next]_vars, Handle \/ Wait, queue # <<>>,
         NEW result, NEW value, reply(result, value),
         message.kind \in Visualizers, is_active(message),
         message.what = "destroy" \/ (message.what = "setEnabled" /\ ~message.arg)
  PROVE  capture'[message.kind].client = NULL
  <1>a. PICK m : m = message
    OBVIOUS
  <1>b. PICK kind, h : kind = m.kind /\ h = m.handle
    OBVIOUS
  <1> SUFFICES capture'[kind].client = NULL
    BY <1>a, <1>b
  <1>1. /\ kind \in Visualizers /\ kind \in Kinds /\ capture = [k \in Visualizers |-> capture[k]]
        /\ StatusOK(status[kind]) /\ handler' = "idle" /\ NoThread.client = NULL
        /\ (m.what = "setEnabled" => m.arg \in BOOLEAN)
    <2>1. CallTyped(m) /\ Made(m)
      BY <1>a, HeadOfQueue
    <2> QED  BY <1>a, <1>b, <2>1, VisualizerNamed DEF Quiet, CaptureInv, ControlInv, reply, NoThread, CallTyped
  <1>2. ASSUME capture' = [capture EXCEPT ![kind] = NoThread] PROVE capture'[kind].client = NULL
    BY <1>1, <1>2
  <1>3. ASSUME capture' = capture, capture[kind].state = "none" PROVE capture'[kind].client = NULL
    BY <1>1, <1>3 DEF NoClient
  <1>4. handler = "idle" => Settled(kind)
    BY <1>1 DEF ControlInv, Following
  <1>5. handler # "idle" => Waits(kind)
    BY <1>a, <1>b, <1>1 DEF ControlInv, Following
  <1>6. ASSUME finishUninstall(message) PROVE capture'[kind].client = NULL
    BY <1>a, <1>b, <1>1, <1>2, <1>6 DEF finishUninstall
  <1>7. ASSUME finishDetach(message, TRUE) PROVE capture'[kind].client = NULL
    BY <1>a, <1>b, <1>1, <1>2, <1>7 DEF finishDetach, startPeriodicCapturing
  <1>8. CASE handleExtAttachOrInstall
    BY <1>8 DEF handleExtAttachOrInstall
  <1>9. CASE handleExtDetachOrUninstall
    <2>a. PICK last, stops : /\ last = (slots[kind].num_attached <= 1)
                             /\ stops = (kind \in Visualizers /\ (last \/ stopsAtDetach(m)))
      OBVIOUS
    <2>1. /\ handler = "idle"
          /\ IF stops /\ available(kind) THEN stopPeriodicCapturing(kind)
             ELSE IF last THEN finishUninstall(m) ELSE finishDetach(m, stops)
      BY <1>a, <1>b, <1>9, <2>a DEF handleExtDetachOrUninstall
    <2>2. ~(stops /\ available(kind))
      BY <1>1, <2>1 DEF stopPeriodicCapturing
    <2>3. CASE last
      BY <1>a, <1>6, <2>1, <2>2, <2>3
    <2>4. CASE ~last /\ stops
      <3>1. stops = TRUE
        BY <1>1, <2>a, <2>4
      <3> QED  BY <1>a, <1>7, <2>1, <2>2, <2>4, <3>1
    <2>5. CASE ~last /\ ~stops
      <3>1. finishDetach(m, stops)
        BY <2>1, <2>5
      <3>2. capture' = capture
        BY <2>5, <3>1 DEF finishDetach
      <3>3. ~status[kind].enabled
        BY <1>a, <1>b, <1>1, <2>a, <2>5 DEF stopsAtDetach
      <3> QED  BY <1>3, <1>4, <2>1, <3>2, <3>3 DEF Settled, On
    <2> QED  BY <2>3, <2>4, <2>5
  <1>10. CASE handleExtensionMessage
    <2>1. handler = "idle" /\ m.what = "setEnabled" /\ ~m.arg
      BY <1>a, <1>10 DEF handleExtensionMessage
    <2>2. handleVisualizerMessage(m)
      <3>1. slots[kind].installed
        BY <1>a, <1>b, <2>1, HandledModule
      <3> QED  BY <1>a, <1>b, <1>1, <1>10, <3>1 DEF handleExtensionMessage
    <2>3. ~StartsThread(m)
      BY <1>b, <1>1, <2>1, ThreadNeeded
    <2>4. capture' = capture /\ ~(StopsThread(m) /\ available(kind))
      BY <1>b, <1>1, <2>2, <2>3 DEF handleVisualizerMessage, stopPeriodicCapturing
    <2>5. CASE status[kind].enabled
      <3>1. StopsThread(m)
        BY <1>a, <1>b, <1>1, <2>1, <2>5, ThreadNeeded
      <3> QED  BY <1>3, <2>4, <3>1 DEF available
    <2>6. CASE ~status[kind].enabled
      BY <1>3, <1>4, <2>1, <2>4, <2>6 DEF Settled, On
    <2> QED  BY <2>5, <2>6
  <1>11. CASE CaptureStopped
    <2>1. \/ finishUninstall(message)
          \/ finishDetach(message, TRUE)
          \/ capture' = [capture EXCEPT ![kind] = NoThread]
      BY <1>a, <1>b, <1>11 DEF CaptureStopped
    <2> QED  BY <1>2, <1>6, <1>7, <2>1
  <1>12. CASE CaptureStarted \/ StartGivenUp
    <2>1. handler \in {"starting", "giving_up"}
      BY <1>12 DEF CaptureStarted, StartGivenUp
    <2>2. CASE m.what = "destroy"
      <3>1. h \notin Members(slots[kind].client_queue)
        BY <1>a, <1>b, <2>1, <2>2, GoneAlready
      <3>2. slots[kind].client_queue \in Seq(Handles) /\ slots[kind].client_queue # <<>> /\ Head(slots[kind].client_queue) = h
        BY <1>a, <1>b, <1>1 DEF is_active, checkIsClientActive, Protocol, TypeOK, SlotRecords
      <3> QED  BY <3>1, <3>2 DEF Members
    <2>3. CASE m.what = "setEnabled"
      BY <1>a, <1>b, <1>5, <2>1, <2>3 DEF Waits
    <2> QED  BY <1>a, <2>2, <2>3
  <1> QED  BY <1>a, <1>b, <1>8, <1>9, <1>10, <1>11, <1>12 DEF Handle, Wait

Leaving(t) ==
  LET c == calls[t]
  IN /\ c # Idle /\ c.phase = "posted" /\ calls'[t].phase = "replied" /\ calls'[t].result = "success"
     /\ c.kind \in Visualizers /\ checkIsClientActive(slots[c.kind].client_queue, c.handle)
     /\ c.what = "destroy" \/ (c.what = "setEnabled" /\ ~c.arg)
     => capture'[c.kind].client # c.handle

LEMMA LeavingStep ==
  ASSUME Protocol, Quiet, ControlInv, NoClient, [Next]_vars, NEW t \in Threads
  PROVE  Leaving(t)
  <1> DEFINE c == calls[t]
  <1> SUFFICES ASSUME c.phase = "posted", calls'[t].phase = "replied", c.kind \in Visualizers,
                      checkIsClientActive(slots[c.kind].client_queue, c.handle),
                      c.what = "destroy" \/ (c.what = "setEnabled" /\ ~c.arg)
               PROVE  capture'[c.kind].client # c.handle
    BY DEF Leaving
  <1>1. queue # <<>> /\ c = message /\ (Handle \/ Wait) /\ \E result, value : reply(result, value)
    BY OnlyTheHead
  <1>2. is_active(message)
    BY <1>1 DEF is_active
  <1> HIDE DEF c
  <1>3. capture'[c.kind].client = NULL
    BY <1>1, <1>2, LeavesNoThread
  <1>4. c.handle \in Handles
    BY <1>1, HeadOfQueue
  <1> QED  BY <1>3, <1>4, HandlesAssumption

(* Who had control and has disabled its visualizer, or released it, is not
   called any more when that call returns: by then the thread that captured for
   it has been joined (stopPeriodicCapturing() in setEnabled, onDetach and
   onUninstall of the two visualizers). *)
THEOREM ListenerLeavesHolds == Spec => ListenerLeavesWithControl
  <1>1. Protocol /\ Quiet /\ ControlInv /\ NoClient /\ [Next]_vars => [\A t \in Threads : Leaving(t)]_vars
    BY LeavingStep
  <1>2. Spec => []NoClient
    BY ProtocolHolds, QuietHolds, InitNoClient, NextNoClient, PTL DEF Spec
  <1> QED  BY <1>1, <1>2, ProtocolHolds, QuietHolds, ControlHolds, PTL DEF Spec, ListenerLeavesWithControl, Leaving

-----------------------------------------------------------------------------
(* What a message to an effect does, as EffectControl says it.             *)

LEMMA FieldGiven ==
  ASSUME NEW s, SystemOK(s), NEW f \in Fields, NEW v
  PROVE  [s EXCEPT ![f] = v][f] = v
  BY DEF SystemOK

LEMMA Shown ==
  ASSUME NEW s
  PROVE  /\ shown(s, "bassboost") = [enabled |-> s.bassboost.enabled, setting |-> s.bassboost.strength]
         /\ shown(s, "virtualizer") = [enabled |-> s.virtualizer.enabled, setting |-> s.virtualizer.strength]
         /\ shown(s, "equalizer") = [enabled |-> s.equalizer.enabled,
                                     setting |-> [curPreset |-> s.equalizer.preset, bandLevels |-> s.equalizer.levels]]
         /\ shown(s, "hqequalizer") = [enabled |-> s.hqequalizer.enabled,
                                       setting |-> [curPreset |-> s.hqequalizer.preset,
                                                    bandLevels |-> s.hqequalizer.levels]]
         /\ shown(s, "preamp") = [enabled |-> s.preamp.enabled, setting |-> s.preamp.level]
         /\ shown(s, "presetreverb") = [enabled |-> s.presetreverb.enabled, setting |-> s.presetreverb.preset]
         /\ shown(s, "envreverb") = [enabled |-> s.envreverb.enabled, setting |-> s.envreverb.settings]
  BY DEF shown

\* an equalizer is asked for a preset that is none
Refused(kind, what, arg) == kind \in {"equalizer", "hqequalizer"} /\ what = "usePreset" /\ arg = EQ!UNDEFINED

Replies(k, s, what, arg, active, answer) ==
  IF what \in Control!Queries
    THEN /\ answer.system = s /\ answer.result = "success"
         /\ answer.value = Control!Told(k, shown(s, k), what, arg, active)
  ELSE IF active /\ ~Refused(k, what, arg)
    THEN /\ answer.result = "success" /\ answer.value = NULL
         /\ shown(answer.system, k) = Control!Changed(k, shown(s, k), what, arg)
  ELSE /\ answer.system = s /\ answer.value = NULL
       /\ answer.result = IF active THEN "illegal_argument" ELSE "control_lost"

LEMMA BassBoostReplies ==
  ASSUME NEW s, SystemOK(s), NEW what \in Methods("bassboost"), NEW arg, NEW active \in BOOLEAN
  PROVE  Replies("bassboost", s, what, arg, active, BB!processMessage(s, what, arg, active))
  <1> DEFINE k == "bassboost"
             old == s.bassboost
             answer == BB!processMessage(s, what, arg, active)
  <1>1. k \in Fields /\ old \in [enabled : BOOLEAN, strength : {old.strength}]
    BY FieldNames DEF SystemOK, Setting
  <1>2. shown(s, k) = [enabled |-> old.enabled, setting |-> old.strength]
    BY Shown
  <1>3. CASE what \in Control!Queries
    <2>1. answer = [system |-> s, result |-> "success", value |-> BB!query(s, what, active)]
      BY <1>3 DEF Methods, Control!Queries, Control!Facts, BB!Getters, BB!Setters, BB!processMessage, BB!Success, BB!Answered
    <2>2. BB!query(s, what, active) = Control!Told(k, [enabled |-> old.enabled, setting |-> old.strength], what, arg, active)
      BY <1>3 DEF Methods, Control!Queries, Control!Facts, Control!Fact, Control!Told, BB!Getters, BB!Setters, BB!query,
                  BB!GetProperties
    <2> HIDE DEF answer
    <2> QED  BY <1>2, <1>3, <2>1, <2>2 DEF Replies, answer
  <1>4. CASE what \notin Control!Queries
    <2> DEFINE v == IF what = "setEnabled" THEN [old EXCEPT !.enabled = arg] ELSE [old EXCEPT !.strength = arg]
               r == [s EXCEPT !.bassboost = v]
    <2>1. what \in {"setEnabled", "setStrength", "setProperties"} /\ what \notin BB!Getters
      BY <1>4 DEF Methods, Control!Queries, Control!Facts, BB!Getters, BB!Setters
    <2>2. r.bassboost = v /\ v.enabled = (IF what = "setEnabled" THEN arg ELSE old.enabled)
          /\ v.strength = IF what = "setEnabled" THEN old.strength ELSE arg
      BY <1>1, FieldGiven
    <2>3. answer = IF active THEN [system |-> r, result |-> "success", value |-> NULL]
                   ELSE [system |-> s, result |-> "control_lost", value |-> NULL]
      BY <2>1 DEF BB!processMessage, BB!IfActive, BB!Success, BB!Answered, BB!change, BB!SetProperties
    <2> HIDE DEF v, r, answer
    <2>4. shown(r, k) = Control!Changed(k, [enabled |-> old.enabled, setting |-> old.strength], what, arg)
      BY <2>1, <2>2, Shown DEF Control!Changed, Control!Set
    <2> HIDE DEF old
    <2> QED  BY <1>2, <1>4, <2>3, <2>4 DEF Replies, Refused, answer
  <1> QED  BY <1>3, <1>4

LEMMA VirtualizerReplies ==
  ASSUME NEW s, SystemOK(s), NEW what \in Methods("virtualizer"), NEW arg, NEW active \in BOOLEAN
  PROVE  Replies("virtualizer", s, what, arg, active, VI!processMessage(s, what, arg, active))
  <1> DEFINE k == "virtualizer"
             old == s.virtualizer
             answer == VI!processMessage(s, what, arg, active)
  <1>1. k \in Fields /\ old \in [enabled : BOOLEAN, strength : {old.strength}]
    BY FieldNames DEF SystemOK, Setting
  <1>2. shown(s, k) = [enabled |-> old.enabled, setting |-> old.strength]
    BY Shown
  <1>3. CASE what \in Control!Queries
    <2>1. answer = [system |-> s, result |-> "success", value |-> VI!query(s, what, active)]
      BY <1>3 DEF Methods, Control!Queries, Control!Facts, VI!Getters, VI!Setters, VI!processMessage, VI!Success, VI!Answered
    <2>2. VI!query(s, what, active) = Control!Told(k, [enabled |-> old.enabled, setting |-> old.strength], what, arg, active)
      BY <1>3 DEF Methods, Control!Queries, Control!Facts, Control!Fact, Control!Told, VI!Getters, VI!Setters, VI!query,
                  VI!GetProperties
    <2> HIDE DEF answer
    <2> QED  BY <1>2, <1>3, <2>1, <2>2 DEF Replies, answer
  <1>4. CASE what \notin Control!Queries
    <2> DEFINE v == IF what = "setEnabled" THEN [old EXCEPT !.enabled = arg] ELSE [old EXCEPT !.strength = arg]
               r == [s EXCEPT !.virtualizer = v]
    <2>1. what \in {"setEnabled", "setStrength", "setProperties"} /\ what \notin VI!Getters
      BY <1>4 DEF Methods, Control!Queries, Control!Facts, VI!Getters, VI!Setters
    <2>2. r.virtualizer = v /\ v.enabled = (IF what = "setEnabled" THEN arg ELSE old.enabled)
          /\ v.strength = IF what = "setEnabled" THEN old.strength ELSE arg
      BY <1>1, FieldGiven
    <2>3. answer = IF active THEN [system |-> r, result |-> "success", value |-> NULL]
                   ELSE [system |-> s, result |-> "control_lost", value |-> NULL]
      BY <2>1 DEF VI!processMessage, VI!IfActive, VI!Success, VI!Answered, VI!change, VI!SetProperties
    <2> HIDE DEF v, r, answer
    <2>4. shown(r, k) = Control!Changed(k, [enabled |-> old.enabled, setting |-> old.strength], what, arg)
      BY <2>1, <2>2, Shown DEF Control!Changed, Control!Set
    <2> HIDE DEF old
    <2> QED  BY <1>2, <1>4, <2>3, <2>4 DEF Replies, Refused, answer
  <1> QED  BY <1>3, <1>4

LEMMA PreAmpReplies ==
  ASSUME NEW s, SystemOK(s), NEW what \in Methods("preamp"), NEW arg, NEW active \in BOOLEAN,
         what = "setEnabled" => arg \in BOOLEAN
  PROVE  Replies("preamp", s, what, arg, active, PA!processMessage(s, what, arg, active))
  <1> DEFINE k == "preamp"
             old == s.preamp
             answer == PA!processMessage(s, what, arg, active)
             Record(v) == v \in [enabled : BOOLEAN, level : {v.level}, mixer_level : {v.mixer_level}]
  <1>1. k \in Fields /\ Record(old)
    BY FieldNames DEF SystemOK, Setting
  <1>2. shown(s, k) = [enabled |-> old.enabled, setting |-> old.level]
    BY Shown
  <1>3. CASE what \in Control!Queries
    <2>1. answer = [system |-> s, result |-> "success", value |-> PA!query(s, what, active)]
      BY <1>3 DEF Methods, Control!Queries, Control!Facts, PA!Getters, PA!Setters, PA!processMessage, PA!Success, PA!Answered
    <2>2. PA!query(s, what, active) = Control!Told(k, [enabled |-> old.enabled, setting |-> old.level], what, arg, active)
      BY <1>3 DEF Methods, Control!Queries, Control!Facts, Control!Fact, Control!Told, PA!Getters, PA!Setters, PA!query
    <2> HIDE DEF answer
    <2> QED  BY <1>2, <1>3, <2>1, <2>2 DEF Replies, answer
  <1>4. CASE what \notin Control!Queries
    <2> DEFINE v == PA!change(old, what, arg)
               r == [s EXCEPT !.preamp = v]
    <2>1. what \in {"setEnabled", "setLevel", "setProperties"} /\ what \notin PA!Getters
      BY <1>4 DEF Methods, Control!Queries, Control!Facts, PA!Getters, PA!Setters
    <2>2. /\ v.enabled = (IF what = "setEnabled" THEN arg ELSE old.enabled)
          /\ v.level = IF what = "setEnabled" THEN old.level ELSE arg
      <3> DEFINE w == IF what = "setEnabled" THEN [old EXCEPT !.enabled = arg] ELSE [old EXCEPT !.level = arg]
      <3>1. Record(w) /\ w.enabled = (IF what = "setEnabled" THEN arg ELSE old.enabled)
            /\ w.level = IF what = "setEnabled" THEN old.level ELSE arg
        BY <1>1
      <3>2. v = PA!apply(w)
        BY <2>1 DEF PA!change, PA!setEnabled, PA!setLevel
      <3> HIDE DEF w, v
      <3>3. v.enabled = w.enabled /\ v.level = w.level
        BY <3>1, <3>2 DEF PA!apply
      <3> QED  BY <3>1, <3>3
    <2> HIDE DEF v
    <2>3. r.preamp = v
      BY <1>1, FieldGiven
    <2>4. answer = IF active THEN [system |-> r, result |-> "success", value |-> NULL]
                   ELSE [system |-> s, result |-> "control_lost", value |-> NULL]
      BY <2>1 DEF PA!processMessage, PA!IfActive, PA!Success, PA!Answered, v
    <2> HIDE DEF r, answer
    <2>5. shown(r, k) = Control!Changed(k, [enabled |-> old.enabled, setting |-> old.level], what, arg)
      BY <2>1, <2>2, <2>3, Shown DEF Control!Changed, Control!Set
    <2> HIDE DEF old
    <2> QED  BY <1>2, <1>4, <2>4, <2>5 DEF Replies, Refused, answer
  <1> QED  BY <1>3, <1>4

\* a reverb is switched when it is not as it should be already
LEMMA ReverbSet ==
  ASSUME NEW s, SystemOK(s), NEW k \in {"presetreverb", "envreverb"}, NEW arg \in BOOLEAN, NEW r,
         \/ s[k].enabled = arg /\ r = s
         \/ \E a : r = [[s EXCEPT ![k] = [@ EXCEPT !.enabled = arg]] EXCEPT !.aux = a]
  PROVE  shown(r, k) = [enabled |-> arg, setting |-> shown(s, k).setting]
  <1> DEFINE old == s[k]
             v == [old EXCEPT !.enabled = arg]
  <1>1. k \in Fields /\ k # "aux" /\ s = [g \in Fields |-> s[g]] /\ Setting(k, old)
    BY FieldNames DEF SystemOK
  <1>2. CASE k = "presetreverb"
    <2>1. old \in [enabled : BOOLEAN, preset : {old.preset}]
      BY <1>1, <1>2 DEF Setting
    <2>2. v.enabled = arg /\ v.preset = old.preset
      BY <2>1
    <2>3. r[k].enabled = arg /\ r[k].preset = old.preset
      <3>1. CASE s[k].enabled = arg /\ r = s
        BY <3>1
      <3>2. CASE \E a : r = [[s EXCEPT ![k] = v] EXCEPT !.aux = a]
        <4> HIDE DEF v, old
        <4>1. r[k] = v
          BY <1>1, <3>2
        <4> QED  BY <2>2, <4>1
      <3> QED  BY <3>1, <3>2
    <2>4. shown(r, k) = [enabled |-> r[k].enabled, setting |-> r[k].preset] /\ shown(s, k).setting = old.preset
      BY <1>2 DEF shown
    <2> HIDE DEF old
    <2> QED  BY <2>3, <2>4
  <1>3. CASE k = "envreverb"
    <2>1. old \in [enabled : BOOLEAN, settings : {old.settings}]
      BY <1>1, <1>3 DEF Setting
    <2>2. v.enabled = arg /\ v.settings = old.settings
      BY <2>1
    <2>3. r[k].enabled = arg /\ r[k].settings = old.settings
      <3>1. CASE s[k].enabled = arg /\ r = s
        BY <3>1
      <3>2. CASE \E a : r = [[s EXCEPT ![k] = v] EXCEPT !.aux = a]
        <4> HIDE DEF v, old
        <4>1. r[k] = v
          BY <1>1, <3>2
        <4> QED  BY <2>2, <4>1
      <3> QED  BY <3>1, <3>2
    <2>4. shown(r, k) = [enabled |-> r[k].enabled, setting |-> r[k].settings] /\ shown(s, k).setting = old.settings
      BY <1>3 DEF shown
    <2> HIDE DEF old
    <2> QED  BY <2>3, <2>4
  <1> QED  BY <1>2, <1>3

LEMMA PresetReverbReplies ==
  ASSUME NEW s, SystemOK(s), NEW what \in Methods("presetreverb"), NEW arg, NEW active \in BOOLEAN,
         what = "setEnabled" => arg \in BOOLEAN
  PROVE  Replies("presetreverb", s, what, arg, active, PR!processMessage(s, what, arg, active))
  <1> DEFINE k == "presetreverb"
             old == s.presetreverb
             answer == PR!processMessage(s, what, arg, active)
  <1>1. k \in Fields /\ old \in [enabled : BOOLEAN, preset : {old.preset}]
    BY FieldNames DEF SystemOK, Setting
  <1>2. shown(s, k) = [enabled |-> old.enabled, setting |-> old.preset]
    BY Shown
  <1>3. CASE what \in Control!Queries
    <2>1. answer = [system |-> s, result |-> "success", value |-> PR!query(s, what, active)]
      BY <1>3 DEF Methods, Control!Queries, Control!Facts, PR!Getters, PR!Setters, PR!processMessage, PR!Success, PR!Answered
    <2>2. PR!query(s, what, active) = Control!Told(k, [enabled |-> old.enabled, setting |-> old.preset], what, arg, active)
      BY <1>3 DEF Methods, Control!Queries, Control!Facts, Control!Fact, Control!Told, PR!Getters, PR!Setters, PR!query,
                  PR!GetProperties
    <2> HIDE DEF answer
    <2> QED  BY <1>2, <1>3, <2>1, <2>2 DEF Replies, answer
  <1>4. CASE what \notin Control!Queries
    <2> DEFINE r == PR!change(s, what, arg)
    <2>1. what \in {"setEnabled", "setPreset", "setProperties"} /\ what \notin PR!Getters
      BY <1>4 DEF Methods, Control!Queries, Control!Facts, PR!Getters, PR!Setters
    <2>2. answer = IF active THEN [system |-> r, result |-> "success", value |-> NULL]
                   ELSE [system |-> s, result |-> "control_lost", value |-> NULL]
      BY <2>1 DEF PR!processMessage, PR!IfActive, PR!Success, PR!Answered
    <2> HIDE DEF answer
    <2>3. CASE what = "setEnabled"
      <3>1. \/ s[k].enabled = arg /\ r = s
            \/ \E a : r = [[s EXCEPT ![k] = [@ EXCEPT !.enabled = arg]] EXCEPT !.aux = a]
        BY <2>3 DEF PR!change, PR!setEnabled, PR!onEnabledChanged
      <3> HIDE DEF r
      <3>2. shown(r, k) = Control!Changed(k, shown(s, k), what, arg)
        BY <2>3, <3>1, ReverbSet DEF Control!Changed
      <3> QED  BY <1>4, <2>2, <3>2 DEF Replies, Refused, answer
    <2>4. CASE what # "setEnabled"
      <3> DEFINE v == [old EXCEPT !.preset = arg]
      <3>1. r = [s EXCEPT !.presetreverb = v]
        BY <2>4 DEF PR!change, PR!SetProperties
      <3>2. v.enabled = old.enabled /\ v.preset = arg
        BY <1>1
      <3> HIDE DEF v, r
      <3>3. r.presetreverb = v
        BY <1>1, <3>1, FieldGiven
      <3>4. shown(r, k) = Control!Changed(k, [enabled |-> old.enabled, setting |-> old.preset], what, arg)
        BY <2>1, <2>4, <3>2, <3>3, Shown DEF Control!Changed, Control!Set
      <3> HIDE DEF old
      <3> QED  BY <1>2, <1>4, <2>2, <3>4 DEF Replies, Refused, answer
    <2> QED  BY <2>3, <2>4
  <1> QED  BY <1>3, <1>4

LEMMA EnvReverbReplies ==
  ASSUME NEW s, SystemOK(s), NEW what \in Methods("envreverb"), NEW arg, NEW active \in BOOLEAN,
         what = "setEnabled" => arg \in BOOLEAN
  PROVE  Replies("envreverb", s, what, arg, active, ER!processMessage(s, what, arg, active))
  <1> DEFINE k == "envreverb"
             old == s.envreverb
             answer == ER!processMessage(s, what, arg, active)
  <1>1. k \in Fields /\ old \in [enabled : BOOLEAN, settings : {old.settings}]
    BY FieldNames DEF SystemOK, Setting
  <1>2. shown(s, k) = [enabled |-> old.enabled, setting |-> old.settings]
    BY Shown
  <1>3. CASE what \in Control!Queries
    <2> DEFINE told == Control!Told(k, [enabled |-> old.enabled, setting |-> old.settings], what, arg, active)
    <2>1. CASE what = "getParameter"
      <3>1. answer = [system |-> s, result |-> "success", value |-> old.settings[arg]]
        BY <2>1 DEF ER!StatusGetters, ER!processMessage, ER!Success, ER!Answered, ER!queryParameter
      <3>2. told = old.settings[arg]
        BY <2>1 DEF Control!Told, Control!Facts
      <3> HIDE DEF answer, told
      <3> QED  BY <1>2, <1>3, <3>1, <3>2 DEF Replies, answer, told
    <2>2. CASE what # "getParameter"
      <3>1. answer = [system |-> s, result |-> "success", value |-> ER!queryStatus(s, what, active)]
        BY <1>3, <2>2 DEF Methods, Control!Queries, Control!Facts, ER!StatusGetters, ER!processMessage, ER!Success,
                          ER!Answered
      <3>2. ER!queryStatus(s, what, active) = told
        BY <1>3, <2>2 DEF Methods, Control!Queries, Control!Facts, Control!Fact, Control!Told, ER!StatusGetters,
                          ER!queryStatus
      <3> HIDE DEF answer, told
      <3> QED  BY <1>2, <1>3, <3>1, <3>2 DEF Replies, answer, told
    <2> QED  BY <2>1, <2>2
  <1>4. CASE what \notin Control!Queries
    <2> DEFINE r == ER!change(s, what, arg)
    <2>1. what \in {"setEnabled", "setParameter", "setProperties"} /\ what \notin ER!StatusGetters
      BY <1>4 DEF Methods, Control!Queries, Control!Facts, ER!StatusGetters
    <2>2. answer = IF active THEN [system |-> r, result |-> "success", value |-> NULL]
                   ELSE [system |-> s, result |-> "control_lost", value |-> NULL]
      BY <2>1 DEF ER!processMessage, ER!IfActive, ER!Success, ER!Answered
    <2> HIDE DEF answer
    <2>3. CASE what = "setEnabled"
      <3>1. \/ s[k].enabled = arg /\ r = s
            \/ \E a : r = [[s EXCEPT ![k] = [@ EXCEPT !.enabled = arg]] EXCEPT !.aux = a]
        BY <2>3 DEF ER!change, ER!setEnabled, ER!onEnabledChanged
      <3> HIDE DEF r
      <3>2. shown(r, k) = Control!Changed(k, shown(s, k), what, arg)
        BY <2>3, <3>1, ReverbSet DEF Control!Changed
      <3> QED  BY <1>4, <2>2, <3>2 DEF Replies, Refused, answer
    <2>4. CASE what # "setEnabled"
      <3> DEFINE l == IF what = "setParameter" THEN [old.settings EXCEPT ![arg.parameter] = arg.value] ELSE arg
                 v == [old EXCEPT !.settings = l]
      <3>1. r = [s EXCEPT !.envreverb = v]
        <4>1. CASE what = "setParameter"
          <5>1. r = [s EXCEPT !.envreverb.settings[arg.parameter] = arg.value]
            BY <4>1 DEF ER!change, ER!setParameter
          <5> QED  BY <1>1, <4>1, <5>1
        <4>2. CASE what = "setProperties"
          BY <4>2 DEF ER!change
        <4> QED  BY <2>1, <2>4, <4>1, <4>2
      <3> HIDE DEF l
      <3>2. v.enabled = old.enabled /\ v.settings = l
        BY <1>1
      <3>3. l = Control!Set(k, old.settings, what, arg)
        BY <2>1, <2>4 DEF Control!Set, l
      <3> HIDE DEF v, r
      <3>4. r.envreverb = v
        BY <1>1, <3>1, FieldGiven
      <3>5. shown(r, k) = Control!Changed(k, [enabled |-> old.enabled, setting |-> old.settings], what, arg)
        BY <2>4, <3>2, <3>3, <3>4, Shown DEF Control!Changed
      <3> HIDE DEF old
      <3> QED  BY <1>2, <1>4, <2>2, <3>5 DEF Replies, Refused, answer
    <2> QED  BY <2>3, <2>4
  <1> QED  BY <1>3, <1>4

\* the levels of a preset are those it came with
EqRight(eq) == eq.preset # EQ!UNDEFINED => eq.levels = EQ!Flat(PresetLevel(eq.preset))
EqSame(eq, r) == EqRecord(r) /\ r.enabled = eq.enabled

LEMMA PresetUsed ==
  ASSUME NEW eq, EqRecord(eq), NEW preset, NEW r, r = EQ!UsePreset(eq, preset)
  PROVE  EqSame(eq, r) /\ EqRight(r) /\ r.preset = preset /\ r.levels = EQ!Flat(PresetLevel(preset))
  <1> DEFINE l == EQ!Flat(PresetLevel(preset))
  <1>1. r = [eq EXCEPT !.preset = preset, !.levels = l]
    BY DEF EQ!UsePreset
  <1> HIDE DEF l
  <1>2. EqRecord(r) /\ r.enabled = eq.enabled /\ r.preset = preset /\ r.levels = l
    BY <1>1 DEF EqRecord
  <1> QED  BY <1>2 DEF EqSame, EqRight, l

Leveled(eq, levels) == [eq EXCEPT !.preset = EQ!UNDEFINED, !.levels = levels]

LEMMA LevelsGiven ==
  ASSUME NEW eq, EqRecord(eq), NEW levels, NEW r, r = Leveled(eq, levels)
  PROVE  EqSame(eq, r) /\ EqRight(r) /\ r.preset = EQ!UNDEFINED /\ r.levels = levels
  <1>1. EqRecord(r) /\ r.enabled = eq.enabled /\ r.preset = EQ!UNDEFINED /\ r.levels = levels
    BY DEF EqRecord, Leveled
  <1> QED  BY <1>1 DEF EqSame, EqRight

LEMMA PropertiesSet ==
  ASSUME NEW eq, EqRecord(eq), NEW settings, NEW r, r = EQ!SetProperties(eq, settings)
  PROVE  /\ EqSame(eq, r) /\ EqRight(r)
         /\ settings.curPreset # EQ!UNDEFINED =>
              r.preset = settings.curPreset /\ r.levels = EQ!Flat(PresetLevel(settings.curPreset))
         /\ settings.curPreset = EQ!UNDEFINED => r.preset = EQ!UNDEFINED /\ r.levels = settings.bandLevels
  <1>1. CASE settings.curPreset # EQ!UNDEFINED
    <2>1. r = EQ!UsePreset(eq, settings.curPreset)
      BY <1>1 DEF EQ!SetProperties
    <2>2. /\ EqSame(eq, r) /\ EqRight(r) /\ r.preset = settings.curPreset
          /\ r.levels = EQ!Flat(PresetLevel(settings.curPreset))
      BY <2>1, PresetUsed
    <2> QED  BY <1>1, <2>2
  <1>2. CASE settings.curPreset = EQ!UNDEFINED
    <2> DEFINE levels == settings.bandLevels
    <2>1. r = Leveled(eq, levels)
      BY <1>2 DEF EQ!SetProperties, Leveled
    <2> HIDE DEF levels
    <2>2. EqSame(eq, r) /\ EqRight(r) /\ r.preset = EQ!UNDEFINED /\ r.levels = levels
      BY <2>1, LevelsGiven
    <2> QED  BY <1>2, <2>2 DEF levels
  <1> QED  BY <1>1, <1>2

\* what is written again is what was there
LEMMA SettingsRefreshed ==
  ASSUME NEW eq, EqRecord(eq), EqRight(eq), NEW r, r = EQ!workAroundRefreshSettings(eq)
  PROVE  EqSame(eq, r) /\ EqRight(r) /\ r.preset = eq.preset /\ r.levels = eq.levels
  <1> DEFINE settings == EQ!GetProperties(eq)
  <1>1. settings.curPreset = eq.preset /\ settings.bandLevels = eq.levels
    BY DEF EQ!GetProperties
  <1>2. r = EQ!SetProperties(eq, settings)
    BY DEF EQ!workAroundRefreshSettings
  <1> HIDE DEF settings
  <1>3. /\ EqSame(eq, r) /\ EqRight(r)
        /\ settings.curPreset # EQ!UNDEFINED =>
             r.preset = settings.curPreset /\ r.levels = EQ!Flat(PresetLevel(settings.curPreset))
        /\ settings.curPreset = EQ!UNDEFINED => r.preset = EQ!UNDEFINED /\ r.levels = settings.bandLevels
    BY <1>2, PropertiesSet
  <1> QED  BY <1>1, <1>3 DEF EqRight

LEMMA EqualizerChanges ==
  ASSUME NEW eq, EqRecord(eq), EqRight(eq), NEW what \in EQ!Setters, NEW arg, what = "setEnabled" => arg \in BOOLEAN,
         NEW r, r = EQ!change(eq, what, arg), NEW s, s = [enabled |-> eq.enabled, setting |-> [curPreset |-> eq.preset, bandLevels |-> eq.levels]]
  PROVE  /\ EqRecord(r) /\ EqRight(r)
         /\ [enabled |-> r.enabled, setting |-> [curPreset |-> r.preset, bandLevels |-> r.levels]]
              = Control!Changed("equalizer", s, what, arg)
  <1> DEFINE result == Control!Changed("equalizer", s, what, arg)
  <1>1. s.enabled = eq.enabled /\ s.setting.curPreset = eq.preset /\ s.setting.bandLevels = eq.levels
        /\ s.setting = [curPreset |-> eq.preset, bandLevels |-> eq.levels]
    OBVIOUS
  <1>2. \A level : EQ!Flat(level) = Control!Flat(level)
    BY DEF EQ!Flat, EQ!Bands, Control!Flat
  <1>3. CASE what = "setEnabled"
    <2> DEFINE w == IF arg THEN EQ!workAroundRefreshSettings(eq) ELSE eq
    <2>1. r = [w EXCEPT !.enabled = arg]
      BY <1>3 DEF EQ!change
    <2>2. EqRecord(w) /\ EqRight(w) /\ w.preset = eq.preset /\ w.levels = eq.levels
      BY SettingsRefreshed DEF EqSame
    <2> HIDE DEF w
    <2>3. EqRecord(r) /\ r.enabled = arg /\ r.preset = w.preset /\ r.levels = w.levels
      BY <1>3, <2>1, <2>2 DEF EqRecord
    <2>4. EqRight(r)
      BY <2>2, <2>3 DEF EqRight
    <2>5. result = [enabled |-> arg, setting |-> s.setting]
      BY <1>3 DEF Control!Changed
    <2> QED  BY <1>1, <2>2, <2>3, <2>4, <2>5
  <1>4. CASE what = "setBandLevel"
    <2> DEFINE l == [eq.levels EXCEPT ![arg.band] = arg.level]
    <2>1. r = Leveled(eq, l)
      BY <1>4 DEF EQ!change, EQ!SetBandLevel, EqRecord, Leveled
    <2>2. result = [enabled |-> eq.enabled, setting |-> [curPreset |-> EQ!UNDEFINED, bandLevels |-> l]]
      BY <1>1, <1>4 DEF Control!Changed, Control!Set, Control!UNDEFINED, EQ!UNDEFINED
    <2> HIDE DEF l, result
    <2>3. EqSame(eq, r) /\ EqRight(r) /\ r.preset = EQ!UNDEFINED /\ r.levels = l
      BY <2>1, LevelsGiven
    <2> QED  BY <2>2, <2>3 DEF EqSame, result
  <1>5. CASE what = "usePreset"
    <2>1. r = EQ!UsePreset(eq, arg)
      BY <1>5 DEF EQ!change
    <2>2. EqSame(eq, r) /\ EqRight(r) /\ r.preset = arg /\ r.levels = EQ!Flat(PresetLevel(arg))
      BY <2>1, PresetUsed
    <2>3. result = [enabled |-> eq.enabled, setting |-> [curPreset |-> arg, bandLevels |-> Control!Flat(PresetLevel(arg))]]
      BY <1>1, <1>5 DEF Control!Changed, Control!Set, Control!Preset
    <2> HIDE DEF result
    <2> QED  BY <1>2, <2>2, <2>3 DEF EqSame, result
  <1>6. CASE what = "setProperties"
    <2>1. r = EQ!SetProperties(eq, arg)
      BY <1>6 DEF EQ!change
    <2>2. /\ EqSame(eq, r) /\ EqRight(r)
          /\ arg.curPreset # EQ!UNDEFINED =>
               r.preset = arg.curPreset /\ r.levels = EQ!Flat(PresetLevel(arg.curPreset))
          /\ arg.curPreset = EQ!UNDEFINED => r.preset = EQ!UNDEFINED /\ r.levels = arg.bandLevels
      BY <2>1, PropertiesSet
    <2>3. result = [enabled |-> eq.enabled,
                    setting |-> IF arg.curPreset # EQ!UNDEFINED
                                  THEN [curPreset |-> arg.curPreset, bandLevels |-> Control!Flat(PresetLevel(arg.curPreset))]
                                  ELSE [curPreset |-> EQ!UNDEFINED, bandLevels |-> arg.bandLevels]]
      BY <1>1, <1>6 DEF Control!Changed, Control!Set, Control!Preset, Control!UNDEFINED, EQ!UNDEFINED
    <2> HIDE DEF result
    <2> QED  BY <1>2, <2>2, <2>3 DEF EqSame, result
  <1> QED  BY <1>3, <1>4, <1>5, <1>6 DEF EQ!Setters

LEMMA EqualizerReplies ==
  ASSUME NEW s, SystemOK(s), EqRight(s.equalizer), NEW what \in Methods("equalizer"), NEW arg, NEW active \in BOOLEAN,
         what = "setEnabled" => arg \in BOOLEAN
  PROVE  LET answer == EQ!processMessage(s, what, arg, active)
         IN Replies("equalizer", s, what, arg, active, answer) /\ EqRight(answer.system.equalizer)
  <1> DEFINE k == "equalizer"
             old == s.equalizer
             was == [enabled |-> old.enabled, setting |-> [curPreset |-> old.preset, bandLevels |-> old.levels]]
             answer == EQ!processMessage(s, what, arg, active)
  <1>1. k \in Fields /\ EqRecord(old)
    BY FieldNames DEF SystemOK, Setting, EqRecord
  <1>2. shown(s, k) = was
    BY Shown
  <1>3. CASE what \in Control!Queries
    <2>1. answer = [system |-> s, result |-> "success", value |-> EQ!query(s, what, active)]
      BY <1>3 DEF Methods, Control!Queries, Control!Facts, EQ!Getters, EQ!Setters, EQ!processMessage, EQ!Success, EQ!Answered
    <2>2. EQ!query(s, what, active) = Control!Told(k, was, what, arg, active)
      BY <1>3 DEF Methods, Control!Queries, Control!Facts, Control!Fact, Control!Told, EQ!Getters, EQ!Setters, EQ!query,
                  EQ!GetProperties
    <2> HIDE DEF answer, was
    <2> QED  BY <1>2, <1>3, <2>1, <2>2 DEF Replies, answer
  <1>4. CASE what \notin Control!Queries
    <2> DEFINE v == EQ!change(old, what, arg)
               r == [s EXCEPT !.equalizer = v]
    <2>1. what \in EQ!Setters /\ what \notin EQ!Getters
      BY <1>4 DEF Methods, Control!Queries, Control!Facts, EQ!Getters, EQ!Setters
    <2>2. answer = IF active /\ what = "usePreset" /\ arg = EQ!UNDEFINED
                     THEN [system |-> s, result |-> "illegal_argument", value |-> NULL]
                   ELSE IF active THEN [system |-> r, result |-> "success", value |-> NULL]
                   ELSE [system |-> s, result |-> "control_lost", value |-> NULL]
      BY <2>1 DEF EQ!processMessage, EQ!IfActive, EQ!Success, EQ!Answered, EQ!RefusedPreset
    <2> HIDE DEF v, was, answer
    <2>3. r.equalizer = v
      BY <1>1, FieldGiven
    <2> HIDE DEF r
    <2>4. /\ EqRecord(v) /\ EqRight(v)
          /\ [enabled |-> v.enabled, setting |-> [curPreset |-> v.preset, bandLevels |-> v.levels]]
               = Control!Changed(k, was, what, arg)
      BY <1>1, <2>1, EqualizerChanges DEF v, was
    <2>5. shown(r, k) = Control!Changed(k, was, what, arg) /\ EqRight(r.equalizer)
      BY <2>3, <2>4, Shown
    <2>6. Refused(k, what, arg) <=> what = "usePreset" /\ arg = EQ!UNDEFINED
      BY DEF Refused
    <2>7. Replies(k, s, what, arg, active, answer)
      <3> HIDE DEF k
      <3>1. CASE active /\ ~Refused(k, what, arg)
        BY <1>2, <1>4, <2>2, <2>5, <2>6, <3>1 DEF Replies
      <3>2. CASE ~(active /\ ~Refused(k, what, arg))
        BY <1>4, <2>2, <2>6, <3>2 DEF Replies
      <3> QED  BY <3>1, <3>2
    <2>8. EqRight(answer.system.equalizer)
      BY <2>2, <2>5
    <2> QED  BY <2>7, <2>8 DEF answer
  <1> QED  BY <1>3, <1>4

LEMMA HQEqualizerChanges ==
  ASSUME NEW eq, EqRecord(eq), NEW what \in HQ!Setters, NEW arg, what = "setEnabled" => arg \in BOOLEAN,
         NEW r, r = HQ!change(eq, what, arg), NEW s, s = [enabled |-> eq.enabled, setting |-> [curPreset |-> eq.preset, bandLevels |-> eq.levels]]
  PROVE  [enabled |-> r.enabled, setting |-> [curPreset |-> r.preset, bandLevels |-> r.levels]]
           = Control!Changed("hqequalizer", s, what, arg)
  <1> DEFINE Both(levels, preset) == [HQ!setAllBandLevel(eq, levels) EXCEPT !.preset = preset]
             result == Control!Changed("hqequalizer", s, what, arg)
  <1>1. s.enabled = eq.enabled /\ s.setting.curPreset = eq.preset /\ s.setting.bandLevels = eq.levels
        /\ s.setting = [curPreset |-> eq.preset, bandLevels |-> eq.levels]
    OBVIOUS
  <1>2. \A preset : HQ!PresetData(preset) = Control!Flat(PresetLevel(preset))
    BY DEF HQ!PresetData, HQ!Bands, Control!Flat
  <1>3. ASSUME NEW levels, NEW preset
        PROVE  /\ Both(levels, preset).enabled = eq.enabled
               /\ Both(levels, preset).preset = preset /\ Both(levels, preset).levels = levels
    <2>1. PICK x : x = [eq EXCEPT !.levels = levels]
      OBVIOUS
    <2>2. EqRecord(x) /\ x.enabled = eq.enabled /\ x.levels = levels
      BY <2>1 DEF EqRecord
    <2>3. Both(levels, preset) = [x EXCEPT !.preset = preset]
      BY <2>1 DEF HQ!setAllBandLevel
    <2> QED  BY <2>2, <2>3 DEF EqRecord
  <1> HIDE DEF Both
  <1>4. CASE what = "setEnabled"
    <2>1. r = [eq EXCEPT !.enabled = arg]
      BY <1>4 DEF HQ!change, HQ!setEnabled
    <2>2. r.enabled = arg /\ r.preset = eq.preset /\ r.levels = eq.levels
      BY <1>4, <2>1 DEF EqRecord
    <2>3. result = [enabled |-> arg, setting |-> s.setting]
      BY <1>4 DEF Control!Changed
    <2> QED  BY <1>1, <2>2, <2>3
  <1>5. CASE what = "setBandLevel"
    <2> DEFINE l == [eq.levels EXCEPT ![arg.band] = arg.level]
    <2>1. r = IF eq.levels[arg.band] = arg.level THEN eq
              ELSE Both(l, HQ!UNDEFINED)
      <3>1. HQ!setBandLevel(eq, arg.band, arg.level) = HQ!setAllBandLevel(eq, l)
        BY DEF HQ!setBandLevel, HQ!setAllBandLevel, EqRecord
      <3> QED  BY <1>5, <3>1 DEF HQ!change, HQ!changeBandLevel, Both
    <2>2. result = [enabled |-> eq.enabled,
                    setting |-> IF eq.levels[arg.band] = arg.level THEN s.setting
                                ELSE [curPreset |-> HQ!UNDEFINED, bandLevels |-> l]]
      BY <1>1, <1>5 DEF Control!Changed, Control!Set, Control!UNDEFINED, HQ!UNDEFINED
    <2> HIDE DEF l, result
    <2>3. CASE eq.levels[arg.band] = arg.level
      BY <1>1, <2>1, <2>2, <2>3 DEF result
    <2>4. CASE eq.levels[arg.band] # arg.level
      <3>1. r = Both(l, HQ!UNDEFINED)
        BY <2>1, <2>4
      <3>2. r.enabled = eq.enabled /\ r.preset = HQ!UNDEFINED /\ r.levels = l
        BY <1>3, <3>1
      <3> QED  BY <2>2, <2>4, <3>2 DEF result
    <2> QED  BY <2>3, <2>4
  <1>6. CASE what = "usePreset"
    <2>1. r = Both(HQ!PresetData(arg), arg)
      BY <1>6 DEF HQ!change, HQ!usePreset, Both
    <2>2. r.enabled = eq.enabled /\ r.preset = arg /\ r.levels = HQ!PresetData(arg)
      BY <1>3, <2>1
    <2>3. result = [enabled |-> eq.enabled, setting |-> [curPreset |-> arg, bandLevels |-> Control!Flat(PresetLevel(arg))]]
      BY <1>1, <1>6 DEF Control!Changed, Control!Set, Control!Preset
    <2> HIDE DEF result
    <2> QED  BY <1>2, <2>2, <2>3 DEF result
  <1>7. CASE what = "setProperties"
    <2>1. result = [enabled |-> eq.enabled,
                    setting |-> IF arg.curPreset # HQ!UNDEFINED
                                  THEN [curPreset |-> arg.curPreset, bandLevels |-> Control!Flat(PresetLevel(arg.curPreset))]
                                  ELSE [curPreset |-> HQ!UNDEFINED, bandLevels |-> arg.bandLevels]]
      BY <1>1, <1>7 DEF Control!Changed, Control!Set, Control!Preset, Control!UNDEFINED, HQ!UNDEFINED
    <2> HIDE DEF result
    <2>2. CASE arg.curPreset # HQ!UNDEFINED
      <3>1. r = Both(HQ!PresetData(arg.curPreset), arg.curPreset)
        BY <1>7, <2>2 DEF HQ!change, HQ!setProperties, HQ!usePreset, Both
      <3>2. r.enabled = eq.enabled /\ r.preset = arg.curPreset /\ r.levels = HQ!PresetData(arg.curPreset)
        BY <1>3, <3>1
      <3> QED  BY <1>2, <2>1, <2>2, <3>2 DEF result
    <2>3. CASE arg.curPreset = HQ!UNDEFINED
      <3>1. r = Both(arg.bandLevels, HQ!UNDEFINED)
        BY <1>7, <2>3 DEF HQ!change, HQ!setProperties, Both
      <3>2. r.enabled = eq.enabled /\ r.preset = HQ!UNDEFINED /\ r.levels = arg.bandLevels
        BY <1>3, <3>1
      <3> QED  BY <2>1, <2>3, <3>2 DEF result
    <2> QED  BY <2>2, <2>3
  <1> QED  BY <1>4, <1>5, <1>6, <1>7 DEF HQ!Setters

LEMMA HQEqualizerReplies ==
  ASSUME NEW s, SystemOK(s), NEW what \in Methods("hqequalizer"), NEW arg, NEW active \in BOOLEAN,
         what = "setEnabled" => arg \in BOOLEAN
  PROVE  Replies("hqequalizer", s, what, arg, active, HQ!processMessage(s, what, arg, active))
  <1> DEFINE k == "hqequalizer"
             old == s.hqequalizer
             was == [enabled |-> old.enabled, setting |-> [curPreset |-> old.preset, bandLevels |-> old.levels]]
             answer == HQ!processMessage(s, what, arg, active)
  <1>1. k \in Fields /\ EqRecord(old)
    BY FieldNames DEF SystemOK, Setting, EqRecord
  <1>2. shown(s, k) = was
    BY Shown
  <1>3. CASE what \in Control!Queries
    <2>1. answer = [system |-> s, result |-> "success", value |-> HQ!query(s, what, active)]
      BY <1>3 DEF Methods, Control!Queries, Control!Facts, HQ!Getters, HQ!Setters, HQ!processMessage, HQ!Success, HQ!Answered
    <2>2. HQ!query(s, what, active) = Control!Told(k, was, what, arg, active)
      BY <1>3 DEF Methods, Control!Queries, Control!Facts, Control!Fact, Control!Told, HQ!Getters, HQ!Setters, HQ!query
    <2> HIDE DEF answer, was
    <2> QED  BY <1>2, <1>3, <2>1, <2>2 DEF Replies, answer
  <1>4. CASE what \notin Control!Queries
    <2> DEFINE v == HQ!change(old, what, arg)
               r == [s EXCEPT !.hqequalizer = v]
    <2>1. what \in HQ!Setters /\ what \notin HQ!Getters
      BY <1>4 DEF Methods, Control!Queries, Control!Facts, HQ!Getters, HQ!Setters
    <2>2. answer = IF active /\ what = "usePreset" /\ arg = HQ!UNDEFINED
                     THEN [system |-> s, result |-> "illegal_argument", value |-> NULL]
                   ELSE IF active THEN [system |-> r, result |-> "success", value |-> NULL]
                   ELSE [system |-> s, result |-> "control_lost", value |-> NULL]
      BY <2>1 DEF HQ!processMessage, HQ!IfActive, HQ!Success, HQ!Answered, HQ!RefusedPreset
    <2> HIDE DEF v, was, answer
    <2>3. r.hqequalizer = v
      BY <1>1, FieldGiven
    <2> HIDE DEF r
    <2>4. [enabled |-> v.enabled, setting |-> [curPreset |-> v.preset, bandLevels |-> v.levels]]
            = Control!Changed(k, was, what, arg)
      BY <1>1, <2>1, HQEqualizerChanges DEF v, was
    <2>5. shown(r, k) = Control!Changed(k, was, what, arg)
      BY <2>3, <2>4, Shown
    <2>6. Refused(k, what, arg) <=> what = "usePreset" /\ arg = HQ!UNDEFINED
      BY DEF Refused, EQ!UNDEFINED, HQ!UNDEFINED
    <2>7. Replies(k, s, what, arg, active, answer)
      <3> HIDE DEF k
      <3>1. CASE active /\ ~Refused(k, what, arg)
        BY <1>2, <1>4, <2>2, <2>5, <2>6, <3>1 DEF Replies
      <3>2. CASE ~(active /\ ~Refused(k, what, arg))
        BY <1>4, <2>2, <2>6, <3>2 DEF Replies
      <3> QED  BY <3>1, <3>2
    <2> QED  BY <2>7 DEF answer
  <1> QED  BY <1>3, <1>4

-----------------------------------------------------------------------------
(* What leaving a queue and answering a query come to.                     *)

\* who leaves is taken out of the place it has
LEMMA DetachedAt ==
  ASSUME NEW S, NEW clients \in Seq(S), OnceEach(clients), NEW i \in DOMAIN clients, NEW client, client = clients[i]
  PROVE  handleOnDetach(clients, client) = Control!RemoveAt(clients, i)
  <1> DEFINE N == Len(clients)
             kept == CHOOSE f : KeptOf(f, clients, client, N)
             Place(j) == IF j < i THEN clients[j] ELSE clients[j + 1]
             Size(n) == IF n < i THEN n ELSE n - 1
             Good(s, n) == s \in Seq(S) /\ Len(s) = Size(n) /\ \A j \in 1 .. Size(n) : s[j] = Place(j)
             P == {n \in 0 .. N : Good(kept[n], n)}
  <1>1. /\ N \in Nat /\ DOMAIN clients = 1 .. N /\ i \in 1 .. N /\ i \in Nat
        /\ \A j \in 1 .. N : clients[j] \in S /\ (clients[j] = client => j = i)
    BY DEF OnceEach
  <1>2. KeptOf(kept, clients, client, N)
    BY <1>1, KeptExists
  <1>3. handleOnDetach(clients, client) = kept[N]
    BY DEF handleOnDetach, KeptOf
  <1> HIDE DEF kept
  <1>4. 0 \in P
    <2>1. kept[0] = <<>> /\ 0 \in 0 .. N
      BY <1>1, <1>2, KeptStep
    <2>2. Good(kept[0], 0)
      BY <1>1, <2>1
    <2> HIDE DEF Good
    <2> QED  BY <2>1, <2>2
  <1>5. ASSUME NEW n \in 0 .. N - 1, n \in P PROVE n + 1 \in P
    <2> DEFINE s == kept[n]
               c == clients[n + 1]
    <2>1. n + 1 \in 1 .. N /\ n \in Nat /\ n + 1 \in 0 .. N
      BY <1>1
    <2>2. kept[n + 1] = IF c = client THEN s ELSE Append(s, c)
      BY <1>1, <1>2, KeptStep
    <2>3. Good(s, n)
      BY <1>5
    <2>4. c \in S /\ (c = client <=> n + 1 = i)
      BY <1>1, <2>1
    <2>5. Good(kept[n + 1], n + 1)
      <3>1. CASE c = client
        <4>1. Size(n + 1) = n /\ Size(n) = n /\ kept[n + 1] = s
          BY <1>1, <2>1, <2>2, <2>4, <3>1
        <4> HIDE DEF s, Place, Size
        <4> QED  BY <2>3, <4>1
      <3>2. CASE c # client
        <4> DEFINE r == Append(s, c)
        <4>1. /\ r \in Seq(S) /\ Len(r) = Len(s) + 1 /\ r[Len(s) + 1] = c
              /\ \A j \in 1 .. Len(s) : r[j] = s[j]
          BY <2>3, <2>4
        <4>2. Size(n + 1) = Size(n) + 1 /\ Size(n) \in Nat /\ Place(Size(n) + 1) = c
          BY <1>1, <2>1, <2>4, <3>2
        <4>3. kept[n + 1] = r
          BY <2>2, <3>2
        <4> HIDE DEF r, s, c, Place, Size
        <4>4. \A j \in 1 .. Size(n) + 1 : j \in 1 .. Size(n) \/ j = Size(n) + 1
          BY <4>2
        <4>5. ASSUME NEW j \in 1 .. Size(n) + 1 PROVE r[j] = Place(j)
          BY <2>3, <4>1, <4>2, <4>4
        <4>6. Good(r, n + 1)
          BY <2>3, <4>1, <4>2, <4>5
        <4> QED  BY <4>3, <4>6
      <3> QED  BY <3>1, <3>2
    <2> HIDE DEF Good
    <2> QED  BY <2>1, <2>5
  <1>6. P = 0 .. N
    <2>1. P \in SUBSET (0 .. N)
      OBVIOUS
    <2> HIDE DEF P, N
    <2> QED  BY <1>1, <1>4, <1>5, <2>1, UpTo
  <1>7. Good(kept[N], N)
    <2>1. N \in P
      <3>1. N \in 0 .. N
        BY <1>1
      <3> HIDE DEF P
      <3> QED  BY <1>6, <3>1
    <2> HIDE DEF Good
    <2> QED  BY <2>1
  <1>8. Control!RemoveAt(clients, i) \in Seq(S) /\ Len(Control!RemoveAt(clients, i)) = N - 1
        /\ \A j \in 1 .. N - 1 : Control!RemoveAt(clients, i)[j] = Place(j)
    <2> DEFINE a == SubSeq(clients, 1, i - 1)
               b == SubSeq(clients, i + 1, N)
    <2>1. a \in Seq(S) /\ Len(a) = i - 1 /\ \A j \in 1 .. i - 1 : a[j] = clients[j]
      BY <1>1
    <2>2. b \in Seq(S) /\ Len(b) = N - i /\ \A j \in 1 .. N - i : b[j] = clients[i + j]
      BY <1>1
    <2>3. Control!RemoveAt(clients, i) = a \o b
      BY DEF Control!RemoveAt
    <2> HIDE DEF a, b, N
    <2>4. /\ a \o b \in Seq(S) /\ Len(a \o b) = N - 1
          /\ \A j \in 1 .. N - 1 : (a \o b)[j] = IF j < i THEN a[j] ELSE b[j - (i - 1)]
      <3>1. a \o b \in Seq(S) /\ Len(a \o b) = Len(a) + Len(b)
        <4>1. a \in Seq(S) /\ b \in Seq(S)
          BY <2>1, <2>2
        <4> QED  BY <4>1
      <3>2. \A j \in 1 .. Len(a) + Len(b) : (a \o b)[j] = IF j <= Len(a) THEN a[j] ELSE b[j - Len(a)]
        BY <2>1, <2>2
      <3>3. Len(a) + Len(b) = N - 1 /\ \A j \in 1 .. N - 1 : j <= Len(a) <=> j < i
        BY <1>1, <2>1, <2>2
      <3>4. ASSUME NEW j \in 1 .. N - 1 PROVE (a \o b)[j] = IF j < i THEN a[j] ELSE b[j - (i - 1)]
        BY <2>1, <3>2, <3>3
      <3> QED  BY <3>1, <3>3, <3>4
    <2>5. ASSUME NEW j \in 1 .. N - 1 PROVE (a \o b)[j] = Place(j)
      <3>1. CASE j < i
        <4>1. j \in 1 .. i - 1
          BY <1>1, <3>1
        <4> QED  BY <2>1, <2>4, <3>1, <4>1
      <3>2. CASE ~(j < i)
        <4>1. j - (i - 1) \in 1 .. N - i /\ i + (j - (i - 1)) = j + 1
          BY <1>1, <3>2
        <4> QED  BY <2>2, <2>4, <3>2, <4>1
      <3> QED  BY <3>1, <3>2
    <2> QED  BY <2>3, <2>4, <2>5
  <1> HIDE DEF N
  <1>9. Size(N) = N - 1
    BY <1>1
  <1> HIDE DEF Place, Size
  <1>10. ASSUME NEW s \in Seq(S), NEW r \in Seq(S), Len(s) = Len(r), \A j \in 1 .. Len(s) : s[j] = r[j] PROVE s = r
    BY <1>10
  <1> QED  BY <1>3, <1>7, <1>8, <1>9, <1>10

LEMMA ProcessReplies ==
  ASSUME SystemOK(system), NEW m, m.kind \in Effects, m.what \in Methods(m.kind),
         m.what = "setEnabled" => m.arg \in BOOLEAN, m.kind = "equalizer" => EqRight(system.equalizer)
  PROVE  LET answer == processMessage(m)
         IN /\ Replies(m.kind, system, m.what, m.arg, is_active(m), answer)
            /\ m.kind = "equalizer" => EqRight(answer.system.equalizer)
  <1> DEFINE answer == processMessage(m)
             active == is_active(m)
             f == m.kind
  <1>1. active \in BOOLEAN
    BY DEF is_active, checkIsClientActive
  <1>2. CASE f = "bassboost"
    <2>1. answer = BB!processMessage(system, m.what, m.arg, active)
      BY <1>2 DEF processMessage
    <2> HIDE DEF active
    <2> QED  BY <1>1, <1>2, <2>1, BassBoostReplies DEF active
  <1>3. CASE f = "virtualizer"
    <2>1. answer = VI!processMessage(system, m.what, m.arg, active)
      BY <1>3 DEF processMessage
    <2> HIDE DEF active
    <2> QED  BY <1>1, <1>3, <2>1, VirtualizerReplies DEF active
  <1>4. CASE f = "equalizer"
    <2>1. answer = EQ!processMessage(system, m.what, m.arg, active)
      BY <1>4 DEF processMessage
    <2> HIDE DEF active
    <2> QED  BY <1>1, <1>4, <2>1, EqualizerReplies DEF active
  <1>5. CASE f = "hqequalizer"
    <2>1. answer = HQ!processMessage(system, m.what, m.arg, active)
      BY <1>5 DEF processMessage
    <2> HIDE DEF active
    <2> QED  BY <1>1, <1>5, <2>1, HQEqualizerReplies DEF active
  <1>6. CASE f = "preamp"
    <2>1. answer = PA!processMessage(system, m.what, m.arg, active)
      BY <1>6 DEF processMessage
    <2> HIDE DEF active
    <2> QED  BY <1>1, <1>6, <2>1, PreAmpReplies DEF active
  <1>7. CASE f = "presetreverb"
    <2>1. answer = PR!processMessage(system, m.what, m.arg, active)
      BY <1>7 DEF processMessage
    <2> HIDE DEF active
    <2> QED  BY <1>1, <1>7, <2>1, PresetReverbReplies DEF active
  <1>8. CASE f = "envreverb"
    <2>1. answer = ER!processMessage(system, m.what, m.arg, active)
      BY <1>8 DEF processMessage
    <2> HIDE DEF active
    <2> QED  BY <1>1, <1>8, <2>1, EnvReverbReplies DEF active
  <1> QED  BY <1>2, <1>3, <1>4, <1>5, <1>6, <1>7, <1>8 DEF Effects

-----------------------------------------------------------------------------
(* Installing a module gives it the settings EffectControl starts from.    *)

\* a preset that is used starts the equalizer
LEMMA EqualizerInstalled ==
  ASSUME SystemOK(system)
  PROVE  LET r == EQ!onInstall(system)
         IN shown(r, "equalizer") = Control!Default("equalizer") /\ EqRight(r.equalizer)
  <1> DEFINE k == "equalizer"
             r == EQ!onInstall(system)
             off == [system.equalizer EXCEPT !.enabled = FALSE]
             set == EQ!SetProperties(off, EQ!MakeDefaultSettings)
             v == EQ!UsePreset(set, 0)
  <1>1. k \in Fields /\ EqRecord(off) /\ off.enabled = FALSE
    BY FieldNames DEF SystemOK, Setting, EqRecord
  <1>2. r = [system EXCEPT ![k] = v]
    BY DEF EQ!onInstall, EQ!getEqProperties
  <1> HIDE DEF r, off
  <1>3. EqSame(off, set)
    BY <1>1, PropertiesSet
  <1> HIDE DEF set
  <1>4. EqSame(set, v) /\ EqRight(v) /\ v.preset = 0 /\ v.levels = EQ!Flat(PresetLevel(0))
    BY <1>3, PresetUsed DEF EqSame
  <1> HIDE DEF v
  <1>5. r.equalizer = v
    BY <1>1, <1>2, FieldGiven
  <1>6. shown(r, k) = [enabled |-> FALSE, setting |-> [curPreset |-> 0, bandLevels |-> EQ!Flat(PresetLevel(0))]]
    BY <1>1, <1>3, <1>4, <1>5, Shown DEF EqSame
  <1>7. Control!Default(k) = [enabled |-> FALSE, setting |-> [curPreset |-> 0, bandLevels |-> EQ!Flat(PresetLevel(0))]]
    BY DEF Control!Default, Control!Preset, Control!Flat, EQ!Flat, EQ!Bands
  <1> QED  BY <1>4, <1>5, <1>6, <1>7 DEF r

LEMMA HQEqualizerInstalled ==
  ASSUME SystemOK(system), ~system.hqequalizer.enabled
  PROVE  shown(HQ!onInstall(system), "hqequalizer") = Control!Default("hqequalizer")
  <1> DEFINE k == "hqequalizer"
             old == system.hqequalizer
             r == HQ!onInstall(system)
             l == HQ!PresetData(0)
             w == [old EXCEPT !.levels = l]
             v == [w EXCEPT !.preset = 0]
  <1>1. k \in Fields /\ EqRecord(old) /\ old.enabled = FALSE
    BY FieldNames DEF SystemOK, Setting, EqRecord
  <1>2. r = [system EXCEPT ![k] = v]
    BY DEF HQ!onInstall, HQ!setAllBandLevel
  <1> HIDE DEF r, old, l
  <1>3. EqRecord(w) /\ w.enabled = FALSE /\ w.levels = l
    BY <1>1 DEF EqRecord
  <1> HIDE DEF w
  <1>4. v.preset = 0 /\ v.levels = l /\ v.enabled = FALSE
    BY <1>3 DEF EqRecord
  <1> HIDE DEF v
  <1>5. r.hqequalizer = v
    BY <1>1, <1>2, FieldGiven
  <1>6. shown(r, k) = [enabled |-> FALSE, setting |-> [curPreset |-> 0, bandLevels |-> l]]
    BY <1>4, <1>5, Shown
  <1>7. Control!Default(k) = [enabled |-> FALSE, setting |-> [curPreset |-> 0, bandLevels |-> l]]
    BY DEF Control!Default, Control!Preset, Control!Flat, HQ!PresetData, HQ!Bands, l
  <1> QED  BY <1>6, <1>7 DEF r

LEMMA PreAmpInstalled ==
  ASSUME SystemOK(system)
  PROVE  shown(PA!onInstall(system), "preamp") = Control!Default("preamp")
  <1> DEFINE k == "preamp"
             old == system.preamp
             r == PA!onInstall(system)
             Record(v) == v \in [enabled : BOOLEAN, level : {v.level}, mixer_level : {v.mixer_level}]
             off == PA!setEnabled(old, FALSE)
             v == PA!setLevel(off, PA!UNITY)
  <1>1. k \in Fields /\ Record(old)
    BY FieldNames DEF SystemOK, Setting
  <1>2. r = [system EXCEPT ![k] = v]
    BY DEF PA!onInstall, PA!resetToDefaultState
  <1> HIDE DEF r, old
  <1>3. Record(off) /\ off.enabled = FALSE
    <2> DEFINE w == [old EXCEPT !.enabled = FALSE]
    <2>1. Record(w) /\ w.enabled = FALSE
      BY <1>1
    <2>2. off = PA!apply(w)
      BY DEF PA!setEnabled
    <2> HIDE DEF w, off
    <2> QED  BY <2>1, <2>2 DEF PA!apply
  <1> HIDE DEF off
  <1>4. v.enabled = FALSE /\ v.level = 10
    <2> DEFINE w == [off EXCEPT !.level = PA!UNITY]
    <2>1. Record(w) /\ w.enabled = FALSE /\ w.level = 10
      BY <1>3 DEF PA!UNITY
    <2>2. v = PA!apply(w)
      BY DEF PA!setLevel
    <2> HIDE DEF w, v
    <2> QED  BY <2>1, <2>2 DEF PA!apply
  <1> HIDE DEF v
  <1>5. r.preamp = v
    BY <1>1, <1>2, FieldGiven
  <1> QED  BY <1>4, <1>5, Shown DEF Control!Default, r

LEMMA InstallShows ==
  ASSUME SystemOK(system), NEW k \in Effects, k = "hqequalizer" => ~system.hqequalizer.enabled
  PROVE  shown(onInstall(k), k) = Control!Default(k) /\ (k = "equalizer" => EqRight(onInstall(k).equalizer))
  <1> DEFINE r == onInstall(k)
  <1>1. k \in Fields
    BY DEF Fields
  <1>2. ASSUME NEW v, r = [system EXCEPT ![k] = v] PROVE r[k] = v
    BY <1>1, <1>2, FieldGiven
  <1>3. CASE k = "bassboost"
    <2> DEFINE v == [enabled |-> FALSE, strength |-> 0]
    <2>1. r = [system EXCEPT ![k] = v]
      BY <1>3 DEF onInstall, BB!onInstall, BB!DEFAULT_STRENGTH
    <2> HIDE DEF r, v
    <2>2. r[k] = v
      BY <1>2, <1>3, <2>1
    <2>3. shown(r, k) = [enabled |-> FALSE, setting |-> 0]
      BY <1>3, <2>2 DEF shown, v
    <2>4. Control!Default(k) = [enabled |-> FALSE, setting |-> 0]
      BY <1>3 DEF Control!Default
    <2> QED  BY <1>3, <2>3, <2>4 DEF r
  <1>4. CASE k = "virtualizer"
    <2> DEFINE v == [enabled |-> FALSE, strength |-> 750]
    <2>1. r = [system EXCEPT ![k] = v]
      BY <1>4 DEF onInstall, VI!onInstall, VI!DEFAULT_STRENGTH
    <2> HIDE DEF r, v
    <2>2. r[k] = v
      BY <1>2, <1>4, <2>1
    <2>3. shown(r, k) = [enabled |-> FALSE, setting |-> 750]
      BY <1>4, <2>2 DEF shown, v
    <2>4. Control!Default(k) = [enabled |-> FALSE, setting |-> 750]
      BY <1>4 DEF Control!Default
    <2> QED  BY <1>4, <2>3, <2>4 DEF r
  <1>5. CASE k = "equalizer"
    BY <1>5, EqualizerInstalled DEF onInstall
  <1>6. CASE k = "hqequalizer"
    BY <1>6, HQEqualizerInstalled DEF onInstall
  <1>7. CASE k = "preamp"
    BY <1>7, PreAmpInstalled DEF onInstall
  <1>8. CASE k = "presetreverb"
    <2> DEFINE v == [enabled |-> FALSE, preset |-> 0]
    <2>1. r = [system EXCEPT ![k] = v]
      BY <1>8 DEF onInstall, PR!onInstall, PR!MakeDefaultSettings, PR!NONE
    <2> HIDE DEF r, v
    <2>2. r[k] = v
      BY <1>2, <1>8, <2>1
    <2>3. shown(r, k) = [enabled |-> FALSE, setting |-> 0]
      BY <1>8, <2>2 DEF shown, v
    <2>4. Control!Default(k) = [enabled |-> FALSE, setting |-> 0]
      BY <1>8 DEF Control!Default
    <2> QED  BY <1>8, <2>3, <2>4 DEF r
  <1>9. CASE k = "envreverb"
    <2> DEFINE v == [enabled |-> FALSE, settings |-> ER!MakeDefaultSettings]
    <2>1. r = [system EXCEPT ![k] = v]
      BY <1>9 DEF onInstall, ER!onInstall
    <2> HIDE DEF r, v
    <2>2. r[k] = v
      BY <1>2, <1>9, <2>1
    <2>3. shown(r, k) = [enabled |-> FALSE, setting |-> ER!MakeDefaultSettings]
      BY <1>9, <2>2 DEF shown, v
    <2>4. Control!Default(k) = [enabled |-> FALSE, setting |-> ER!MakeDefaultSettings]
      BY <1>9 DEF Control!Default, ER!MakeDefaultSettings, Control!Reverb
    <2> QED  BY <1>9, <2>3, <2>4 DEF r
  <1> QED  BY <1>3, <1>4, <1>5, <1>6, <1>7, <1>8, <1>9 DEF Effects

\* the equalizer is written again before the sink starts, and shows what it showed
LEMMA RefreshShows ==
  ASSUME SystemOK(system), EqRight(system.equalizer), NEW next_is_started
  PROVE  LET r == EQ!onBeforeAudioSinkStateChanged(system, next_is_started)
         IN shown(r, "equalizer") = shown(system, "equalizer") /\ EqRight(r.equalizer)
  <1> DEFINE k == "equalizer"
             old == system.equalizer
             r == EQ!onBeforeAudioSinkStateChanged(system, next_is_started)
             v == EQ!workAroundRefreshSettings(old)
  <1>1. k \in Fields /\ EqRecord(old)
    BY FieldNames DEF SystemOK, Setting, EqRecord
  <1>2. r = system \/ r = [system EXCEPT ![k] = v]
    BY DEF EQ!onBeforeAudioSinkStateChanged
  <1>3. EqSame(old, v) /\ EqRight(v) /\ v.preset = old.preset /\ v.levels = old.levels
    BY <1>1, SettingsRefreshed
  <1> HIDE DEF r, v
  <1>4. CASE r = system
    BY <1>4 DEF r
  <1>5. CASE r = [system EXCEPT ![k] = v]
    <2>1. r.equalizer = v
      BY <1>1, <1>5, FieldGiven
    <2> QED  BY <1>3, <2>1, Shown DEF EqSame, r
  <1> QED  BY <1>2, <1>4, <1>5

-----------------------------------------------------------------------------
(* What EffectControl sees of a step.                                      *)

ControlVars == <<Holders, Settings, EffectCalls>>

LEMMA ShownBy ==
  ASSUME NEW s, NEW r, NEW k \in Effects, s[k] = r[k]
  PROVE  shown(s, k) = shown(r, k)
  <1>1. CASE k = "preamp"
    BY <1>1 DEF shown
  <1>2. CASE k = "presetreverb"
    BY <1>2 DEF shown
  <1>3. CASE k = "envreverb"
    BY <1>3 DEF shown
  <1>4. CASE k \in {"bassboost", "virtualizer", "equalizer", "hqequalizer"}
    BY <1>4 DEF shown
  <1> QED  BY <1>1, <1>2, <1>3, <1>4 DEF Effects

LEMMA CallSeen ==
  ASSUME Protocol, NEW t \in Threads, NEW c, calls' = [calls EXCEPT ![t] = c]
  PROVE  EffectCalls' = [EffectCalls EXCEPT ![t] = EffectCall(c)] /\ EffectCalls'[t] = EffectCall(c)
         /\ EffectCalls[t] = EffectCall(calls[t])
  <1>1. calls = [u \in Threads |-> calls[u]]
    BY DEF Protocol, TypeOK
  <1> DEFINE e == EffectCall(c)
  <1>2. \A u \in Threads : calls'[u] = IF u = t THEN c ELSE calls[u]
    BY <1>1
  <1>3. EffectCalls' = [u \in Threads |-> EffectCall(calls'[u])]
    BY DEF EffectCalls, EffectCall
  <1>4. \A u \in Threads : EffectCall(calls'[u]) = IF u = t THEN e ELSE EffectCall(calls[u])
    BY <1>2
  <1> HIDE DEF e
  <1>5. EffectCalls' = [u \in Threads |-> IF u = t THEN e ELSE EffectCall(calls[u])]
    BY <1>3, <1>4
  <1> QED  BY <1>5 DEF EffectCalls, e

LEMMA SameSlots ==
  ASSUME slots' = slots
  PROVE  Holders' = Holders /\ (system' = system => Settings' = Settings)
  BY DEF Holders, Settings

LEMMA SlotSeen ==
  ASSUME TypeOK, NEW k \in Effects, NEW s, slots' = [slots EXCEPT ![k] = s]
  PROVE  /\ Holders' = [Holders EXCEPT ![k] = s.client_queue]
         /\ \A j \in Effects \ {k} : slots'[j] = slots[j]
         /\ slots'[k] = s
  <1> DEFINE q == s.client_queue
  <1>1. \A j \in Effects : slots'[j] = IF j = k THEN s ELSE slots[j]
    BY DEF TypeOK, Kinds
  <1>2. \A j \in Effects : slots'[j].client_queue = IF j = k THEN q ELSE slots[j].client_queue
    BY <1>1
  <1> HIDE DEF q
  <1>3. Holders' = [j \in Effects |-> IF j = k THEN q ELSE slots[j].client_queue]
    BY <1>2 DEF Holders
  <1>4. Holders' = [Holders EXCEPT ![k] = q]
    BY <1>3 DEF Holders
  <1> QED  BY <1>1, <1>4 DEF q

LEMMA SettingSeen ==
  ASSUME NEW k \in Effects, \A j \in Effects \ {k} : slots'[j] = slots[j], Touched(system, {k, "aux"}, system')
  PROVE  Settings' = [Settings EXCEPT ![k] = IF slots'[k].installed THEN shown(system', k) ELSE NULL]
  <1>1. ASSUME NEW j \in Effects, j # k PROVE shown(system', j) = shown(system, j)
    <2>1. j \in Fields \ {k, "aux"}
      BY <1>1 DEF Fields, Effects
    <2>2. system'[j] = system[j]
      BY <2>1 DEF Touched
    <2> QED  BY <2>2, ShownBy
  <1> DEFINE v == IF slots'[k].installed THEN shown(system', k) ELSE NULL
  <1>2. \A j \in Effects : (IF slots'[j].installed THEN shown(system', j) ELSE NULL)
                             = IF j = k THEN v ELSE Settings[j]
    BY <1>1 DEF Settings
  <1>3. Settings' = [j \in Effects |-> IF slots'[j].installed THEN shown(system', j) ELSE NULL]
    BY DEF Settings, shown
  <1> HIDE DEF v
  <1>4. Settings' = [j \in Effects |-> IF j = k THEN v ELSE Settings[j]]
    BY <1>2, <1>3
  <1> QED  BY <1>4 DEF Settings, v

LEMMA HoldsSeen ==
  ASSUME NEW k \in Effects, NEW h
  PROVE  Control!Holds(k, h) <=> h \in Members(slots[k].client_queue)
  BY DEF Control!Holds, Members, Holders

LEMMA ActiveSeen ==
  ASSUME NEW k \in Effects, NEW h
  PROVE  Control!InControl(k, h) <=> checkIsClientActive(slots[k].client_queue, h)
  BY DEF Control!InControl, checkIsClientActive, Holders

\* a call begins
LEMMA StartSeen ==
  ASSUME Protocol, NEW t \in Threads, calls[t] = Idle, NEW c, calls' = [calls EXCEPT ![t] = c],
         c.phase \in {"posted", "replied"}, UNCHANGED <<slots, system>>,
         c.kind \in Effects /\ c.phase = "replied" =>
           LET there == c.handle \in Members(slots[c.kind].client_queue)
           IN \/ c.result = "dead_object" /\ ~there
              \/ c.result = "illegal_argument" /\ there /\ c.arg \in Illegal(c.kind, c.what)
  PROVE  [Control!Next]_ControlVars
  <1>1. /\ EffectCalls' = [EffectCalls EXCEPT ![t] = EffectCall(c)] /\ EffectCalls'[t] = EffectCall(c)
        /\ EffectCalls[t] = Idle /\ Holders' = Holders /\ Settings' = Settings
    BY CallSeen, SameSlots DEF EffectCall, Idle
  <1>2. CASE c.kind \notin Effects
    <2>1. EffectCalls' = EffectCalls
      BY <1>1, <1>2 DEF EffectCall, EffectCalls
    <2> QED  BY <1>1, <2>1 DEF ControlVars
  <1>3. CASE c.kind \in Effects /\ c.phase = "posted"
    <2>1. EffectCall(c) = c
      BY <1>3 DEF EffectCall
    <2>2. Control!Start(t)
      BY <1>1, <1>3, <2>1 DEF Control!Start, Control!Idle, Idle
    <2> QED  BY <2>2 DEF Control!Next
  <1>4. CASE c.kind \in Effects /\ c.phase = "replied"
    <2>1. EffectCall(c) = c
      BY <1>4 DEF EffectCall
    <2>2. Control!Holds(c.kind, c.handle) <=> c.handle \in Members(slots[c.kind].client_queue)
      BY <1>4, HoldsSeen
    <2>3. Control!Refuse(t)
      BY <1>1, <1>4, <2>1, <2>2 DEF Control!Refuse, Control!Idle, Idle
    <2> QED  BY <2>3 DEF Control!Next
  <1> QED  BY <1>2, <1>3, <1>4

LEMMA ReturnSeen ==
  ASSUME Protocol, NEW t \in Threads, Return(t)
  PROVE  [Control!Next]_ControlVars
  <1>1. calls[t].phase = "replied" /\ calls' = [calls EXCEPT ![t] = Idle] /\ UNCHANGED <<slots, system>>
    BY DEF Return
  <1>2. /\ EffectCalls' = [EffectCalls EXCEPT ![t] = Idle] /\ EffectCalls[t] = EffectCall(calls[t])
        /\ Holders' = Holders /\ Settings' = Settings
    BY <1>1, CallSeen, SameSlots DEF EffectCall, Idle
  <1>3. CASE calls[t].kind \in Effects
    <2>1. EffectCall(calls[t]) = calls[t]
      BY <1>1, <1>3 DEF EffectCall
    <2>2. Control!Return(t)
      BY <1>1, <1>2, <2>1 DEF Control!Return, Control!Idle, Idle
    <2> QED  BY <2>2 DEF Control!Next
  <1>4. CASE calls[t].kind \notin Effects
    <2>1. EffectCalls[t] = Idle
      BY <1>2, <1>4 DEF EffectCall
    <2>2. EffectCalls' = EffectCalls
      BY <1>2, <2>1 DEF EffectCalls
    <2> QED  BY <1>2, <2>2 DEF ControlVars
  <1> QED  BY <1>3, <1>4

\* an answer, as EffectControl sees it
LEMMA ReplySeen ==
  ASSUME Protocol, queue # <<>>, NEW result, NEW value, reply(result, value)
  PROVE  /\ message.kind \in Effects =>
              /\ Control!Reply(Head(queue), result, value)
              /\ EffectCalls[Head(queue)] = message
         /\ message.kind \notin Effects => EffectCalls' = EffectCalls
  <1>a. PICK t, m : t = Head(queue) /\ m = message
    OBVIOUS
  <1>1. t \in Threads /\ m = calls[t] /\ m.phase = "posted" /\ CallTyped(m) /\ Made(m)
    BY <1>a, HeadOfQueue DEF message
  <1> DEFINE r == Replied(m, result, value)
  <1>2. r.phase = "replied" /\ r.kind = m.kind
    BY <1>1, RepliedCall
  <1>3. calls' = [calls EXCEPT ![t] = r]
    BY <1>a, <1>1 DEF reply
  <1>4. r = [m EXCEPT !.phase = "replied", !.result = result, !.value = value]
    BY DEF Replied
  <1> HIDE DEF r
  <1>5. EffectCalls' = [EffectCalls EXCEPT ![t] = EffectCall(r)] /\ EffectCalls[t] = EffectCall(m)
    BY <1>1, <1>3, CallSeen
  <1>6. CASE m.kind \in Effects
    <2>1. EffectCall(r) = r /\ EffectCall(m) = m
      BY <1>1, <1>2, <1>6 DEF EffectCall
    <2>2. EffectCalls' = [EffectCalls EXCEPT ![t] = r] /\ EffectCalls[t] = m
      BY <1>5, <2>1
    <2>3. Control!Reply(t, result, value)
      BY <1>4, <2>2 DEF Control!Reply
    <2> QED  BY <1>a, <1>6, <2>2, <2>3
  <1>7. CASE m.kind \notin Effects
    <2>1. EffectCall(r) = Idle /\ EffectCall(m) = Idle
      BY <1>2, <1>7 DEF EffectCall
    <2> QED  BY <1>a, <1>5, <1>7, <2>1 DEF EffectCalls
  <1> QED  BY <1>6, <1>7, <1>a

-----------------------------------------------------------------------------
(* What EffectControl's steps need of the state: legal arguments, and the
   equalizer's levels those of its preset.                  *)

\* a message carries an argument that is legal, but for the preset that is none; and the equalizer's
\* levels are those of its preset
Sound(c) ==
  c.phase = "posted" /\ c.kind \in Effects /\ c.what \notin {"create", "destroy"} =>
    (c.arg \in Legal(c.kind, c.what) <=> ~Refused(c.kind, c.what, c.arg))
Promised ==
  /\ \A t \in Threads : Sound(calls[t])
  /\ slots["equalizer"].installed => EqRight(system.equalizer)

LEMMA SoundStays ==
  ASSUME Protocol, Promised, NEW t \in Threads, NEW c, Sound(c), calls' = [calls EXCEPT ![t] = c]
  PROVE  \A u \in Threads : Sound(calls'[u])
  <1>1. \A u \in Threads : calls'[u] = IF u = t THEN c ELSE calls[u]
    BY DEF Protocol, TypeOK
  <1> QED  BY <1>1 DEF Promised

LEMMA PostingOutcome ==
  ASSUME NEW h, NEW kind \in Effects, handles[h].kind = kind, NEW what, NEW arg, NEW outcome, outcome = posting(h, what, arg)
  PROVE  /\ ~handles[h].has_module => outcome = "dead_object"
         /\ handles[h].has_module => outcome = "posted" \/ (outcome = "illegal_argument" /\ ~Takes(kind, what, arg))
         /\ outcome = "posted" => (Takes(kind, what, arg) <=> ~Refused(kind, what, arg))
  <1>1. CASE kind = "bassboost"
    BY <1>1 DEF posting, BB!posting, Takes, Refused
  <1>2. CASE kind = "virtualizer"
    BY <1>2 DEF posting, VI!posting, Takes, Refused
  <1>3. CASE kind = "equalizer"
    BY <1>3 DEF posting, EQ!posting, Takes, Refused, EQ!RefusedPreset
  <1>4. CASE kind = "hqequalizer"
    BY <1>4 DEF posting, HQ!posting, Takes, Refused, HQ!RefusedPreset, HQ!UNDEFINED, EQ!UNDEFINED
  <1>5. CASE kind = "preamp"
    BY <1>5 DEF posting, PA!posting, Takes, Refused
  <1>6. CASE kind = "presetreverb"
    BY <1>6 DEF posting, PR!posting, Takes, Refused
  <1>7. CASE kind = "envreverb"
    BY <1>7 DEF posting, ER!posting, Takes, Refused
  <1> QED  BY <1>1, <1>2, <1>3, <1>4, <1>5, <1>6, <1>7 DEF Effects

\* who is attached, as its caller knows
LEMMA CallerAttached ==
  ASSUME Protocol, NEW h \in Handles, NEW k \in Kinds
  PROVE  LET there == h \in Members(slots[k].client_queue)
         IN /\ handles[h] = NULL /\ Calls(h) = {} => ~there
            /\ handles[h] # NULL /\ ~handles[h].has_module => ~there
            /\ /\ handles[h] # NULL /\ handles[h].has_module /\ handles[h].kind = k
               /\ \A u \in Calls(h) : calls[u].what \notin {"create", "destroy"}
               => there
  <1>1. CallsInv /\ (h \in Members(slots[k].client_queue) <=> Joined(h, k))
    BY DEF Protocol, SlotsInv
  <1>2. \A u \in Threads : Made(calls[u]) /\ calls[u].handle = h => u \in Calls(h)
    BY DEF Calls, Made, Idle
  <1>3. handles[h] # NULL => \A u \in Threads : ~Entered(calls[u], h, k)
    BY <1>1 DEF CallsInv, CallAgrees, Entered, Given
  <1>4. Calls(h) = {} => \A u \in Threads : ~Entered(calls[u], h, k)
    BY <1>2 DEF Entered, Given
  <1>5. (\A u \in Calls(h) : calls[u].what \notin {"create", "destroy"}) => \A u \in Threads : ~Left(u, h)
    BY <1>2 DEF Left, Given
  <1> QED  BY <1>1, <1>3, <1>4, <1>5 DEF Joined

\* what the callers do
LEMMA CallsSeen ==
  ASSUME Protocol, Promised, NEW t \in Threads, NEW h \in Handles,
         \/ \E kind \in scenario : Create(t, h, kind)
         \/ Destroy(t, h)
         \/ handles[h] # NULL /\ \E what \in Asked(scenario, handles[h].kind) :
              \E arg \in Legal(handles[h].kind, what) \cup Illegal(handles[h].kind, what) : Use(t, h, what, arg)
  PROVE  [Control!Next]_ControlVars /\ Promised'
  <1>1. ASSUME NEW kind \in scenario, NEW what \in {"create", "destroy"}, NEW call, calls[t] = Idle, UNCHANGED <<slots, system>>,
               calls' = [calls EXCEPT ![t] = call],
               \/ call = Call(h, kind, what, NULL)
               \/ call = Replied(Call(h, kind, what, NULL), "dead_object", NULL) /\ h \notin Members(slots[kind].client_queue)
        PROVE  [Control!Next]_ControlVars /\ Promised'
    <2> DEFINE c == Call(h, kind, what, NULL)
               r == Replied(c, "dead_object", NULL)
    <2>1. CallTyped(c) /\ Made(c) /\ c.phase = "posted" /\ c.handle = h /\ c.kind = kind /\ c.what = what
      BY NewCall
    <2>2. /\ r.phase = "replied" /\ r.handle = h /\ r.kind = kind /\ r.what = what /\ r.result = "dead_object"
      BY <2>1, RepliedCall
    <2> HIDE DEF c, r
    <2>3. call = c \/ (call = r /\ h \notin Members(slots[kind].client_queue))
      BY <1>1 DEF c, r
    <2>4. /\ call.phase \in {"posted", "replied"} /\ call.handle = h /\ call.kind = kind /\ call.what = what
          /\ call.phase = "replied" => call.result = "dead_object" /\ h \notin Members(slots[kind].client_queue)
      BY <2>1, <2>2, <2>3
    <2>5. [Control!Next]_ControlVars
      BY <1>1, <2>4, StartSeen
    <2>6. Sound(call)
      BY <2>4 DEF Sound
    <2>7. Promised'
      BY <1>1, <2>6, SoundStays DEF Promised
    <2> QED  BY <2>5, <2>7
  <1>2. CASE \E kind \in scenario : Create(t, h, kind)
    <2>1. PICK kind \in scenario : Create(t, h, kind)
      BY <1>2
    <2>2. PICK call : /\ call = Call(h, kind, "create", NULL) \/ call = Replied(Call(h, kind, "create", NULL), "dead_object", NULL)
                      /\ calls' = [calls EXCEPT ![t] = call]
      BY <2>1 DEF Create, post
    <2>3. calls[t] = Idle /\ UNCHANGED <<slots, system>> /\ handles[h] = NULL /\ Calls(h) = {}
      BY <2>1 DEF Create, moduleVars
    <2>4. h \notin Members(slots[kind].client_queue)
      BY <2>3, CallerAttached, KindsKnown DEF Protocol
    <2> QED  BY <1>1, <2>2, <2>3, <2>4
  <1>3. CASE Destroy(t, h)
    <2>1. PICK kind : kind = handles[h].kind
      OBVIOUS
    <2>2. calls[t] = Idle /\ UNCHANGED <<slots, system>> /\ handles[h] # NULL
      BY <1>3 DEF Destroy, moduleVars
    <2>3. kind \in scenario /\ kind \in Kinds
      BY <2>1, <2>2, KindsKnown DEF Protocol, TypeOK
    <2>4. ~handles[h].has_module => h \notin Members(slots[kind].client_queue)
      BY <2>2, <2>3, CallerAttached
    <2>5. \/ calls' = [calls EXCEPT ![t] = Call(h, kind, "destroy", NULL)]
          \/ /\ calls' = [calls EXCEPT ![t] = Replied(Call(h, kind, "destroy", NULL), "dead_object", NULL)]
             /\ ~handles[h].has_module
      BY <1>3, <2>1 DEF Destroy, post
    <2>6. PICK call : /\ \/ call = Call(h, kind, "destroy", NULL)
                         \/ /\ call = Replied(Call(h, kind, "destroy", NULL), "dead_object", NULL)
                            /\ h \notin Members(slots[kind].client_queue)
                      /\ calls' = [calls EXCEPT ![t] = call]
      BY <2>4, <2>5
    <2> QED  BY <1>1, <2>2, <2>3, <2>6
  <1>4. ASSUME handles[h] # NULL, NEW what \in Asked(scenario, handles[h].kind),
               NEW arg \in Legal(handles[h].kind, what) \cup Illegal(handles[h].kind, what), Use(t, h, what, arg)
        PROVE  [Control!Next]_ControlVars /\ Promised'
    <2>1. PICK kind, outcome : kind = handles[h].kind /\ outcome = posting(h, what, arg)
      OBVIOUS
    <2>2. kind \in scenario /\ scenario \in Scenarios
      BY <1>4, <2>1 DEF Protocol, TypeOK
    <2>3. kind \in Kinds /\ what \in Methods(kind) /\ what \notin {"create", "destroy"}
      BY <2>1, <2>2, KindsKnown DEF Protocol
    <2>4. (what = "setEnabled" => arg \in BOOLEAN) /\ arg \in Legal(kind, what) \cup Illegal(kind, what)
      BY <2>1, <2>3
    <2> DEFINE call == Call(h, kind, what, arg)
               refused == Replied(call, outcome, NULL)
               there == h \in Members(slots[kind].client_queue)
    <2>5. /\ calls[t] = Idle /\ UNCHANGED <<slots, system>>
          /\ \/ calls' = [calls EXCEPT ![t] = call] /\ outcome = "posted"
             \/ calls' = [calls EXCEPT ![t] = refused] /\ outcome # "posted"
          /\ \A u \in Calls(h) : calls[u].what \notin {"create", "destroy"}
      BY <1>4, <2>1 DEF Use, post, moduleVars
    <2>6. CallTyped(call) /\ Made(call) /\ call.phase = "posted" /\ call.handle = h /\ call.what = what /\ call.kind = kind
          /\ call.arg = arg
      <3>1. what \in {"create", "destroy"} \cup Methods(kind)
        BY <2>3
      <3> QED  BY <2>2, <2>4, <3>1, NewCall
    <2>7. /\ refused.phase = "replied" /\ refused.handle = h /\ refused.result = outcome
          /\ refused.what = what /\ refused.kind = kind /\ refused.arg = arg
      BY <2>6, RepliedCall
    <2>8. /\ ~handles[h].has_module => ~there
          /\ handles[h].has_module => there
      BY <1>4, <2>1, <2>3, <2>5, CallerAttached
    <2>9. kind \in Effects => (arg \in Legal(kind, what) <=> Takes(kind, what, arg))
      BY <2>3, <2>4, LegalAssumption
    <2>10. kind \in Effects =>
             /\ ~handles[h].has_module => outcome = "dead_object"
             /\ handles[h].has_module => outcome = "posted" \/ (outcome = "illegal_argument" /\ ~Takes(kind, what, arg))
             /\ outcome = "posted" => (Takes(kind, what, arg) <=> ~Refused(kind, what, arg))
      BY <2>1, PostingOutcome
    <2> HIDE DEF call, refused, there
    <2>11. CASE calls' = [calls EXCEPT ![t] = call] /\ outcome = "posted"
      <3>1. Sound(call)
        BY <2>6, <2>9, <2>10, <2>11 DEF Sound
      <3>2. [Control!Next]_ControlVars
        BY <2>5, <2>6, <2>11, StartSeen
      <3> QED  BY <2>5, <2>11, <3>1, <3>2, SoundStays DEF Promised
    <2>12. CASE calls' = [calls EXCEPT ![t] = refused] /\ outcome # "posted"
      <3>1. Sound(refused)
        BY <2>7 DEF Sound
      <3>2. kind \in Effects =>
              \/ outcome = "dead_object" /\ ~there
              \/ outcome = "illegal_argument" /\ there /\ arg \in Illegal(kind, what)
        BY <2>4, <2>8, <2>9, <2>10, <2>12
      <3>3. [Control!Next]_ControlVars
        BY <2>5, <2>7, <2>12, <3>2, StartSeen DEF there
      <3> QED  BY <2>5, <2>12, <3>1, <3>3, SoundStays DEF Promised
    <2> QED  BY <2>5, <2>11, <2>12
  <1> QED  BY <1>2, <1>3, <1>4

LEMMA ReturnPromised ==
  ASSUME Protocol, Promised, NEW t \in Threads, Return(t)
  PROVE  Promised'
  <1>1. calls' = [calls EXCEPT ![t] = Idle] /\ UNCHANGED <<slots, system>>
    BY DEF Return
  <1>2. Sound(Idle)
    BY DEF Sound, Idle
  <1> QED  BY <1>1, <1>2, SoundStays DEF Promised

-----------------------------------------------------------------------------
(* Steps about other modules, and the attaching of a handle.               *)

LEMMA VisualizersApart ==
  ASSUME NEW k \in Visualizers
  PROVE  k \in Kinds /\ k \notin Effects
  BY DEF Visualizers, Effects, Kinds

LEMMA AnswerSound ==
  ASSUME Protocol, Promised, queue # <<>>, NEW result, NEW value, reply(result, value)
  PROVE  \A t \in Threads : Sound(calls'[t])
  <1>1. Head(queue) \in Threads /\ CallTyped(message) /\ Made(message)
    BY HeadOfQueue
  <1> DEFINE r == Replied(message, result, value)
  <1>2. r.phase = "replied" /\ calls' = [calls EXCEPT ![Head(queue)] = r]
    BY <1>1, RepliedCall DEF reply, message
  <1> HIDE DEF r
  <1> QED  BY <1>1, <1>2, SoundStays DEF Sound

LEMMA SettingsStay ==
  ASSUME \A j \in Effects : slots'[j].installed = slots[j].installed,
         \A j \in Effects : slots[j].installed => shown(system', j) = shown(system, j)
  PROVE  Settings' = Settings
  <1>1. Settings' = [j \in Effects |-> IF slots'[j].installed THEN shown(system', j) ELSE NULL]
    BY DEF Settings, shown
  <1>2. \A j \in Effects : (IF slots'[j].installed THEN shown(system', j) ELSE NULL)
                             = IF slots[j].installed THEN shown(system, j) ELSE NULL
    OBVIOUS
  <1>3. Settings' = [j \in Effects |-> IF slots[j].installed THEN shown(system, j) ELSE NULL]
    BY <1>1, <1>2
  <1> QED  BY <1>3 DEF Settings

\* what the handler thread does for a visualizer
LEMMA VisualizerUnseen ==
  ASSUME Protocol, Promised, queue # <<>>, message.kind \in Visualizers, Handle \/ Wait \/ StartTimesOut
  PROVE  UNCHANGED ControlVars /\ Promised'
  <1>a. PICK kind : kind = message.kind
    OBVIOUS
  <1>1. kind \in Kinds /\ kind \notin Effects /\ kind \in Visualizers
    BY <1>a, VisualizersApart
  <1>2. onInstall(kind) = system /\ onUninstall(kind) = system
    BY <1>1 DEF onInstall, onUninstall, Effects
  <1> DEFINE Unseen == /\ system' = system
                       /\ slots' = slots \/ \E s : slots' = [slots EXCEPT ![kind] = s]
                       /\ calls' = calls \/ \E result, value : reply(result, value)
  <1>3. ASSUME finishUninstall(message) PROVE Unseen
    BY <1>a, <1>2, <1>3 DEF finishUninstall
  <1>4. ASSUME NEW stopped, finishDetach(message, stopped) PROVE Unseen
    BY <1>a, <1>4 DEF finishDetach, startPeriodicCapturing
  <1>5. ASSUME handleExtAttachOrInstall PROVE Unseen
    BY <1>a, <1>2, <1>5 DEF handleExtAttachOrInstall, internalExtAttach, internalExtInstall
  <1>6. ASSUME handleExtDetachOrUninstall PROVE Unseen
    <2>1. PICK stops : stops = (kind \in Visualizers /\ (slots[kind].num_attached <= 1 \/ stopsAtDetach(message)))
      OBVIOUS
    <2>2. \/ stopPeriodicCapturing(kind) /\ UNCHANGED <<system, slots>>
          \/ finishUninstall(message)
          \/ finishDetach(message, stops)
      BY <1>a, <1>6, <2>1 DEF handleExtDetachOrUninstall
    <2>3. CASE stopPeriodicCapturing(kind) /\ UNCHANGED <<system, slots>>
      BY <2>3 DEF stopPeriodicCapturing
    <2> HIDE DEF Unseen
    <2> QED  BY <1>3, <1>4, <2>2, <2>3 DEF Unseen
  <1>7. ASSUME handleExtensionMessage PROVE Unseen
    <2>1. handler = "idle" /\ message.what \notin {"create", "destroy"}
      BY <1>7 DEF handleExtensionMessage
    <2>2. handleVisualizerMessage(message)
      <3>1. slots[kind].installed
        BY <1>a, <2>1, HandledModule
      <3> QED  BY <1>a, <1>1, <1>7, <3>1 DEF handleExtensionMessage
    <2> QED  BY <2>2 DEF handleVisualizerMessage, startPeriodicCapturing, stopPeriodicCapturing, moduleVars
  <1>8. ASSUME CaptureStopped PROVE Unseen
    <2>1. \/ finishUninstall(message)
          \/ finishDetach(message, TRUE)
          \/ finishSetEnabled(message)
      BY <1>8 DEF CaptureStopped
    <2>2. CASE finishSetEnabled(message)
      BY <2>2 DEF finishSetEnabled
    <2> HIDE DEF Unseen
    <2> QED  BY <1>3, <1>4, <2>1, <2>2 DEF Unseen
  <1>9. ASSUME CaptureStarted \/ StartGivenUp \/ StartTimesOut PROVE Unseen
    BY <1>9 DEF CaptureStarted, StartGivenUp, StartTimesOut, finishSetEnabled, moduleVars
  <1>10. Unseen
    <2> HIDE DEF Unseen
    <2> QED  BY <1>5, <1>6, <1>7, <1>8, <1>9 DEF Handle, Wait
  <1>11. \A j \in Effects : slots'[j] = slots[j]
    BY <1>1, <1>10 DEF Protocol, TypeOK, Kinds
  <1>12. Holders' = Holders /\ Settings' = Settings
    BY <1>10, <1>11, SettingsStay DEF Holders
  <1>13. EffectCalls' = EffectCalls
    <2>1. CASE calls' = calls
      BY <2>1 DEF EffectCalls
    <2> QED  BY <1>a, <1>1, <1>10, <2>1, ReplySeen
  <1>14. Promised'
    <2>1. \A t \in Threads : Sound(calls'[t])
      BY <1>10, AnswerSound DEF Promised
    <2>2. "equalizer" \in Effects
      BY DEF Effects
    <2> QED  BY <1>10, <1>11, <2>1, <2>2 DEF Promised
  <1> QED  BY <1>12, <1>13, <1>14 DEF ControlVars

\* what the handler thread does for an effect keeps the equalizer right
LEMMA EffectPromised ==
  ASSUME Protocol, Promised, queue # <<>>, NEW result, NEW value, reply(result, value), NEW k \in Effects,
         Touched(system, {k, "aux"}, system'), \A j \in Effects \ {k} : slots'[j] = slots[j],
         k = "equalizer" /\ slots'[k].installed => EqRight(system'.equalizer)
  PROVE  Promised'
  <1>1. \A t \in Threads : Sound(calls'[t])
    BY AnswerSound
  <1>2. CASE k = "equalizer"
    BY <1>1, <1>2 DEF Promised
  <1>3. CASE k # "equalizer"
    <2>1. "equalizer" \in Effects /\ "equalizer" \in Fields \ {k, "aux"}
      BY <1>3 DEF Effects, Fields
    <2>2. system'.equalizer = system.equalizer /\ slots'["equalizer"] = slots["equalizer"]
      BY <1>3, <2>1 DEF Touched
    <2> QED  BY <1>1, <2>2 DEF Promised
  <1> QED  BY <1>2, <1>3

LEMMA AttachSeen ==
  ASSUME Protocol, Quiet, Promised, handleExtAttachOrInstall, message.kind \in Effects
  PROVE  [Control!Next]_ControlVars /\ Promised'
  <1>a. PICK m, k, h, t : m = message /\ k = m.kind /\ h = m.handle /\ t = Head(queue)
    OBVIOUS
  <1>1. /\ queue # <<>> /\ m.what = "create" /\ k \in Effects /\ k \in Kinds /\ h \in Handles
        /\ internalExtAttach(m) \/ internalExtInstall(m)
        /\ t \in Threads /\ m.phase = "posted"
    BY <1>a, HeadOfQueue DEF handleExtAttachOrInstall
  <1>2. slots[k] \in SlotRecords /\ SlotSound(slots[k]) /\ TypeOK /\ SystemOK(system)
    BY <1>1 DEF Protocol, TypeOK, SlotsInv, Quiet, SystemInv
  <1>3. Holders[k] = slots[k].client_queue /\ (slots[k].installed <=> Holders[k] # <<>>)
    BY <1>1, <1>2 DEF Holders, SlotSound
  <1>4. ASSUME NEW result, NEW value, reply(result, value)
        PROVE  /\ Control!Reply(t, result, value) /\ EffectCalls[t] = m
               /\ Control!Create(t, k, h) => [Control!Next]_ControlVars
    <2>1. Control!Reply(t, result, value) /\ EffectCalls[t] = m
      BY <1>a, <1>1, <1>4, ReplySeen
    <2>2. Control!Create(t, k, h) => Control!TakeEffect(t)
      BY <1>a, <1>1, <2>1 DEF Control!TakeEffect, Control!Queries, Control!Facts
    <2> QED  BY <1>1, <2>1, <2>2 DEF Control!Next
  <1>5. CASE internalExtAttach(m)
    <2> DEFINE s == attach(slots[k], h)
    <2>1. slots[k].installed /\ slots' = [slots EXCEPT ![k] = s] /\ reply("success", NULL) /\ system' = system
      BY <1>a, <1>5 DEF internalExtAttach
    <2>2. s.client_queue = <<h>> \o slots[k].client_queue /\ s.installed = slots[k].installed
      BY <1>2 DEF attach, handleOnAttach, SlotRecords
    <2> HIDE DEF s
    <2>3. /\ Holders' = [Holders EXCEPT ![k] = s.client_queue] /\ slots'[k] = s
          /\ \A j \in Effects \ {k} : slots'[j] = slots[j]
      BY <1>1, <1>2, <2>1, SlotSeen
    <2>4. Settings' = Settings
      BY <1>1, <2>1, <2>2, <2>3, SettingsStay
    <2>5. Control!Create(t, k, h)
      BY <1>3, <1>4, <2>1, <2>2, <2>3, <2>4 DEF Control!Create
    <2>6. Touched(system, {k, "aux"}, system')
      BY <1>2, <2>1 DEF Touched
    <2>7. Promised'
      <3>1. k = "equalizer" /\ slots'[k].installed => EqRight(system'.equalizer)
        BY <2>1, <2>2, <2>3 DEF Promised
      <3> QED  BY <1>1, <2>1, <2>3, <2>6, <3>1, EffectPromised
    <2> QED  BY <1>4, <2>1, <2>5, <2>7
  <1>6. CASE internalExtInstall(m) /\ k \in NeedsInterface \ supported
    <2>1. ~slots[k].installed /\ reply("error", NULL) /\ UNCHANGED <<system, slots>>
      BY <1>a, <1>6 DEF internalExtInstall
    <2>2. Control!Create(t, k, h)
      BY <1>3, <1>4, <2>1, SameSlots DEF Control!Create
    <2>3. Promised'
      BY <1>1, <2>1, AnswerSound DEF Promised
    <2> QED  BY <1>4, <2>1, <2>2, <2>3
  <1>7. CASE internalExtInstall(m) /\ k \notin NeedsInterface \ supported
    <2> DEFINE s == [installed |-> TRUE, num_attached |-> 1, client_queue |-> handleOnInstall(h)]
    <2>1. ~slots[k].installed /\ slots' = [slots EXCEPT ![k] = s] /\ reply("success", NULL) /\ system' = onInstall(k)
      BY <1>a, <1>7 DEF internalExtInstall
    <2>2. s.client_queue = <<h>> /\ s.installed
      BY DEF handleOnInstall
    <2> HIDE DEF s
    <2>3. /\ Holders' = [Holders EXCEPT ![k] = s.client_queue] /\ slots'[k] = s
          /\ \A j \in Effects \ {k} : slots'[j] = slots[j]
      BY <1>1, <1>2, <2>1, SlotSeen
    <2>4. Touched(system, {k, "aux"}, system')
      <3>1. SystemOK(system) /\ Follows(system, Installed) /\ ~Installed[k]
        BY <1>1, <2>1 DEF Quiet, SystemInv, Installed
      <3> QED  BY <1>1, <2>1, <3>1, InstallTouches
    <2>5. shown(system', k) = Control!Default(k) /\ (k = "equalizer" => EqRight(system'.equalizer))
      <3>1. k = "hqequalizer" => ~system.hqequalizer.enabled
        BY <1>1, <2>1 DEF Quiet, SystemInv, Off, SinkEffects
      <3>2. shown(onInstall(k), k) = Control!Default(k) /\ (k = "equalizer" => EqRight(onInstall(k).equalizer))
        BY <1>1, <1>2, <3>1, InstallShows
      <3>3. \A j : shown(system', j) = shown(onInstall(k), j)
        BY <2>1
      <3> QED  BY <2>1, <3>2, <3>3
    <2>6. Settings' = [Settings EXCEPT ![k] = Control!Default(k)]
      BY <1>1, <2>2, <2>3, <2>4, <2>5, SettingSeen
    <2>7. Holders[k] = <<>> /\ <<h>> \o Holders[k] = <<h>>
      <3>1. <<h>> \in Seq(Handles) /\ <<>> \in Seq(Handles)
        BY <1>1
      <3>2. <<h>> \o <<>> = <<h>>
        BY <3>1
      <3> QED  BY <1>3, <2>1, <3>2
    <2>8. Control!Create(t, k, h)
      BY <1>4, <2>1, <2>2, <2>3, <2>6, <2>7 DEF Control!Create
    <2>9. Promised'
      BY <1>1, <2>1, <2>3, <2>4, <2>5, EffectPromised
    <2> QED  BY <1>4, <2>1, <2>8, <2>9
  <1> QED  BY <1>1, <1>5, <1>6, <1>7

-----------------------------------------------------------------------------
(* Detaching, messages and every other step.                               *)

LEMMA DetachSeen ==
  ASSUME Protocol, Quiet, Promised, handleExtDetachOrUninstall, message.kind \in Effects
  PROVE  [Control!Next]_ControlVars /\ Promised'
  <1>a. PICK m, k, h, t : m = message /\ k = m.kind /\ h = m.handle /\ t = Head(queue)
    OBVIOUS
  <1>1. /\ queue # <<>> /\ m.what = "destroy" /\ k \in Effects /\ k \in Kinds /\ h \in Handles
        /\ k \notin Visualizers /\ t \in Threads /\ m.phase = "posted" /\ handler = "idle"
    BY <1>a, HeadOfQueue, VisualizersApart DEF handleExtDetachOrUninstall
  <1> DEFINE slot == slots[k]
             q == slot.client_queue
             last == slot.num_attached <= 1
             stops == k \in Visualizers /\ (last \/ stopsAtDetach(m))
  <1>2. slot \in SlotRecords /\ SlotSound(slot) /\ slot.installed /\ h \in Members(q) /\ TypeOK /\ SystemOK(system)
    <2>1. 1 \in 1 .. Len(queue) /\ m = calls[queue[1]]
      BY <1>a, <1>1 DEF Protocol, TypeOK, message
    <2> QED  BY <1>a, <1>1, <2>1, SenderAttached DEF Protocol, Quiet, SystemInv
  <1>3. \/ last /\ finishUninstall(m)
        \/ ~last /\ finishDetach(m, FALSE)
    <2>1. stops = FALSE
      BY <1>1
    <2>2. IF stops /\ available(k) THEN stopPeriodicCapturing(k)
          ELSE IF last THEN finishUninstall(m) ELSE finishDetach(m, stops)
      BY <1>a DEF handleExtDetachOrUninstall
    <2> HIDE DEF stops, last
    <2> QED  BY <2>1, <2>2
  <1>4. /\ q \in Seq(Handles) /\ OnceEach(q) /\ slot.num_attached = Len(q) /\ Len(q) \in Nat /\ DOMAIN q = 1 .. Len(q)
        /\ Holders[k] = q /\ slot.num_attached \in Nat
    BY <1>1, <1>2 DEF SlotRecords, SlotSound, Holders
  <1>5. PICK i \in DOMAIN q : q[i] = h
    BY <1>2 DEF Members
  <1> HIDE DEF slot, q, last
  <1>6. reply("success", NULL)
    BY <1>3 DEF finishUninstall, finishDetach
  <1>7. Control!Reply(t, "success", NULL) /\ EffectCalls[t] = m
    BY <1>a, <1>1, <1>6, ReplySeen
  <1>8. ASSUME NEW s, slots' = [slots EXCEPT ![k] = s], s.client_queue = Control!RemoveAt(q, i),
               Settings' = IF s.client_queue = <<>> THEN [Settings EXCEPT ![k] = NULL] ELSE Settings
        PROVE  [Control!Next]_ControlVars
    <2>1. Holders' = [Holders EXCEPT ![k] = s.client_queue] /\ Holders'[k] = s.client_queue
      <3>1. Holders' = [Holders EXCEPT ![k] = s.client_queue]
        BY <1>1, <1>2, <1>8, SlotSeen
      <3> QED  BY <1>1, <3>1 DEF Holders
    <2>2. Control!Destroy(t, k, h)
      BY <1>4, <1>5, <1>7, <1>8, <2>1 DEF Control!Destroy
    <2>3. Control!TakeEffect(t)
      BY <1>a, <1>1, <1>7, <2>2 DEF Control!TakeEffect, Control!Queries, Control!Facts
    <2> QED  BY <1>1, <2>3 DEF Control!Next
  <1>9. CASE last /\ finishUninstall(m)
    <2>1. slots' = [slots EXCEPT ![k] = FreeSlot] /\ system' = onUninstall(k)
      BY <1>a, <1>9 DEF finishUninstall
    <2>2. slots'[k] = FreeSlot /\ \A j \in Effects \ {k} : slots'[j] = slots[j]
      BY <1>1, <1>2, <2>1, SlotSeen
    <2>3. Touched(system, {k, "aux"}, system')
      <3> DEFINE then == [j \in Kinds |-> IF j = k THEN FALSE ELSE Installed[j]]
      <3>1. Follows(system, Installed) /\ ~then[k] /\ \A j \in PR!AuxEffects \ {k} : then[j] <=> Installed[j]
        BY <1>1, FieldNames DEF Quiet, SystemInv, Kinds, Effects
      <3> HIDE DEF then
      <3> QED  BY <1>1, <1>2, <2>1, <3>1, UninstallTouches
    <2>4. FreeSlot.client_queue = <<>> /\ FreeSlot.installed = FALSE
      BY DEF FreeSlot
    <2>5. Settings' = [Settings EXCEPT ![k] = NULL]
      BY <1>1, <2>2, <2>3, <2>4, SettingSeen
    <2>6. Control!RemoveAt(q, i) = <<>>
      <3>1. Len(q) = 1 /\ i = 1
        BY <1>4, <1>5, <1>9 DEF last
      <3>2. SubSeq(q, 1, 0) = <<>> /\ SubSeq(q, 2, 1) = <<>> /\ i - 1 = 0 /\ i + 1 = 2
        BY <1>4, <3>1
      <3>3. <<>> \o <<>> = <<>>
        OBVIOUS
      <3> QED  BY <3>1, <3>2, <3>3 DEF Control!RemoveAt
    <2>7. [Control!Next]_ControlVars
      BY <1>8, <2>1, <2>4, <2>5, <2>6
    <2>8. Promised'
      BY <1>1, <1>6, <2>2, <2>3, <2>4, EffectPromised
    <2> QED  BY <2>7, <2>8
  <1>10. CASE ~last /\ finishDetach(m, FALSE)
    <2> DEFINE s == detached([slot EXCEPT !.num_attached = @ - 1], h)
    <2>1. slots' = [slots EXCEPT ![k] = s] /\ system' = system
      BY <1>a, <1>10 DEF finishDetach, slot
    <2>2. s.installed /\ s.client_queue = handleOnDetach(q, h)
      <3>1. s = [slot EXCEPT !.num_attached = @ - 1, !.client_queue = handleOnDetach(q, h)]
        BY <1>2 DEF detached, SlotRecords, q
      <3> HIDE DEF s
      <3> QED  BY <1>2, <3>1 DEF SlotRecords
    <2>3. s.client_queue = Control!RemoveAt(q, i)
      BY <1>4, <1>5, <2>2, DetachedAt
    <2>4. s.client_queue # <<>>
      <3> DEFINE r == handleOnDetach(q, h)
      <3>1. Len(r) + (IF h \in Members(q) THEN 1 ELSE 0) = Len(q) /\ r \in Seq(Handles)
        BY <1>4, DetachOutcome
      <3> HIDE DEF r
      <3>2. Len(r) + 1 = Len(q)
        BY <1>2, <3>1
      <3>3. ~(Len(q) <= 1)
        BY <1>4, <1>10 DEF last
      <3>4. Len(r) # 0
        BY <1>4, <3>2, <3>3
      <3>5. r # <<>>
        BY <3>4
      <3> QED  BY <2>2, <3>5 DEF r
    <2> HIDE DEF s
    <2>5. slots'[k] = s /\ \A j \in Effects \ {k} : slots'[j] = slots[j]
      BY <1>1, <1>2, <2>1, SlotSeen
    <2>6. Settings' = Settings
      <3>1. \A j \in Effects : slots'[j].installed = slots[j].installed
        BY <1>2, <2>2, <2>5 DEF slot, SlotRecords
      <3> QED  BY <2>1, <3>1, SettingsStay
    <2>7. [Control!Next]_ControlVars
      BY <1>8, <2>1, <2>3, <2>4, <2>6
    <2>8. Touched(system, {k, "aux"}, system')
      BY <1>2, <2>1 DEF Touched
    <2>9. Promised'
      <3>1. k = "equalizer" /\ slots'[k].installed => EqRight(system'.equalizer)
        BY <1>2, <2>1 DEF Promised, slot
      <3> QED  BY <1>1, <1>6, <2>5, <2>8, <3>1, EffectPromised
    <2> QED  BY <2>7, <2>9
  <1> QED  BY <1>3, <1>9, <1>10

LEMMA MessageSeen ==
  ASSUME Protocol, Quiet, Promised, handleExtensionMessage, message.kind \in Effects
  PROVE  [Control!Next]_ControlVars /\ Promised'
  <1>a. PICK m, k, h, t : m = message /\ k = m.kind /\ h = m.handle /\ t = Head(queue)
    OBVIOUS
  <1>b. PICK answer, active : answer = processMessage(m) /\ active = is_active(m)
    OBVIOUS
  <1>1. /\ queue # <<>> /\ m.what \notin {"create", "destroy"} /\ k \in Effects /\ k \in Kinds /\ h \in Handles
        /\ k \notin Visualizers /\ t \in Threads /\ m.phase = "posted" /\ handler = "idle" /\ CallTyped(m) /\ Made(m)
        /\ m = calls[t]
    BY <1>a, HeadOfQueue, VisualizersApart DEF handleExtensionMessage, message
  <1>2. slots[k].installed /\ h \in Members(slots[k].client_queue) /\ SystemOK(system)
    <2>1. 1 \in 1 .. Len(queue) /\ m = calls[queue[1]]
      BY <1>a, <1>1 DEF Protocol, TypeOK, message
    <2> QED  BY <1>a, <1>1, <2>1, SenderAttached DEF Quiet, SystemInv
  <1>3. /\ system' = answer.system /\ reply(answer.result, answer.value) /\ slots' = slots
    BY <1>a, <1>b, <1>1, <1>2 DEF handleExtensionMessage, handleEffectMessage
  <1>4. m.what \in Methods(k) /\ (m.what = "setEnabled" => m.arg \in BOOLEAN)
    BY <1>a, <1>1 DEF CallTyped
  <1>5. Touched(system, {k, "aux"}, system')
    <2>1. Follows(system, Installed) /\ Installed[k]
      BY <1>1, <1>2 DEF Quiet, SystemInv, Installed
    <2> QED  BY <1>a, <1>b, <1>1, <1>2, <1>3, <1>4, <2>1, MessageTouches
  <1>6. /\ Replies(k, system, m.what, m.arg, active, answer)
        /\ k = "equalizer" => EqRight(answer.system.equalizer)
    <2>1. k = "equalizer" => EqRight(system.equalizer)
      BY <1>2 DEF Promised
    <2> QED  BY <1>a, <1>b, <1>1, <1>2, <1>4, <2>1, ProcessReplies
  <1>7. Promised'
    BY <1>1, <1>3, <1>5, <1>6, EffectPromised
  <1>8. Control!Reply(t, answer.result, answer.value) /\ EffectCalls[t] = m
    BY <1>a, <1>1, <1>3, ReplySeen
  <1>9. /\ Control!Holds(k, h) /\ (Control!InControl(k, h) <=> active) /\ active \in BOOLEAN
        /\ Settings[k] = shown(system, k) /\ Holders' = Holders
    BY <1>a, <1>b, <1>1, <1>2, <1>3, HoldsSeen, ActiveSeen, SameSlots DEF is_active, checkIsClientActive, Settings
  <1>10. Settings' = [Settings EXCEPT ![k] = shown(system', k)]
    BY <1>1, <1>2, <1>3, <1>5, SettingSeen
  <1>11. CASE m.what \in Control!Queries
    <2>1. /\ answer.system = system /\ answer.result = "success"
          /\ answer.value = Control!Told(k, shown(system, k), m.what, m.arg, active)
      BY <1>6, <1>11 DEF Replies
    <2>2. Settings' = Settings
      BY <1>3, <2>1, SameSlots
    <2>3. Control!InControl(k, h) = active
      BY <1>9 DEF Control!InControl
    <2>4. Control!Query(t, k, h)
      BY <1>8, <1>9, <2>1, <2>2, <2>3 DEF Control!Query
    <2>5. Control!TakeEffect(t)
      BY <1>a, <1>1, <1>8, <1>9, <1>11, <2>4 DEF Control!TakeEffect
    <2> QED  BY <1>1, <1>7, <2>5 DEF Control!Next
  <1>12. CASE m.what \notin Control!Queries
    <2>1. m.arg \in Legal(k, m.what) <=> ~Refused(k, m.what, m.arg)
      BY <1>a, <1>1 DEF Promised, Sound
    <2>2. Control!Change(t, k, h)
      <3>1. CASE active /\ ~Refused(k, m.what, m.arg)
        <4>1. /\ answer.result = "success" /\ answer.value = NULL
              /\ shown(answer.system, k) = Control!Changed(k, shown(system, k), m.what, m.arg)
          BY <1>6, <1>12, <3>1 DEF Replies
        <4>2. shown(system', k) = Control!Changed(k, Settings[k], m.what, m.arg)
          <5>1. shown(system', k) = shown(answer.system, k)
            BY <1>3
          <5> QED  BY <1>9, <4>1, <5>1
        <4> QED  BY <1>8, <1>9, <1>10, <2>1, <3>1, <4>1, <4>2 DEF Control!Change
      <3>2. CASE ~(active /\ ~Refused(k, m.what, m.arg))
        <4>1. /\ answer.system = system /\ answer.value = NULL
              /\ answer.result = IF active THEN "illegal_argument" ELSE "control_lost"
          BY <1>6, <1>12, <3>2 DEF Replies
        <4>2. Settings' = Settings
          BY <1>3, <4>1, SameSlots
        <4> QED  BY <1>8, <1>9, <2>1, <3>2, <4>1, <4>2 DEF Control!Change
      <3> QED  BY <3>1, <3>2
    <2>3. Control!TakeEffect(t)
      BY <1>a, <1>1, <1>8, <1>9, <1>12, <2>2 DEF Control!TakeEffect
    <2> QED  BY <1>1, <1>7, <2>3 DEF Control!Next
  <1> QED  BY <1>11, <1>12

\* what else changes the sink leaves the effects as they show
LEMMA SystemSeen ==
  ASSUME Protocol, Quiet, Promised,
         \/ \E next_is_started \in BOOLEAN : raiseOnBeforeAudioSinkStateChanged(next_is_started)
         \/ \E effect \in PR!AuxEffects \cup {"none"} : selectActiveAuxEffect(effect)
         \/ \E level \in 0 .. 2 : setAuxEffectSendLevel(level)
  PROVE  UNCHANGED ControlVars /\ Promised'
  <1>1. UNCHANGED <<slots, calls>> /\ SystemOK(system)
    BY DEF raiseOnBeforeAudioSinkStateChanged, selectActiveAuxEffect, setAuxEffectSendLevel, Quiet, SystemInv
  <1>2. \A t \in Threads : Sound(calls'[t])
    BY <1>1 DEF Promised
  <1>3. /\ \A k \in Effects : slots[k].installed => shown(system', k) = shown(system, k)
        /\ slots["equalizer"].installed => EqRight(system'.equalizer)
    <2>1. CASE \E next_is_started \in BOOLEAN : raiseOnBeforeAudioSinkStateChanged(next_is_started)
      <3>1. PICK next_is_started : /\ slots["equalizer"].installed
                                   /\ system' = EQ!onBeforeAudioSinkStateChanged(system, next_is_started)
        BY <2>1 DEF raiseOnBeforeAudioSinkStateChanged
      <3>2. Touched(system, {"equalizer"}, system')
        BY <1>1, <2>1, EqualizerTouches DEF raiseOnBeforeAudioSinkStateChanged
      <3>3. EqRight(system.equalizer)
        BY <3>1 DEF Promised
      <3>4. shown(system', "equalizer") = shown(system, "equalizer") /\ EqRight(system'.equalizer)
        <4> DEFINE r == EQ!onBeforeAudioSinkStateChanged(system, next_is_started)
        <4>1. shown(r, "equalizer") = shown(system, "equalizer") /\ EqRight(r.equalizer)
          BY <1>1, <3>3, RefreshShows
        <4>2. shown(system', "equalizer") = shown(r, "equalizer")
          BY <3>1
        <4> QED  BY <3>1, <4>1, <4>2
      <3>5. ASSUME NEW k \in Effects, k # "equalizer" PROVE shown(system', k) = shown(system, k)
        <4>1. k \in Fields \ {"equalizer"}
          BY <3>5 DEF Fields
        <4>2. system'[k] = system[k]
          BY <3>2, <4>1 DEF Touched
        <4> QED  BY <4>2, ShownBy
      <3> QED  BY <3>4, <3>5
    <2>2. ASSUME NEW a, system' = [system EXCEPT !.aux = a]
          PROVE  /\ \A k \in Effects : shown(system', k) = shown(system, k)
                 /\ slots["equalizer"].installed => EqRight(system'.equalizer)
      <3>1. \A k \in Effects : system'[k] = system[k]
        BY <1>1, <2>2 DEF SystemOK, Fields, Effects
      <3>2. "equalizer" \in Effects
        BY DEF Effects
      <3>3. \A k \in Effects : shown(system', k) = shown(system, k)
        BY <3>1, ShownBy
      <3> QED  BY <3>1, <3>2, <3>3 DEF Promised
    <2>3. CASE \/ \E effect \in PR!AuxEffects \cup {"none"} : selectActiveAuxEffect(effect)
               \/ \E level \in 0 .. 2 : setAuxEffectSendLevel(level)
      <3>1. \E a : system' = [system EXCEPT !.aux = a]
        BY <2>3 DEF selectActiveAuxEffect, setAuxEffectSendLevel
      <3> QED  BY <2>2, <3>1
    <2> QED  BY <2>1, <2>3
  <1>4. Settings' = Settings
    BY <1>1, <1>3, SettingsStay
  <1>5. Holders' = Holders /\ EffectCalls' = EffectCalls
    BY <1>1 DEF Holders, EffectCalls
  <1> QED  BY <1>1, <1>2, <1>3, <1>4, <1>5 DEF Promised, ControlVars

\* every step is one of EffectControl, or none
LEMMA StepSeen ==
  ASSUME Protocol, Quiet, Promised, [Next]_vars
  PROVE  [Control!Next]_ControlVars /\ Promised'
  <1>1. CASE \E t \in Threads, h \in Handles :
               \/ \E kind \in scenario : Create(t, h, kind)
               \/ Destroy(t, h)
               \/ handles[h] # NULL /\ \E what \in Asked(scenario, handles[h].kind) :
                    \E arg \in Legal(handles[h].kind, what) \cup Illegal(handles[h].kind, what) : Use(t, h, what, arg)
    BY <1>1, CallsSeen
  <1>2. CASE \E t \in Threads : Return(t)
    BY <1>2, ReturnSeen, ReturnPromised
  <1>3. CASE Handle \/ Wait \/ StartTimesOut
    <2>1. queue # <<>> /\ (handler # "idle" => message.kind \in Visualizers)
      BY <1>3 DEF Handle, Wait, handleExtAttachOrInstall, handleExtDetachOrUninstall, handleExtensionMessage, CaptureStopped,
                  CaptureStarted, StartGivenUp, StartTimesOut, Protocol, HandlerInv
    <2>2. CASE message.kind \in Visualizers
      BY <1>3, <2>1, <2>2, VisualizerUnseen
    <2>3. CASE message.kind \notin Visualizers
      <3>1. message.kind \in Effects
        BY <2>1, <2>3, HeadOfQueue DEF Kinds
      <3>2. handler = "idle"
        BY <2>1, <2>3
      <3>3. Handle
        BY <1>3, <3>2 DEF Wait, CaptureStopped, CaptureStarted, StartGivenUp, StartTimesOut
      <3> QED  BY <3>1, <3>3, AttachSeen, DetachSeen, MessageSeen DEF Handle
    <2> QED  BY <2>2, <2>3
  <1>4. CASE UNCHANGED <<slots, calls, system>>
    <2>1. UNCHANGED ControlVars
      BY <1>4, SameSlots DEF ControlVars, EffectCalls
    <2> QED  BY <1>4, <2>1 DEF Promised
  <1>5. CASE \E kind \in Visualizers :
               ThreadStarts(kind) \/ ListenerCalled(kind) \/ ListenerReturns(kind) \/ ThreadExits(kind)
    <2>1. UNCHANGED <<slots, calls, system>>
      BY <1>5 DEF ThreadStarts, ListenerCalled, ListenerReturns, ThreadExits, moduleVars
    <2> QED  BY <1>4, <2>1
  <1>6. CASE \/ \E next_is_started \in BOOLEAN : raiseOnBeforeAudioSinkStateChanged(next_is_started)
             \/ \E effect \in PR!AuxEffects \cup {"none"} : selectActiveAuxEffect(effect)
             \/ \E level \in 0 .. 2 : setAuxEffectSendLevel(level)
    BY <1>6, SystemSeen
  <1>7. CASE UNCHANGED vars
    <2>1. UNCHANGED <<slots, calls, system>>
      BY <1>7 DEF vars, moduleVars
    <2> QED  BY <1>4, <2>1
  <1> QED  BY <1>1, <1>2, <1>3, <1>5, <1>6, <1>7 DEF Next

LEMMA InitSeen == Init => Control!Init /\ Promised
  <1> SUFFICES ASSUME Init PROVE Control!Init /\ Promised
    OBVIOUS
  <1>1. /\ \A t \in Threads : calls[t] = Idle
        /\ \A k \in Kinds : slots[k] = FreeSlot
    BY DEF Init
  <1>2. \A k \in Effects : slots[k].client_queue = <<>> /\ ~slots[k].installed
    BY <1>1 DEF FreeSlot, Kinds
  <1>3. EffectCall(Idle) = Idle /\ Sound(Idle)
    BY DEF EffectCall, Sound, Idle
  <1>4. Control!Init
    BY <1>1, <1>2, <1>3 DEF Control!Init, Holders, Settings, EffectCalls, Control!Idle, Idle
  <1>5. Promised
    BY <1>1, <1>2, <1>3 DEF Promised, Effects
  <1> QED  BY <1>4, <1>5

LEMMA PromisedHolds == Spec => []Promised
  <1>1. Protocol /\ Quiet /\ Promised /\ [Next]_vars => Promised'
    BY StepSeen
  <1> QED  BY <1>1, InitSeen, ProtocolHolds, QuietHolds, PTL DEF Spec

(* The seven effects implement EffectControl, whatever is called on whatever
   threads while the handler thread works off its queue: control is with the
   newest handle and goes back when it leaves (ExtensionModule's client queue),
   the others may only ask (CHECK_IS_ACTIVE), a call takes effect once, between
   its post and its answer, and a module starts over after its last handle has
   gone (onInstall and onUninstall of the seven modules). *)
THEOREM EffectControlHolds == Spec => EffectControlSpec
  <1>1. Protocol /\ Quiet /\ Promised /\ [Next]_vars => [Control!Next]_<<Holders, Settings, EffectCalls>>
    BY StepSeen DEF ControlVars
  <1> QED  BY <1>1, InitSeen, ProtocolHolds, QuietHolds, PromisedHolds, PTL DEF Spec, EffectControlSpec, Control!Spec
=============================================================================
