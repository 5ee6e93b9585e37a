--------------------------- MODULE HandoffProofs ---------------------------
(***************************************************************************)
(* Proofs about Handoff: for any number of listeners, any descriptors      *)
(* asked for and any limits, the layout is sound, what the worker reads    *)
(* back is what the supervisor has bound, nothing that run has accepted is *)
(* rejected later, and no failure leaks a descriptor.                      *)
(***************************************************************************)
EXTENDS Handoff, TLAPS, FiniteSetTheorems

-----------------------------------------------------------------------------
(* Sets of descriptors.                                                     *)

\* A set of naturals that has a member has a least one.
LEMMA LeastMember ==
  ASSUME NEW S \in SUBSET Nat, S # {}
  PROVE  \E x \in S : \A y \in S : x <= y
<1> DEFINE R == {ss \in Nat \X Nat : ss[1] < ss[2]}
<1>1. IsWellFoundedOn(R, Nat)
  BY NatLessThanWellFounded DEF OpToRel
<1>2. \A x, y \in Nat : y < x => <<y, x>> \in R
  OBVIOUS
<1> HIDE DEF R
<1>3. PICK x \in S : \A y \in S : ~ (<<y, x>> \in R)
  BY <1>1, WFMin
<1>4. \A y \in S : ~ (y < x)
  BY <1>2, <1>3
<1> QED BY <1>4

\* LargestOf is the largest descriptor in use, or 2.
LEMMA LargestIs ==
  ASSUME NEW U \in SUBSET Nat, NEW b \in Nat, \A u \in U : u <= b
  PROVE  /\ LargestOf(U) \in U \cup {2}
         /\ LargestOf(U) \in Nat
         /\ \A u \in U : u <= LargestOf(U)
<1> DEFINE B == {n \in Nat : \A u \in U \cup {2} : u <= n}
<1>1. b + 2 \in B
  OBVIOUS
<1>2. PICK m \in B : \A n \in B : m <= n
  BY <1>1, LeastMember
<1>3. m \in U \cup {2}
  <2> SUFFICES ASSUME m \notin U \cup {2} PROVE FALSE
    OBVIOUS
  <2>1. m - 1 \in B
    BY <1>2
  <2> QED BY <2>1, <1>2
<1>4. \E fd \in U \cup {2} : \A f \in U : f <= fd
  BY <1>2, <1>3
<1> HIDE DEF B
<1>5. /\ LargestOf(U) \in U \cup {2}
      /\ \A f \in U : f <= LargestOf(U)
  BY <1>4, Zenon DEF LargestOf
<1>6. LargestOf(U) \in Nat
  <2>1. \A x \in U \cup {2} : x \in Nat
    OBVIOUS
  <2> QED BY <1>5, <2>1, Zenon
<1> QED BY <1>5, <1>6, Zenon

\* The descriptors of n listeners, all different and all above 2, leave
\* LargestOf - 2 - n slots unused.
LEMMA UnusedSlots ==
  ASSUME NEW n \in Nat, NEW b \in Nat, NEW d \in [1..n -> 3..b],
         \A k, m \in 1..n : d[k] = d[m] => k = m
  PROVE  LET U == {d[k] : k \in 1..n}
         IN  Cardinality((3..LargestOf(U)) \ U) = LargestOf(U) - 2 - n
<1> DEFINE U == {d[k] : k \in 1..n}
           top == LargestOf(U)
<1>1. /\ top \in U \cup {2} /\ top \in Nat
      /\ \A u \in U : u <= top
  <2>1. U \in SUBSET Nat /\ \A u \in U : u <= b
    OBVIOUS
  <2> HIDE DEF U
  <2> QED BY <2>1, LargestIs
<1>2. U \subseteq 3..top /\ top >= 2
  <2>1. \A u \in U : u \in Nat /\ u >= 3
    OBVIOUS
  <2> HIDE DEF U, top
  <2> QED BY <1>1, <2>1
<1>3. d \in Bijection(1..n, U)
  BY DEF Bijection, Injection, Surjection, IsInjective
<1>4. Cardinality(U) = n /\ IsFiniteSet(U)
  <2>1. IsFiniteSet(1..n) /\ Cardinality(1..n) = n
    BY FS_Interval
  <2>2. ExistsBijection(1..n, U)
    <3> HIDE DEF U
    <3> QED BY <1>3 DEF ExistsBijection
  <2> HIDE DEF U
  <2> QED BY <2>1, <2>2, FS_Bijection
<1> HIDE DEF U, top
<1>5. IsFiniteSet(3..top) /\ Cardinality(3..top) = top - 2
  <2>1. 3 \in Int /\ top \in Int
    BY <1>1
  <2>2. IsFiniteSet(3..top) /\ Cardinality(3..top) = IF 3 > top THEN 0 ELSE top - 3 + 1
    BY <2>1, FS_Interval
  <2> QED BY <1>1, <1>2, <2>2
<1>6. (3..top) \cap U = U
  BY <1>2
<1>7. Cardinality((3..top) \ U) = top - 2 - n
  <2>1. Cardinality((3..top) \ U) = Cardinality(3..top) - Cardinality((3..top) \cap U)
    BY <1>5, FS_Difference, Zenon
  <2> QED BY <1>1, <1>4, <1>5, <1>6, <2>1
<1> QED BY <1>7 DEF U, top

-----------------------------------------------------------------------------
(* The wire format.                                                         *)

Listener == [type : {"tcp", "udp", "unix"}, base : Spellings, slash : BOOLEAN, fd : Int]

\* A request for a port or a path describes a listener of that type.
LEMMA DescribedListener ==
  ASSUME NEW r \in Request, NEW fd \in Int
  PROVE  /\ StarterListener(r, fd) \in Listener
         /\ StarterListener(r, fd).fd = fd
         /\ StarterListener(r, fd).type = r.type
         /\ StarterListener(r, fd).type = "udp" =>
              /\ StarterListener(r, fd).base \in TCPSpellings \cup {"reserved"}
              /\ StarterListener(r, fd).slash = FALSE
<1>1. /\ r.type \in {"tcp", "udp", "unix"} /\ r.base \in Spellings /\ r.slash \in BOOLEAN
      /\ r.type = "udp" => r.base \in TCPSpellings \cup {"reserved"} /\ r.slash = FALSE
  BY DEF Request, Spellings
<1>2. Canonical(r.base, r.slash) \in BOOLEAN
  BY <1>1, Zenon DEF Canonical
<1> QED BY <1>1, <1>2 DEF StarterListener, Listener

\* What FormatPorts accepts reads back as the same listener, a UDP one as TCP.
LEMMA ReadsBack ==
  ASSUME NEW l \in Listener, Formats(l),
         l.type = "udp" => l.base \in TCPSpellings \cup {"reserved"} /\ l.slash = FALSE
  PROVE  ParseTarget(Encode(l)) = AsTCP(l)
<1>1. CASE l.type = "udp"
  <2>1. l.base \in TCPSpellings /\ l.slash = FALSE
    BY <1>1 DEF Formats
  <2>2. ParseTarget(Encode(l)).type = "tcp"
    BY <2>1 DEF ParseTarget, Encode
  <2> QED BY <1>1, <2>2 DEF Formats
<1>2. CASE l.type # "udp"
  BY <1>2 DEF Formats, AsTCP
<1> QED BY <1>1, <1>2

\* How n listeners d read back, and their types.
ReadBack(n, d) == [k \in 1..n |-> AsTCP(d[k])]
TypeList(n, d) == [k \in 1..n |-> [fd |-> d[k].fd, type |-> d[k].type]]

\* The socket types that the supervisor writes give the listeners that the ports
\* were written from.
LEMMA TypesRestore ==
  ASSUME NEW n \in Nat, NEW d \in [1..n -> Listener],
         \A k, m \in 1..n : d[k].fd = d[m].fd => k = m
  PROVE  /\ TypesApply(ReadBack(n, d), TypeList(n, d))
         /\ ApplySocketTypes(ReadBack(n, d), TypeList(n, d)) = d
<1> DEFINE ls == ReadBack(n, d)
           types == TypeList(n, d)
<1>1. Len(ls) = n /\ Len(types) = n
  BY DEF ReadBack, TypeList
<1>2. \A k \in 1..n : /\ ls[k] = AsTCP(d[k])
                      /\ types[k].fd = d[k].fd /\ types[k].type = d[k].type
                      /\ types[k] = [fd |-> d[k].fd, type |-> d[k].type]
  BY DEF ReadBack, TypeList
<1> HIDE DEF ls, types
<1>3. \A k \in 1..n : /\ d[k].type \in {"tcp", "udp", "unix"}
                      /\ ls[k].fd = d[k].fd
                      /\ ls[k].type = IF d[k].type = "udp" THEN "tcp" ELSE d[k].type
                      /\ [ls[k] EXCEPT !.type = d[k].type] = d[k]
                      /\ d[k].type # "udp" => ls[k] = d[k]
  BY <1>2 DEF Listener, AsTCP
<1>4. TypesApply(ls, types)
  <2>1. {types[t].fd : t \in 1..Len(types)} = {ls[k].fd : k \in 1..Len(ls)}
    BY <1>1, <1>2, <1>3
  <2>2. \A s, t \in 1..Len(types) : types[s].fd = types[t].fd => s = t
    BY <1>1, <1>2
  <2>3. ASSUME NEW k \in 1..Len(ls), NEW t \in 1..Len(types), types[t].fd = ls[k].fd
        PROVE  \/ ls[k].type = "tcp" /\ types[t].type \in {"tcp", "udp"}
               \/ ls[k].type = "unix" /\ types[t].type = "unix"
    <3>1. k \in 1..n /\ t \in 1..n
      BY <1>1
    <3>2. t = k
      BY <2>3, <3>1, <1>2, <1>3
    <3> QED BY <3>1, <3>2, <1>2, <1>3
  <2> QED BY <2>1, <2>2, <2>3, Zenon DEF TypesApply
<1>5. ASSUME NEW k \in 1..n
      PROVE  ApplySocketTypes(ls, types)[k] = d[k]
  <2>1. [fd |-> ls[k].fd, type |-> "udp"] \in {types[t] : t \in 1..Len(types)}
          <=> d[k].type = "udp"
    <3>1. \A t \in 1..n : types[t] = [fd |-> d[t].fd, type |-> d[t].type]
      BY <1>2
    <3>2. ASSUME NEW t \in 1..n, types[t] = [fd |-> ls[k].fd, type |-> "udp"]
          PROVE  t = k /\ d[k].type = "udp"
      <4>1. types[t].fd = ls[k].fd /\ types[t].type = "udp"
        BY <3>2
      <4>2. d[t].fd = d[k].fd /\ d[t].type = "udp"
        BY <4>1, <1>2, <1>3
      <4> QED BY <4>2
    <3>3. d[k].type = "udp" => [fd |-> ls[k].fd, type |-> "udp"] = types[k]
      BY <1>3, <3>1
    <3> QED BY <1>1, <3>2, <3>3, Zenon
  <2>2. ApplySocketTypes(ls, types)[k] =
          IF [fd |-> ls[k].fd, type |-> "udp"] \in {types[t] : t \in 1..Len(types)}
          THEN [ls[k] EXCEPT !.type = "udp"] ELSE ls[k]
    BY <1>1 DEF ApplySocketTypes
  <2> QED BY <1>3, <2>1, <2>2
<1>6. ApplySocketTypes(ls, types) = d
  <2>1. ApplySocketTypes(ls, types) = [k \in 1..n |-> ApplySocketTypes(ls, types)[k]]
    BY <1>1 DEF ApplySocketTypes
  <2> HIDE DEF ApplySocketTypes
  <2> QED BY <1>5, <2>1
<1> QED BY <1>4, <1>6 DEF ls, types

-----------------------------------------------------------------------------
(* The inductive invariant.                                                 *)

Shape == requested \in Seq(Request) /\ TypeOK

\* Either few slots are unused already, or few will be once every listener has
\* a descriptor.
Sparse(used, n) ==
  \/ Cardinality((3..LargestOf(used)) \ used) <= MaxSparse
  \/ LargestOf(used) - 2 - n <= MaxSparse

Layout ==
  /\ \A k, m \in 1..N : descriptors[k] = descriptors[m] /\ descriptors[k] # 0 => k = m
  /\ \A k \in 1..N : requested[k].fd # -1 /\ descriptors[k] # 0
                       => descriptors[k] = requested[k].fd
  /\ pc = "explicit" =>
       /\ i \in 1..(N + 1) /\ nextFD = 3
       /\ \A k \in 1..(i - 1) : requested[k].fd # -1 => descriptors[k] # 0
  /\ pc = "auto" =>
       /\ i \in 1..(N + 1)
       /\ nextFD >= 3 /\ \A f \in 3..(nextFD - 1) : f \in Used
       /\ \A k \in 1..(i - 1) : descriptors[k] # 0
  /\ pc \notin {"explicit", "rejected"} =>
       /\ Sparse(Used, N)
       /\ \A k \in 1..N : requested[k].fd # -1 => descriptors[k] # 0
  /\ pc \notin {"explicit", "auto", "rejected"} =>
       \A k \in 1..N : descriptors[k] # 0

\* The listeners, and what the two variables hold for them.
Listeners == [k \in 1..N |-> Described(k)]
Specs == [k \in 1..N |-> Encode(Described(k))]
Types == [k \in 1..N |-> [fd |-> Described(k).fd, type |-> Described(k).type]]

Formatted ==
  /\ pc = "bind" => \A k \in 1..N : requested[k].base # "" => Formats(Described(k))
  /\ pc \in {"pads", "dups", "start", "worker", "stream", "packet"} =>
       \A k \in 1..N : Formats(Described(k))
  /\ pc \in {"start", "worker"} => portSpec = Specs /\ socketTypes = Types

Transfer ==
  /\ pc = "pads" => i >= 3
  /\ pc = "dups" => i \in 1..(N + 1) /\ \A k \in 1..(i - 1) : files[descriptors[k]] = k
  /\ pc = "start" => \A k \in 1..N : files[descriptors[k]] = k
  /\ pc = "worker" => \A k \in 1..N : fds[descriptors[k]] = k
  /\ pc \in {"stream", "packet"} =>
       /\ i \in 1..(N + 1) /\ converted = 1..(i - 1)
       /\ list = Listeners
       /\ \A k \in i..N : fds[descriptors[k]] = k
  /\ pc \notin {"stream", "packet", "serving", "listenFailed"} => converted = {}

IInv == Shape /\ Layout /\ Formatted /\ Transfer /\ NoLeak /\ AcceptedIsServable /\ AllOrNothing

\* A descriptor below which none is free leaves a layout sparse enough.
LEMMA SparseAdd ==
  ASSUME NEW U \in SUBSET Nat, NEW b \in Nat, \A u \in U : u >= 3 /\ u <= b,
         NEW fd \in Nat, fd >= 3, \A f \in 3..(fd - 1) : f \in U,
         NEW n \in Nat, Sparse(U, n)
  PROVE  Sparse(U \cup {fd}, n)
<1> DEFINE V == U \cup {fd}
           top == LargestOf(U)
           new == LargestOf(V)
<1>1. top \in U \cup {2} /\ top \in Nat /\ \A u \in U : u <= top
  BY LargestIs
<1>2. new \in V \cup {2} /\ new \in Nat /\ \A u \in V : u <= new
  <2>1. V \in SUBSET Nat /\ b + fd \in Nat /\ \A u \in V : u <= b + fd
    OBVIOUS
  <2> HIDE DEF V
  <2> QED BY <2>1, LargestIs
<1> HIDE DEF top, new
<1>3. CASE fd > top
  <2>1. new = fd
    BY <1>1, <1>2, <1>3
  <2>2. (3..new) \ V = {}
    BY <2>1
  <2>3. Cardinality((3..new) \ V) = 0
    BY <2>2, FS_EmptySet, Zenon
  <2>4. Cardinality((3..new) \ V) <= MaxSparse
    BY <2>3, LimitsAssumption
  <2> QED BY <2>4 DEF Sparse, new
<1>4. CASE fd <= top
  <2>1. new = top
    BY <1>1, <1>2, <1>4
  <2>2. CASE LargestOf(U) - 2 - n <= MaxSparse
    BY <2>1, <2>2 DEF Sparse, top, new
  <2>3. CASE Cardinality((3..LargestOf(U)) \ U) <= MaxSparse
    <3>1. IsFiniteSet(3..top)
      BY <1>1, FS_Interval
    <3>2. IsFiniteSet((3..top) \ U)
      BY <3>1, FS_Difference, Zenon
    <3>3. (3..new) \ V \in SUBSET ((3..top) \ U)
      BY <2>1
    <3>4. IsFiniteSet((3..new) \ V) /\ Cardinality((3..new) \ V) <= Cardinality((3..top) \ U)
      BY <3>2, <3>3, FS_Subset, Zenon
    <3>5. Cardinality((3..new) \ V) \in Nat /\ Cardinality((3..top) \ U) \in Nat
      BY <3>2, <3>4, FS_CardinalityType, Zenon
    <3>6. Cardinality((3..top) \ U) <= MaxSparse
      BY <2>3 DEF top
    <3> HIDE DEF V
    <3>7. Cardinality((3..new) \ V) <= MaxSparse
      BY <3>4, <3>5, <3>6, LimitsAssumption
    <3> QED BY <3>7 DEF Sparse, new, V
  <2> QED BY <2>2, <2>3 DEF Sparse
<1> QED BY <1>1, <1>3, <1>4

\* What the types say of the number of listeners and of the descriptors in use.
LEMMA Facts ==
  ASSUME Shape
  PROVE  /\ N \in Nat /\ MaxFD \in Nat /\ MaxFD + N \in Nat
         /\ \A k \in 1..N : requested[k] \in Request /\ requested[k].fd \in Int
         /\ \A k \in 1..N : descriptors[k] \in Nat
                              /\ (descriptors[k] # 0 => descriptors[k] \in Slots)
         /\ Used \in SUBSET Nat
         /\ \A u \in Used : u >= 3 /\ u <= MaxFD + N
<1>1. N \in Nat /\ \A k \in 1..N : requested[k] \in Request
  BY DEF Shape, N
<1>2. ASSUME NEW r \in Request PROVE r.fd \in Int
  <2>1. r.fd \in Int \/ r.fd = -1
    BY DEF Request
  <2> QED BY <2>1
<1>3. descriptors \in [1..N -> {0} \cup Slots]
  BY DEF Shape, TypeOK
<1>4. MaxFD \in Nat /\ Slots \subseteq Nat /\ \A u \in Slots : u >= 3 /\ u <= MaxFD + N
  BY <1>1, LimitsAssumption DEF Slots
<1> HIDE DEF N, Slots
<1>5. Used \in SUBSET Slots
  BY <1>3 DEF Used
<1>6. N \in Nat /\ MaxFD \in Nat /\ MaxFD + N \in Nat
  BY <1>1, <1>4
<1>7. \A k \in 1..N : requested[k] \in Request /\ requested[k].fd \in Int
  BY <1>1, <1>2
<1>8. \A k \in 1..N : descriptors[k] \in Nat
                        /\ (descriptors[k] # 0 => descriptors[k] \in Slots)
  <2>1. \A k \in 1..N : descriptors[k] \in {0} \cup Slots
    BY <1>3
  <2>2. \A x \in {0} \cup Slots : x \in Nat /\ (x # 0 => x \in Slots)
    BY <1>4
  <2> QED BY <2>1, <2>2, Zenon
<1>9. Used \in SUBSET Nat /\ \A u \in Used : u >= 3 /\ u <= MaxFD + N
  BY <1>4, <1>5
<1> QED BY <1>6, <1>7, <1>8, <1>9, Zenon

-----------------------------------------------------------------------------
(* assignListenerDescriptors.                                               *)

\* The first loop keeps the layout.
LEMMA LayoutExplicit ==
  ASSUME Shape, Layout, Explicit
  PROVE  Layout' /\ descriptors' \in [1..N -> {0} \cup Slots]
<1>0. N \in Nat /\ MaxFD \in Nat /\ \A k \in 1..N : requested[k].fd \in Int
  BY Facts
<1>1. /\ pc = "explicit" /\ i \in 1..N /\ requested' = requested /\ N' = N
      /\ nextFD' = nextFD
  BY <1>0 DEF Explicit, Layout, N
<1>2. descriptors \in [1..N -> {0} \cup Slots]
  BY DEF Shape, TypeOK
<1> DEFINE fd == requested[i].fd
<1>3. CASE pc' = "rejected" /\ UNCHANGED <<i, descriptors>>
  BY <1>1, <1>2, <1>3 DEF Layout
<1>4. CASE fd = -1 /\ i' = i + 1 /\ UNCHANGED <<pc, descriptors>>
  BY <1>0, <1>1, <1>2, <1>4 DEF Layout
<1>5. CASE /\ fd # -1 /\ ValidExplicitFD(fd) /\ Free(fd)
           /\ descriptors' = [descriptors EXCEPT ![i] = fd]
           /\ i' = i + 1 /\ pc' = pc
  <2>1. fd \in Slots /\ fd # 0
    BY <1>0, <1>1, <1>5 DEF ValidExplicitFD, Slots
  <2>2. \A k \in 1..N : descriptors[k] # 0 => descriptors[k] # fd
    BY <1>5 DEF Free, Used
  <2>3. /\ descriptors' \in [1..N -> {0} \cup Slots]
        /\ \A k \in 1..N : descriptors'[k] = IF k = i THEN fd ELSE descriptors[k]
    BY <1>1, <1>2, <1>5, <2>1
  <2>4. \A k, m \in 1..N : descriptors'[k] = descriptors'[m] /\ descriptors'[k] # 0 => k = m
    BY <2>2, <2>3 DEF Layout
  <2>5. \A k \in 1..N : requested[k].fd # -1 /\ descriptors'[k] # 0
                          => descriptors'[k] = requested[k].fd
    BY <2>3 DEF Layout
  <2>6. \A k \in 1..i : requested[k].fd # -1 => descriptors'[k] # 0
    BY <1>0, <1>1, <2>1, <2>3 DEF Layout
  <2>7. i' \in 1..(N + 1) /\ i' - 1 = i /\ nextFD = 3
    BY <1>0, <1>1, <1>5 DEF Layout
  <2>8. Layout'
    BY <1>1, <1>5, <2>4, <2>5, <2>6, <2>7 DEF Layout
  <2> QED BY <2>3, <2>8
<1> QED BY <1>3, <1>4, <1>5, Zenon DEF Explicit

\* Past the limit on padding the layout is sparse enough.
LEMMA LayoutCheckPadding ==
  ASSUME Shape, Layout, CheckPadding
  PROVE  Layout'
<1>0. /\ N \in Nat /\ MaxFD + N \in Nat
      /\ Used \in SUBSET Nat /\ \A u \in Used : u <= MaxFD + N
  BY Facts
<1>1. /\ pc = "explicit" /\ i = N + 1 /\ i' = 1
      /\ requested' = requested /\ descriptors' = descriptors /\ nextFD' = nextFD
      /\ N' = N /\ Used' = Used
  BY <1>0 DEF CheckPadding, Layout, N, Used, layoutVars
<1>2. pc' = "auto" => Largest - 2 - N <= MaxSparse
  <2>1. Largest \in Nat
    BY <1>0, LargestIs DEF Largest
  <2> QED BY <1>0, <2>1, LimitsAssumption DEF CheckPadding
<1>3. pc' \in {"auto", "rejected"}
  BY DEF CheckPadding
<1>4. pc' = "auto" => Sparse(Used', N')
  BY <1>1, <1>2 DEF Sparse, Largest
<1> QED BY <1>0, <1>1, <1>3, <1>4 DEF Layout

\* The second loop keeps the layout.
LEMMA LayoutAssignAuto ==
  ASSUME Shape, Layout, AssignAuto
  PROVE  Layout' /\ descriptors' \in [1..N -> {0} \cup Slots] /\ nextFD' \in Nat
<1>0. /\ N \in Nat /\ MaxFD + N \in Nat
      /\ Used \in SUBSET Nat /\ \A u \in Used : u >= 3 /\ u <= MaxFD + N
  BY Facts
<1>1. /\ pc = "auto" /\ pc' = "auto" /\ i \in 1..N /\ i' = i + 1
      /\ requested' = requested /\ N' = N
  BY <1>0 DEF AssignAuto, Layout, N
<1>2. descriptors \in [1..N -> {0} \cup Slots] /\ nextFD \in Nat
  BY DEF Shape, TypeOK
<1>3. CASE descriptors[i] # 0
  <2>1. UNCHANGED <<descriptors, nextFD>>
    BY <1>3 DEF AssignAuto
  <2>2. Used' = Used
    BY <1>1, <2>1 DEF Used
  <2> QED BY <1>0, <1>1, <1>2, <1>3, <2>1, <2>2 DEF Layout
<1>4. CASE descriptors[i] = 0
  <2>1. PICK fd \in Slots :
          /\ fd >= nextFD /\ fd \notin Used
          /\ \A f \in nextFD..(fd - 1) : f \in Used
          /\ descriptors' = [descriptors EXCEPT ![i] = fd]
          /\ nextFD' = fd + 1
    BY <1>4 DEF AssignAuto
  <2>2. fd \in Nat /\ fd >= 3
    BY <1>0 DEF Slots
  <2>3. /\ descriptors' \in [1..N -> {0} \cup Slots]
        /\ \A k \in 1..N : descriptors'[k] = IF k = i THEN fd ELSE descriptors[k]
    BY <1>1, <1>2, <2>1
  <2>4. Used' = Used \cup {fd}
    BY <1>1, <1>4, <2>2, <2>3 DEF Used
  <2>5. \A f \in 3..(fd - 1) : f \in Used
    BY <1>1, <1>2, <2>1, <2>2 DEF Layout
  <2>6. Sparse(Used', N')
    <3>1. Sparse(Used, N)
      BY <1>1 DEF Layout
    <3>2. Sparse(Used \cup {fd}, N)
      BY <1>0, <2>2, <2>5, <3>1, SparseAdd
    <3> QED BY <1>1, <2>4, <3>2
  <2>7. \A k \in 1..N : descriptors[k] # 0 => descriptors[k] # fd
    BY <2>1 DEF Used
  <2>8. requested[i].fd = -1
    BY <1>1, <1>4 DEF Layout
  <2>9. nextFD' \in Nat /\ nextFD' >= 3 /\ \A f \in 3..(nextFD' - 1) : f \in Used'
    BY <2>1, <2>2, <2>4, <2>5
  <2>10. \A k, m \in 1..N : descriptors'[k] = descriptors'[m] /\ descriptors'[k] # 0 => k = m
    BY <1>1, <2>3, <2>7 DEF Layout
  <2>11. \A k \in 1..N : requested[k].fd # -1 /\ descriptors'[k] # 0
                           => descriptors'[k] = requested[k].fd
    BY <1>1, <2>3, <2>8 DEF Layout
  <2>12. \A k \in 1..N : requested[k].fd # -1 => descriptors'[k] # 0
    BY <1>1, <2>3, <2>8 DEF Layout
  <2>13. \A k \in 1..i : descriptors'[k] # 0
    BY <1>0, <1>1, <2>2, <2>3 DEF Layout
  <2>14. i' \in 1..(N' + 1) /\ i' - 1 = i
    BY <1>0, <1>1
  <2>15. Layout'
    BY <1>1, <2>6, <2>9, <2>10, <2>11, <2>12, <2>13, <2>14 DEF Layout
  <2> QED BY <2>3, <2>9, <2>15
<1> QED BY <1>3, <1>4

\* A step past the two loops keeps the layout.
LEMMA LayoutKept ==
  ASSUME Shape, Layout, N' = N, descriptors' = descriptors,
         \A k \in 1..N : requested'[k].fd = requested[k].fd,
         pc' \notin {"explicit", "auto"},
         \/ pc \notin {"explicit", "auto", "rejected"}
         \/ pc' = "rejected"
         \/ pc = "auto" /\ i > N
  PROVE  Layout'
<1>1. Used' = Used
  BY DEF Used
<1>2. N \in Nat
  BY Facts
<1> QED BY <1>1, <1>2 DEF Layout

-----------------------------------------------------------------------------
(* The other steps.                                                         *)

\* What is defined from the requests and the descriptors stays as they stay.
LEMMA Same ==
  ASSUME requested' = requested, descriptors' = descriptors
  PROVE  /\ N' = N /\ Slots' = Slots /\ NoFiles' = NoFiles /\ Used' = Used
         /\ Largest' = Largest
         /\ \A k : Described(k)' = Described(k)
         /\ Listeners' = Listeners /\ Specs' = Specs /\ Types' = Types
<1>1. N' = N
  BY DEF N
<1>2. Slots' = Slots /\ Used' = Used
  BY <1>1 DEF Slots, Used
<1>3. NoFiles' = NoFiles /\ Largest' = Largest
  BY <1>2 DEF NoFiles, Largest
<1>4. \A k : Described(k)' = Described(k)
  BY DEF Described
<1>5. Listeners' = Listeners /\ Specs' = Specs /\ Types' = Types
  BY <1>1, <1>4 DEF Listeners, Specs, Types
<1> QED BY <1>1, <1>2, <1>3, <1>4, <1>5

\* Past the layout, a listener's description is of its own type and descriptor.
LEMMA Descriptions ==
  ASSUME Shape, NEW k \in 1..N
  PROVE  /\ Described(k) \in Listener
         /\ Described(k).fd = descriptors[k]
         /\ Described(k).type = requested[k].type
         /\ Described(k).type = "udp" =>
              /\ Described(k).base \in TCPSpellings \cup {"reserved"}
              /\ Described(k).slash = FALSE
<1>1. requested[k] \in Request /\ descriptors[k] \in Int
  BY Facts
<1> QED BY <1>1, DescribedListener DEF Described

\* The initial states.
LEMMA InvInit == Init => IInv
<1> SUFFICES ASSUME Init PROVE IInv
  OBVIOUS
<1>1. requested \in Seq(Request) /\ N \in Nat
  BY RequestsAssumption DEF Init, N
<1>2. NoFiles \in [Slots -> None..N]
  BY <1>1 DEF NoFiles, None
<1>3. Shape
  BY <1>1, <1>2 DEF Init, Shape, TypeOK
<1>4. Layout
  BY <1>1 DEF Init, Layout
<1>5. Formatted /\ Transfer /\ AcceptedIsServable /\ AllOrNothing /\ NoLeak
  BY DEF Init, Formatted, Transfer, AcceptedIsServable, AllOrNothing, NoLeak
<1> QED BY <1>3, <1>4, <1>5 DEF IInv

\* A step of the two loops keeps the rest of the invariant.
LEMMA EarlyStep ==
  ASSUME IInv, requested' = requested, UNCHANGED <<files, envVars, workerVars>>,
         pc \in {"explicit", "auto"}, pc' \in {"explicit", "auto", "rejected"},
         i' \in Nat, nextFD' \in Nat, descriptors' \in [1..N -> {0} \cup Slots], Layout'
  PROVE  IInv'
<1>1. N' = N /\ Slots' = Slots
  BY DEF N, Slots
<1>2. NoFiles' = NoFiles
  BY <1>1 DEF NoFiles
<1>3. files' = files /\ fds' = fds /\ list' = list /\ converted' = converted
  BY DEF workerVars
<1>4. Shape'
  BY <1>1, <1>3 DEF IInv, Shape, TypeOK
<1>5. Formatted' /\ AcceptedIsServable' /\ AllOrNothing'
  BY DEF Formatted, AcceptedIsServable, AllOrNothing
<1>6. Transfer'
  BY <1>3 DEF IInv, Transfer
<1>7. NoLeak'
  BY <1>2, <1>3 DEF IInv, NoLeak
<1> QED BY <1>4, <1>5, <1>6, <1>7 DEF IInv

\* A step of the loop over explicit descriptors keeps the invariant.
LEMMA InvExplicit == ASSUME IInv, Explicit PROVE IInv'
<1>1. Layout' /\ descriptors' \in [1..N -> {0} \cup Slots]
  BY LayoutExplicit DEF IInv
<1>2. i' \in Nat /\ nextFD' \in Nat
  BY DEF Explicit, IInv, Shape, TypeOK
<1> QED BY <1>1, <1>2, EarlyStep DEF Explicit

\* The check of the padding keeps the invariant.
LEMMA InvCheckPadding == ASSUME IInv, CheckPadding PROVE IInv'
<1>1. Layout'
  BY LayoutCheckPadding DEF IInv
<1>2. /\ i' \in Nat /\ nextFD' \in Nat /\ descriptors' \in [1..N -> {0} \cup Slots]
      /\ requested' = requested
  BY DEF CheckPadding, IInv, Shape, TypeOK, layoutVars
<1> QED BY <1>1, <1>2, EarlyStep DEF CheckPadding

\* A step of the loop over the other descriptors keeps the invariant.
LEMMA InvAssignAuto == ASSUME IInv, AssignAuto PROVE IInv'
<1>1. Layout' /\ descriptors' \in [1..N -> {0} \cup Slots] /\ nextFD' \in Nat
  BY LayoutAssignAuto DEF IInv
<1>2. i' \in Nat
  BY DEF AssignAuto, IInv, Shape, TypeOK
<1> QED BY <1>1, <1>2, EarlyStep DEF AssignAuto

PCs == {"explicit", "auto", "bind", "pads", "dups", "start", "worker",
        "stream", "packet", "rejected", "failed", "formatFailed",
        "noTarget", "workerRejects", "listenFailed", "serving"}

\* A later step that leaves the layout alone keeps shape and layout.
LEMMA LateStep ==
  ASSUME IInv, requested' = requested, descriptors' = descriptors, nextFD' = nextFD,
         pc' \in PCs \ {"explicit", "auto"},
         \/ pc \notin {"explicit", "auto", "rejected"}
         \/ pc' = "rejected"
         \/ pc = "auto" /\ i > N,
         i' \in Nat, files' \in [Slots -> None..N], fds' \in [Slots -> None..N],
         converted' \subseteq 1..N
  PROVE  Shape' /\ Layout'
<1>1. N' = N /\ Slots' = Slots /\ None' = None
  BY Same DEF None
<1>2. Shape'
  BY <1>1 DEF IInv, Shape, TypeOK, PCs
<1>3. Layout'
  BY <1>1, LayoutKept DEF IInv
<1> QED BY <1>2, <1>3

\* The check of the wire format keeps the invariant.
LEMMA InvValidate == ASSUME IInv, Validate PROVE IInv'
<1>1. /\ pc = "auto" /\ i > N /\ i' = i /\ pc' \in {"bind", "rejected"}
      /\ requested' = requested /\ descriptors' = descriptors /\ nextFD' = nextFD
      /\ files' = files /\ fds' = fds /\ converted' = converted
  BY DEF Validate, layoutVars, workerVars
<1>2. Shape' /\ Layout'
  <2>1. /\ i \in Nat /\ files \in [Slots -> None..N] /\ fds \in [Slots -> None..N]
        /\ converted \subseteq 1..N
    BY DEF IInv, Shape, TypeOK
  <2> QED BY <1>1, <2>1, LateStep DEF PCs
<1>3. NoFiles' = NoFiles /\ N' = N /\ \A k : Described(k)' = Described(k)
  BY <1>1, Same
<1>4. Formatted'
  BY <1>1, <1>3 DEF Validate, Formatted
<1>5. Transfer' /\ NoLeak'
  BY <1>1, <1>3 DEF IInv, Transfer, NoLeak
<1>6. AcceptedIsServable' /\ AllOrNothing'
  BY <1>1 DEF AcceptedIsServable, AllOrNothing
<1> QED BY <1>2, <1>4, <1>5, <1>6 DEF IInv

\* Binding gives a name to a path that had none, and changes nothing else of a
\* request.
LEMMA Naming ==
  ASSUME NEW r \in Request
  PROVE  LET named == IF r.base # "" THEN r ELSE [r EXCEPT !.base = "plain"]
         IN  /\ named \in Request
             /\ named.fd = r.fd /\ named.type = r.type
             /\ r.type # "unix" => r.base # "" /\ named = r
<1>1. CASE r \in [type : {"tcp", "udp"}, base : TCPSpellings \cup {"reserved"},
                  slash : {FALSE}, fd : Int]
  <2>1. r.base # ""
    BY <1>1 DEF TCPSpellings
  <2> QED BY <2>1
<1>2. CASE r \in [type : {"unix"}, base : Spellings, slash : BOOLEAN, fd : {-1}]
  <2>1. [r EXCEPT !.base = "plain"]
          \in [type : {"unix"}, base : Spellings, slash : BOOLEAN, fd : {-1}]
    BY <1>2 DEF Spellings
  <2>2. [r EXCEPT !.base = "plain"] \in Request
    BY <2>1 DEF Request
  <2>3. r.type = "unix"
    BY <1>2
  <2>4. /\ [r EXCEPT !.base = "plain"].fd = r.fd
        /\ [r EXCEPT !.base = "plain"].type = r.type
    BY <1>2
  <2> QED BY <2>2, <2>3, <2>4
<1> QED BY <1>1, <1>2 DEF Request

\* Binding the listeners keeps the invariant.
LEMMA InvBind == ASSUME IInv, Bind PROVE IInv'
<1> DEFINE named == [k \in 1..N |-> IF requested[k].base # "" THEN requested[k]
                                    ELSE [requested[k] EXCEPT !.base = "plain"]]
<1>1. /\ pc = "bind" /\ i' = 3 /\ pc' \in {"pads", "rejected"}
      /\ descriptors' = descriptors /\ nextFD' = nextFD
      /\ files' = files /\ fds' = fds /\ converted' = converted
      /\ requested' \in {requested, named}
      /\ pc' = "pads" =>
           /\ requested' = named
           /\ \A k \in 1..N : requested[k].type = "unix"
                => Formats(StarterListener(named[k], descriptors[k]))
  BY DEF Bind, workerVars
<1>2. N \in Nat /\ \A k \in 1..N : requested[k] \in Request
  BY Facts DEF IInv
<1>3. \A k \in 1..N :
        /\ named[k] \in Request
        /\ named[k].fd = requested[k].fd /\ named[k].type = requested[k].type
        /\ requested[k].type # "unix" => requested[k].base # "" /\ named[k] = requested[k]
  BY <1>2, Naming
<1>4. named \in Seq(Request) /\ Len(named) = N
  <2>1. DOMAIN named = 1..N /\ named = [k \in 1..N |-> named[k]]
    OBVIOUS
  <2> HIDE DEF named
  <2>2. named \in [1..N -> Request]
    BY <1>3, <2>1
  <2> QED BY <1>2, <2>1, <2>2
<1> HIDE DEF named
<1>5. /\ requested' \in Seq(Request) /\ N' = N
      /\ \A k \in 1..N : requested'[k].fd = requested[k].fd
  BY <1>1, <1>3, <1>4 DEF IInv, Shape, N
<1>6. Slots' = Slots /\ NoFiles' = NoFiles
  BY <1>5 DEF Slots, NoFiles
<1>7. Shape'
  BY <1>1, <1>5, <1>6 DEF IInv, Shape, TypeOK, None
<1>8. Layout'
  BY <1>1, <1>5, LayoutKept DEF IInv
<1>9. Formatted'
  <2>1. ASSUME NEW k \in 1..N, pc' = "pads" PROVE Formats(Described(k)')
    <3>1. Described(k)' = StarterListener(named[k], descriptors[k])
      BY <1>1, <2>1 DEF Described
    <3>2. CASE requested[k].type = "unix"
      BY <1>1, <2>1, <3>1, <3>2
    <3>3. CASE requested[k].type # "unix"
      <4>1. Described(k)' = Described(k) /\ requested[k].base # ""
        BY <1>3, <3>1, <3>3 DEF Described
      <4> QED BY <1>1, <4>1 DEF IInv, Formatted
    <3> QED BY <3>2, <3>3
  <2> QED BY <1>1, <1>5, <2>1 DEF Formatted
<1>10. Transfer' /\ NoLeak'
  BY <1>1, <1>6 DEF IInv, Transfer, NoLeak
<1>11. AcceptedIsServable' /\ AllOrNothing'
  BY <1>1 DEF AcceptedIsServable, AllOrNothing
<1> QED BY <1>7, <1>8, <1>9, <1>10, <1>11 DEF IInv

\* The types of the files, for the steps that follow.
LEMMA FileTypes ==
  ASSUME IInv
  PROVE  /\ N \in Nat /\ i \in Nat
         /\ files \in [Slots -> None..N] /\ fds \in [Slots -> None..N]
         /\ converted \subseteq 1..N
         /\ NoFiles \in [Slots -> None..N] /\ Pad \in None..N
         /\ \A k \in 1..N : k \in None..N
<1>1. N \in Nat
  BY Facts DEF IInv
<1>2. None \in None..N /\ Pad \in None..N /\ \A k \in 1..N : k \in None..N
  BY <1>1 DEF None, Pad
<1>3. NoFiles \in [Slots -> None..N]
  BY <1>2 DEF NoFiles
<1> QED BY <1>1, <1>2, <1>3 DEF IInv, Shape, TypeOK

\* Padding a slot, or failing to, keeps the invariant.
LEMMA InvOpenPad == ASSUME IInv, OpenPad PROVE IInv'
<1>1. /\ pc = "pads" /\ pc' \in {"pads", "failed"} /\ i' \in {i, i + 1}
      /\ pc' = "pads" => i' = i + 1
      /\ requested' = requested /\ descriptors' = descriptors /\ nextFD' = nextFD
      /\ fds' = fds /\ converted' = converted
      /\ files' \in {NoFiles, [files EXCEPT ![i] = Pad]}
      /\ pc' = "failed" => files' = NoFiles
  BY DEF OpenPad, CloseWorkerFiles, layoutVars, workerVars
<1>2. Shape' /\ Layout'
  <2>1. i' \in Nat /\ files' \in [Slots -> None..N]
    BY <1>1, FileTypes
  <2> QED BY <1>1, <2>1, FileTypes, LateStep DEF PCs
<1>3. NoFiles' = NoFiles /\ N' = N /\ \A k : Described(k)' = Described(k)
  BY <1>1, Same
<1>4. Formatted'
  BY <1>1, <1>3 DEF IInv, Formatted
<1>5. i >= 3 /\ i \in Nat
  BY <1>1, FileTypes DEF IInv, Transfer
<1>6. Transfer' /\ NoLeak'
  <2>1. pc' = "pads" => i' >= 3 /\ i' # 3
    BY <1>1, <1>5
  <2>2. Transfer'
    BY <1>1, <2>1 DEF IInv, Transfer
  <2>3. NoLeak'
    BY <1>1, <1>3, <2>1 DEF NoLeak
  <2> QED BY <2>2, <2>3
<1>7. AcceptedIsServable' /\ AllOrNothing'
  BY <1>1 DEF AcceptedIsServable, AllOrNothing
<1> QED BY <1>2, <1>4, <1>6, <1>7 DEF IInv

\* The end of the padding keeps the invariant.
LEMMA InvPadsOpen == ASSUME IInv, PadsOpen PROVE IInv'
<1>1. /\ pc = "pads" /\ pc' = "dups" /\ i' = 1
      /\ requested' = requested /\ descriptors' = descriptors /\ nextFD' = nextFD
      /\ fds' = fds /\ converted' = converted /\ files' = files
  BY DEF PadsOpen, layoutVars, workerVars
<1>2. Shape' /\ Layout'
  BY <1>1, FileTypes, LateStep DEF PCs
<1>3. N \in Nat /\ N' = N /\ \A k : Described(k)' = Described(k)
  BY <1>1, Same, FileTypes
<1>4. Formatted' /\ Transfer'
  BY <1>1, <1>3 DEF IInv, Formatted, Transfer
<1>5. NoLeak' /\ AcceptedIsServable' /\ AllOrNothing'
  BY <1>1 DEF NoLeak, AcceptedIsServable, AllOrNothing
<1> QED BY <1>2, <1>4, <1>5 DEF IInv

\* Past the loops the descriptors are slots, and all different.
LEMMA Placed ==
  ASSUME IInv, pc \notin {"explicit", "auto", "rejected"}
  PROVE  /\ \A k \in 1..N : descriptors[k] \in Slots
         /\ \A k, m \in 1..N : descriptors[k] = descriptors[m] => k = m
<1>1. \A k \in 1..N : descriptors[k] # 0
  BY DEF IInv, Layout
<1>2. \A k \in 1..N : descriptors[k] # 0 => descriptors[k] \in Slots
  BY Facts DEF IInv
<1>3. \A k, m \in 1..N : descriptors[k] = descriptors[m] /\ descriptors[k] # 0 => k = m
  BY DEF IInv, Layout
<1> QED BY <1>1, <1>2, <1>3, Zenon

\* Duplicating a listener, or failing to, keeps the invariant.
LEMMA InvDuplicate == ASSUME IInv, Duplicate PROVE IInv'
<1>1. /\ pc = "dups" /\ pc' \in {"dups", "failed"} /\ i' \in {i, i + 1} /\ i <= N
      /\ pc' = "dups" => i' = i + 1 /\ files' = [files EXCEPT ![descriptors[i]] = i]
      /\ requested' = requested /\ descriptors' = descriptors /\ nextFD' = nextFD
      /\ fds' = fds /\ converted' = converted
      /\ files' \in {NoFiles, [files EXCEPT ![descriptors[i]] = i]}
      /\ pc' = "failed" => files' = NoFiles
  BY DEF Duplicate, CloseWorkerFiles, layoutVars, workerVars
<1>2. i \in 1..N /\ \A k \in 1..(i - 1) : files[descriptors[k]] = k
  BY <1>1, FileTypes DEF IInv, Transfer
<1>3. Shape' /\ Layout'
  <2>1. i' \in Nat /\ files' \in [Slots -> None..N]
    BY <1>1, <1>2, FileTypes
  <2> QED BY <1>1, <2>1, FileTypes, LateStep DEF PCs
<1>4. N \in Nat /\ NoFiles' = NoFiles /\ N' = N /\ \A k : Described(k)' = Described(k)
  BY <1>1, Same, FileTypes
<1>5. Formatted'
  BY <1>1, <1>4 DEF IInv, Formatted
<1>6. pc' = "dups" => \A k \in 1..i : files'[descriptors[k]] = k
  <2>1. /\ \A k \in 1..N : descriptors[k] \in Slots
        /\ \A k, m \in 1..N : descriptors[k] = descriptors[m] => k = m
    BY <1>1, Placed
  <2> QED BY <1>1, <1>2, <1>4, <2>1, FileTypes
<1>7. Transfer'
  <2>1. pc' = "dups" => i' \in 1..(N + 1) /\ i' - 1 = i
    BY <1>1, <1>2, <1>4
  <2>2. converted = {}
    BY <1>1 DEF IInv, Transfer
  <2> QED BY <1>1, <1>4, <1>6, <2>1, <2>2 DEF Transfer
<1>8. NoLeak' /\ AcceptedIsServable' /\ AllOrNothing'
  BY <1>1, <1>4 DEF NoLeak, AcceptedIsServable, AllOrNothing
<1> QED BY <1>3, <1>5, <1>7, <1>8 DEF IInv

\* Formatting never fails, and keeps the invariant.
LEMMA InvFormat == ASSUME IInv, Format PROVE IInv'
<1>1. pc = "dups" /\ i > N /\ i \in 1..(N + 1) /\ N \in Nat
  BY FileTypes DEF Format, IInv, Transfer
<1>2. /\ \A k \in 1..N : Formats(Listeners[k])
      /\ TypesFormat(Listeners)
  <2>1. \A k \in 1..N : Formats(Described(k))
    BY <1>1 DEF IInv, Formatted
  <2>2. \A k \in 1..N : Listeners[k] = Described(k) /\ Described(k).fd = descriptors[k]
    BY Descriptions DEF IInv, Listeners
  <2>3. Len(Listeners) = N
    BY <1>1 DEF Listeners
  <2>4. \A k, m \in 1..N : descriptors[k] = descriptors[m] => k = m
    BY <1>1, Placed
  <2> QED BY <2>1, <2>2, <2>3, <2>4 DEF TypesFormat
<1>3. /\ pc' = "start" /\ files' = files /\ i' = i
      /\ portSpec' = Specs /\ socketTypes' = Types
      /\ requested' = requested /\ descriptors' = descriptors /\ nextFD' = nextFD
      /\ fds' = fds /\ converted' = converted
  <2> DEFINE ls == [k \in 1..N |-> Described(k)]
  <2>1. (\A k \in 1..N : Formats(ls[k])) /\ TypesFormat(ls)
    BY <1>2 DEF Listeners
  <2>2. /\ portSpec' = [k \in 1..N |-> Encode(ls[k])]
        /\ socketTypes' = [k \in 1..N |-> [fd |-> ls[k].fd, type |-> ls[k].type]]
        /\ pc' = "start" /\ files' = files
    BY <2>1, Zenon DEF Format
  <2>3. portSpec' = Specs /\ socketTypes' = Types
    BY <2>2 DEF Specs, Types
  <2> QED BY <2>2, <2>3 DEF Format, layoutVars, workerVars
<1>4. Shape' /\ Layout'
  BY <1>1, <1>3, FileTypes, LateStep DEF PCs
<1>5. /\ N' = N /\ Specs' = Specs /\ Types' = Types
      /\ \A k : Described(k)' = Described(k)
  BY <1>3, Same
<1>6. Formatted'
  BY <1>1, <1>3, <1>5 DEF IInv, Formatted
<1>7. Transfer'
  <2>1. i = N + 1 /\ i - 1 = N
    BY <1>1
  <2> QED BY <1>1, <1>3, <1>5, <2>1 DEF IInv, Transfer
<1>8. NoLeak' /\ AcceptedIsServable' /\ AllOrNothing'
  BY <1>3 DEF NoLeak, AcceptedIsServable, AllOrNothing
<1> QED BY <1>4, <1>6, <1>7, <1>8 DEF IInv

\* Starting the worker, for good or not, keeps the invariant.
LEMMA InvStart == ASSUME IInv, Start PROVE IInv'
<1>1. /\ pc = "start" /\ pc' \in {"worker", "failed", "pads"} /\ i' \in {i, 3}
      /\ pc' = "pads" => i' = 3
      /\ pc' = "worker" => fds' = files
      /\ fds' \in {fds, files} /\ files' = NoFiles
      /\ portSpec' = portSpec /\ socketTypes' = socketTypes /\ converted' = converted
      /\ requested' = requested /\ descriptors' = descriptors /\ nextFD' = nextFD
  BY DEF Start, CloseWorkerFiles, layoutVars, envVars
<1>2. Shape' /\ Layout'
  <2>1. i' \in Nat /\ fds' \in [Slots -> None..N] /\ files' \in [Slots -> None..N]
    BY <1>1, FileTypes
  <2> QED BY <1>1, <2>1, FileTypes, LateStep DEF PCs
<1>3. /\ NoFiles' = NoFiles /\ N' = N /\ Specs' = Specs /\ Types' = Types
      /\ \A k : Described(k)' = Described(k)
  BY <1>1, Same
<1>4. Formatted'
  BY <1>1, <1>3 DEF IInv, Formatted
<1>5. Transfer'
  BY <1>1, <1>3 DEF IInv, Transfer
<1>6. NoLeak' /\ AcceptedIsServable' /\ AllOrNothing'
  BY <1>1, <1>3 DEF NoLeak, AcceptedIsServable, AllOrNothing
<1> QED BY <1>2, <1>4, <1>5, <1>6 DEF IInv

-----------------------------------------------------------------------------
(* The worker.                                                              *)

\* What the worker parses, with the types applied, is what the supervisor has.
LEMMA WorkerReads ==
  ASSUME IInv, pc = "worker"
  PROVE  /\ TypesApply(ParsePorts(portSpec), socketTypes)
         /\ ApplySocketTypes(ParsePorts(portSpec), socketTypes) = Listeners
<1>1. N \in Nat /\ portSpec = Specs /\ socketTypes = Types
  BY FileTypes DEF IInv, Formatted
<1>2. \A k \in 1..N : /\ Described(k) \in Listener /\ Described(k).fd = descriptors[k]
                      /\ ParseTarget(Encode(Described(k))) = AsTCP(Described(k))
  <2> SUFFICES ASSUME NEW k \in 1..N
               PROVE  /\ Described(k) \in Listener /\ Described(k).fd = descriptors[k]
                      /\ ParseTarget(Encode(Described(k))) = AsTCP(Described(k))
    OBVIOUS
  <2>1. Formats(Described(k))
    BY DEF IInv, Formatted
  <2>2. /\ Described(k) \in Listener /\ Described(k).fd = descriptors[k]
        /\ Described(k).type = "udp" =>
             /\ Described(k).base \in TCPSpellings \cup {"reserved"}
             /\ Described(k).slash = FALSE
    BY Descriptions DEF IInv
  <2> QED BY <2>1, <2>2, ReadsBack
<1>3. /\ Listeners \in [1..N -> Listener]
      /\ \A k \in 1..N : Listeners[k] = Described(k)
  BY <1>2 DEF Listeners
<1>4. ParsePorts(portSpec) = ReadBack(N, Listeners)
  <2>1. Len(portSpec) = N /\ \A k \in 1..N : portSpec[k] = Encode(Described(k))
    BY <1>1 DEF Specs
  <2>2. \A k \in 1..N : ParseTarget(portSpec[k]) = AsTCP(Listeners[k])
    BY <1>2, <1>3, <2>1
  <2> QED BY <2>1, <2>2 DEF ParsePorts, ReadBack
<1>5. socketTypes = TypeList(N, Listeners)
  BY <1>1, <1>3 DEF Types, TypeList
<1>6. \A k, m \in 1..N : Listeners[k].fd = Listeners[m].fd => k = m
  BY <1>2, <1>3, Placed
<1>7. N \in Nat /\ Listeners \in [1..N -> Listener]
  BY <1>1, <1>3
<1> QED BY <1>4, <1>5, <1>6, <1>7, TypesRestore

\* Ports in the worker never rejects what it reads, and keeps the invariant.
LEMMA InvPorts == ASSUME IInv, Ports PROVE IInv'
<1>1. pc = "worker"
  BY DEF Ports
<1>2. /\ pc' \in {"noTarget", "stream", "packet"} /\ i' \in {i, 1}
      /\ pc' \in {"stream", "packet"} => i' = 1 /\ list' = Listeners
      /\ files' = files /\ fds' = fds /\ converted' = converted
      /\ requested' = requested /\ descriptors' = descriptors /\ nextFD' = nextFD
  BY <1>1, WorkerReads DEF Ports, layoutVars
<1>3. Shape' /\ Layout'
  BY <1>1, <1>2, FileTypes, LateStep DEF PCs
<1>4. /\ N \in Nat /\ NoFiles' = NoFiles /\ N' = N /\ Listeners' = Listeners
      /\ \A k : Described(k)' = Described(k)
  BY <1>2, Same, FileTypes
<1>5. Formatted'
  BY <1>1, <1>2, <1>4 DEF IInv, Formatted
<1>6. Transfer'
  <2>1. converted = {} /\ \A k \in 1..N : fds[descriptors[k]] = k
    BY <1>1 DEF IInv, Transfer
  <2> QED BY <1>2, <1>4, <2>1 DEF Transfer
<1>7. NoLeak' /\ AcceptedIsServable' /\ AllOrNothing'
  BY <1>1, <1>2, <1>4 DEF IInv, NoLeak, AcceptedIsServable, AllOrNothing
<1> QED BY <1>3, <1>5, <1>6, <1>7 DEF IInv

\* The listener that ListenAll is at.
LEMMA AtListener ==
  ASSUME IInv, pc \in {"stream", "packet"}
  PROVE  /\ Len(list) = N /\ i \in 1..(N + 1) /\ converted = 1..(i - 1)
         /\ i <= N => list[i].fd = descriptors[i] /\ fds[descriptors[i]] = i
<1>1. list = Listeners /\ i \in 1..(N + 1) /\ converted = 1..(i - 1)
      /\ \A k \in i..N : fds[descriptors[k]] = k
  BY DEF IInv, Transfer
<1>2. N \in Nat /\ Len(list) = N
  BY <1>1, FileTypes DEF Listeners
<1>3. \A k \in 1..N : list[k].fd = descriptors[k]
  BY <1>1, Descriptions DEF IInv, Listeners
<1> QED BY <1>1, <1>2, <1>3

\* Converting a descriptor keeps the invariant.
LEMMA InvListen == ASSUME IInv, Listen PROVE IInv'
<1>1. /\ pc \in {"stream", "packet"} /\ pc' = pc /\ i' = i + 1 /\ i <= Len(list)
      /\ converted' = converted \cup {fds[list[i].fd]}
      /\ fds' = [fds EXCEPT ![list[i].fd] = None]
      /\ files' = files /\ list' = list
      /\ requested' = requested /\ descriptors' = descriptors /\ nextFD' = nextFD
  BY DEF Listen, Converting, CloseSource, layoutVars
<1>2. /\ N \in Nat /\ i \in 1..N /\ converted = 1..(i - 1)
      /\ list[i].fd = descriptors[i] /\ fds[descriptors[i]] = i
  BY <1>1, AtListener, FileTypes
<1>3. converted' = 1..i
  BY <1>1, <1>2
<1>4. Shape' /\ Layout'
  <2>1. None \in None..N
    BY <1>2 DEF None
  <2>2. i' \in Nat /\ fds' \in [Slots -> None..N] /\ converted' \subseteq 1..N
    <3>1. fds' \in [Slots -> None..N]
      BY <1>1, <2>1, FileTypes
    <3>2. i' \in Nat /\ converted' \subseteq 1..N
      BY <1>1, <1>2, <1>3
    <3> QED BY <3>1, <3>2
  <2> QED BY <1>1, <2>2, FileTypes, LateStep DEF PCs
<1>5. /\ NoFiles' = NoFiles /\ N' = N /\ Listeners' = Listeners
      /\ \A k : Described(k)' = Described(k)
  BY <1>1, Same
<1>6. Formatted'
  BY <1>1, <1>5 DEF IInv, Formatted
<1>7. Transfer'
  <2>1. \A k \in (i + 1)..N : fds'[descriptors[k]] = k
    <3>1. /\ \A k \in 1..N : descriptors[k] \in Slots
          /\ \A k, m \in 1..N : descriptors[k] = descriptors[m] => k = m
      BY <1>1, Placed
    <3>2. \A k \in i..N : fds[descriptors[k]] = k
      BY <1>1 DEF IInv, Transfer
    <3> QED BY <1>1, <1>2, <3>1, <3>2, FileTypes
  <2>2. i' \in 1..(N + 1) /\ converted' = 1..(i' - 1)
    BY <1>1, <1>2, <1>3
  <2>3. list' = Listeners'
    BY <1>1, <1>5 DEF IInv, Transfer
  <2> QED BY <1>1, <1>5, <2>1, <2>2, <2>3 DEF Transfer
<1>8. NoLeak' /\ AcceptedIsServable' /\ AllOrNothing'
  BY <1>1, <1>5 DEF IInv, NoLeak, AcceptedIsServable, AllOrNothing
<1> QED BY <1>4, <1>6, <1>7, <1>8 DEF IInv

\* Giving up on a descriptor keeps the invariant.
LEMMA InvListenFails == ASSUME IInv, ListenFails PROVE IInv'
<1>1. /\ pc \in {"stream", "packet"} /\ pc' = "listenFailed" /\ i' = i
      /\ converted' = {} /\ files' = files
      /\ fds' \in {fds, [fds EXCEPT ![list[i].fd] = None]}
      /\ requested' = requested /\ descriptors' = descriptors /\ nextFD' = nextFD
  BY DEF ListenFails, Converting, CloseSource, layoutVars
<1>2. N \in Nat
  BY FileTypes
<1>3. Shape' /\ Layout'
  <2>1. None \in None..N
    BY <1>2 DEF None
  <2>2. fds' \in [Slots -> None..N]
    BY <1>1, <2>1, FileTypes
  <2>3. converted' \subseteq 1..N
    BY <1>1
  <2> QED BY <1>1, <2>2, <2>3, FileTypes, LateStep DEF PCs
<1>4. NoFiles' = NoFiles
  BY <1>1, Same
<1>5. Formatted' /\ Transfer'
  BY <1>1 DEF Formatted, Transfer
<1>6. NoLeak' /\ AcceptedIsServable' /\ AllOrNothing'
  BY <1>1, <1>4 DEF IInv, NoLeak, AcceptedIsServable, AllOrNothing
<1> QED BY <1>3, <1>5, <1>6 DEF IInv

\* The end of the conversions keeps the invariant.
LEMMA InvServe == ASSUME IInv, Serve PROVE IInv'
<1>1. /\ pc \in {"stream", "packet"} /\ pc' = "serving" /\ i' = i /\ i > Len(list)
      /\ converted' = converted /\ files' = files /\ fds' = fds
      /\ requested' = requested /\ descriptors' = descriptors /\ nextFD' = nextFD
  BY DEF Serve, layoutVars, workerVars
<1>2. Shape' /\ Layout'
  BY <1>1, FileTypes, LateStep DEF PCs
<1>3. NoFiles' = NoFiles /\ N' = N
  BY <1>1, Same
<1>4. Formatted' /\ Transfer'
  BY <1>1 DEF Formatted, Transfer
<1>5. converted' = 1..N
  <2>1. Len(list) = N /\ i \in 1..(N + 1) /\ converted = 1..(i - 1) /\ N \in Nat
    BY <1>1, AtListener, FileTypes
  <2> QED BY <1>1, <2>1
<1>6. NoLeak' /\ AcceptedIsServable' /\ AllOrNothing'
  BY <1>1, <1>3, <1>5 DEF IInv, NoLeak, AcceptedIsServable, AllOrNothing
<1> QED BY <1>2, <1>4, <1>6 DEF IInv

\* A stuttering step.
LEMMA InvStutter == ASSUME IInv, UNCHANGED vars PROVE IInv'
<1>1. /\ pc' = pc /\ i' = i /\ nextFD' = nextFD /\ requested' = requested
      /\ descriptors' = descriptors /\ files' = files /\ portSpec' = portSpec
      /\ socketTypes' = socketTypes /\ fds' = fds /\ list' = list /\ converted' = converted
  BY DEF vars, layoutVars, envVars, workerVars
<1>2. /\ N' = N /\ Slots' = Slots /\ NoFiles' = NoFiles /\ Used' = Used
      /\ Listeners' = Listeners /\ Specs' = Specs /\ Types' = Types
      /\ \A k : Described(k)' = Described(k)
  BY <1>1, Same
<1>3. Shape'
  BY <1>1, <1>2 DEF IInv, Shape, TypeOK, None
<1>4. Layout'
  BY <1>1, <1>2 DEF IInv, Layout
<1>5. Formatted'
  BY <1>1, <1>2 DEF IInv, Formatted
<1>6. Transfer'
  BY <1>1, <1>2 DEF IInv, Transfer
<1>7. NoLeak' /\ AcceptedIsServable' /\ AllOrNothing'
  BY <1>1, <1>2 DEF IInv, NoLeak, AcceptedIsServable, AllOrNothing
<1> QED BY <1>3, <1>4, <1>5, <1>6, <1>7 DEF IInv

\* Every step keeps the invariant.
LEMMA InvStep == IInv /\ [Next]_vars => IInv'
<1> SUFFICES ASSUME IInv, [Next]_vars PROVE IInv'
  OBVIOUS
<1>1. CASE Explicit BY <1>1, InvExplicit
<1>2. CASE CheckPadding BY <1>2, InvCheckPadding
<1>3. CASE AssignAuto BY <1>3, InvAssignAuto
<1>4. CASE Validate BY <1>4, InvValidate
<1>5. CASE Bind BY <1>5, InvBind
<1>6. CASE OpenPad BY <1>6, InvOpenPad
<1>7. CASE PadsOpen BY <1>7, InvPadsOpen
<1>8. CASE Duplicate BY <1>8, InvDuplicate
<1>9. CASE Format BY <1>9, InvFormat
<1>10. CASE Start BY <1>10, InvStart
<1>11. CASE Ports BY <1>11, InvPorts
<1>12. CASE ListenFails BY <1>12, InvListenFails
<1>13. CASE Listen BY <1>13, InvListen
<1>14. CASE Serve BY <1>14, InvServe
<1>15. CASE Done \/ UNCHANGED vars BY <1>15, InvStutter DEF Done
<1> QED BY <1>1, <1>2, <1>3, <1>4, <1>5, <1>6, <1>7, <1>8, <1>9, <1>10, <1>11,
           <1>12, <1>13, <1>14, <1>15 DEF Next

-----------------------------------------------------------------------------
(* The theorems.                                                            *)

\* The inductive invariant holds of every run.
LEMMA Invariant == Spec => []IInv
BY InvInit, InvStep, PTL DEF Spec

\* The layout that the invariant describes is safe.
LEMMA LayoutFollows == IInv => LayoutSafe
<1> SUFFICES ASSUME IInv, pc \notin {"explicit", "auto", "rejected"}
             PROVE  /\ \A k \in 1..N :
                         /\ descriptors[k] >= 3
                         /\ requested[k].fd # -1 => descriptors[k] = requested[k].fd
                         /\ \A m \in 1..N : descriptors[k] = descriptors[m] => k = m
                    /\ Cardinality((3..Largest) \ Used) <= MaxSparse
  BY Zenon DEF LayoutSafe
<1>1. /\ \A k \in 1..N : descriptors[k] \in Slots
      /\ \A k, m \in 1..N : descriptors[k] = descriptors[m] => k = m
  BY Placed
<1>2. N \in Nat /\ MaxFD + N \in Nat /\ Slots = 3..(MaxFD + N)
  BY Facts DEF IInv, Slots
<1>3. /\ \A k \in 1..N : requested[k].fd # -1 => descriptors[k] = requested[k].fd
      /\ Sparse(Used, N)
      /\ \A k \in 1..N : descriptors[k] # 0
  BY DEF IInv, Layout
<1>4. Cardinality((3..Largest) \ Used) = Largest - 2 - N
  <2>1. descriptors \in [1..N -> 3..(MaxFD + N)]
    <3>1. descriptors \in [1..N -> {0} \cup Slots]
      BY DEF IInv, Shape, TypeOK
    <3> QED BY <1>1, <1>2, <3>1
  <2>2. Used = {descriptors[k] : k \in 1..N}
    BY <1>3 DEF Used
  <2> DEFINE U == {descriptors[k] : k \in 1..N}
  <2>3. Cardinality((3..LargestOf(U)) \ U) = LargestOf(U) - 2 - N
    BY <1>1, <1>2, <2>1, UnusedSlots
  <2> QED BY <2>2, <2>3 DEF Largest
<1>5. Cardinality((3..Largest) \ Used) <= MaxSparse
  BY <1>3, <1>4 DEF Sparse, Largest
<1>6. \A k \in 1..N : descriptors[k] >= 3
  BY <1>1, <1>2
<1> QED BY <1>1, <1>3, <1>5, <1>6, Zenon

\* The list that the worker has is the list of the supervisor.
LEMMA HandoffFollows == IInv => HandoffFaithful
BY DEF IInv, Transfer, Listeners, HandoffFaithful

\* assignListenerDescriptors: however many listeners there are, whatever
\* descriptors they ask for and whatever the limits, what it accepts gives each
\* listener a descriptor of its own, the one it asked for if it did, and leaves no
\* more than MaxSparse slots unused.
THEOREM LayoutIsSafe == Spec => []LayoutSafe
BY Invariant, LayoutFollows, PTL

\* startWorker has none of the worker's files open between two attempts and after
\* the last, however many listeners there are and whichever open fails.
THEOREM NothingLeaks == Spec => []NoLeak
<1>1. IInv => NoLeak
  BY DEF IInv
<1> QED BY <1>1, Invariant, PTL

\* What Ports returns in the worker is what the supervisor has bound, each on its
\* own socket, for every list of listeners.
THEOREM HandoffIsFaithful == Spec => []HandoffFaithful
BY Invariant, HandoffFollows, PTL

\* What run has accepted, startWorker can format and the worker can parse: the
\* checks before anything is bound and the check of the bound paths are enough.
THEOREM AcceptedStaysServable == Spec => []AcceptedIsServable
<1>1. IInv => AcceptedIsServable
  BY DEF IInv
<1> QED BY <1>1, Invariant, PTL

\* ListenAll and ListenPacketAll return a listener for every socket or keep none.
THEOREM ListenAllOrNothing == Spec => []AllOrNothing
<1>1. IInv => AllOrNothing
  BY DEF IInv
<1> QED BY <1>1, Invariant, PTL

=============================================================================
