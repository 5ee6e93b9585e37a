------------------------------- MODULE Handoff -------------------------------
(***************************************************************************)
(* How listeners reach a worker: the descriptor layout that run computes,  *)
(* the ExtraFiles that startWorker opens for it, the two environment       *)
(* variables that describe it (FormatPorts, FormatSocketTypes), and the    *)
(* worker that reads them back with Ports and calls ListenAll, or          *)
(* ListenPacketAll.                                                        *)
(*                                                                         *)
(* A socket is the index of its listener.  A name is a spelling and a flag *)
(* that tells whether it contains a "/", which "./" in front also gives:   *)
(* the parser tells listeners apart by no more.  The bound MaxFD stands    *)
(* for maxInheritedListenerFD, MaxSparse for maxSparseListenerFDSlots.     *)
(***************************************************************************)
EXTENDS Integers, Sequences, FiniteSets

CONSTANTS
  Requests,   \* the listener requests considered: sequences of requests
  MaxFD,      \* largest explicit descriptor
  MaxSparse   \* most unused slots

ASSUME LimitsAssumption == MaxFD \in Nat /\ MaxSparse \in Nat

\* Spellings: of network targets, of those with the UDP marker, and of paths;
\* "reserved" contains a delimiter, "" asks the kernel for a path.
TCPSpellings == {"port", "host:port"}
UDPSpellings == {"uport", "host:uport"}
Spellings == TCPSpellings \cup UDPSpellings \cup {"plain", "reserved", ""}

\* --port arguments have no path; --path arguments ask for no descriptor.
Request ==
  [type : {"tcp", "udp"}, base : TCPSpellings \cup {"reserved"}, slash : {FALSE}, fd : Int]
    \cup [type : {"unix"}, base : Spellings, slash : BOOLEAN, fd : {-1}]

ASSUME RequestsAssumption == Requests \subseteq Seq(Request)

VARIABLES
  pc,          \* where run, then startWorker, then the worker stands
  i,           \* index of its current loop
  nextFD,      \* assignListenerDescriptors' nextFD
  requested,   \* the listeners asked for: [type, base, slash, fd]
  descriptors, \* the descriptor of each, 0 before it is assigned
  files,       \* what startWorker has open for each slot: a socket, Pad, None
  portSpec,    \* SERVER_STARTER_PORT: a sequence of [base, slash, fd]
  socketTypes, \* LSS2_SOCKET_TYPES: a sequence of [fd, type]
  fds,         \* the worker's descriptor table
  list,        \* what Ports returned in the worker
  converted    \* sockets ListenAll has made listeners of

layoutVars == <<nextFD, requested, descriptors>>
envVars    == <<portSpec, socketTypes>>
workerVars == <<fds, list, converted>>
vars       == <<pc, i, layoutVars, files, envVars, workerVars>>

None == -1
Pad  == 0

\* maxFD after the descriptors of used.
LargestOf(used) == CHOOSE fd \in used \cup {2} : \A f \in used : f <= fd

N       == Len(requested)
Used    == {descriptors[k] : k \in 1..N} \ {0}
Largest == LargestOf(Used)
Slots   == 3..(MaxFD + N)
NoFiles == [fd \in Slots |-> None]

Init ==
  /\ requested \in Requests
  /\ pc = "explicit" /\ i = 1 /\ nextFD = 3
  /\ descriptors = [k \in 1..N |-> 0]
  /\ files = NoFiles /\ fds = NoFiles
  /\ portSpec = <<>> /\ socketTypes = <<>>
  /\ list = <<>> /\ converted = {}

-----------------------------------------------------------------------------
(* The wire format.                                                         *)

\* canonicalUnixPath: a path that would read as a network target gets a "./".
Canonical(base, slash) == slash \/ base \in TCPSpellings \cup UDPSpellings

\* starterListener.
StarterListener(r, fd) ==
  [type  |-> r.type, base |-> r.base, fd |-> fd,
   slash |-> IF r.type = "unix" THEN Canonical(r.base, r.slash) ELSE r.slash]

\* Listener k as startWorker describes it to the worker.
Described(k) == StarterListener(requested[k], descriptors[k])

\* Mutant of Encode: UDP listeners are written with their marker.
EncodeMarked(l) ==
  [base  |-> IF l.type = "udp"
             THEN IF l.base = "port" THEN "uport" ELSE "host:uport" ELSE l.base,
   slash |-> l.slash, fd |-> l.fd]

\* String of the three types of listener: UDP is written as TCP is.
Encode(l) == [base |-> l.base, slash |-> l.slash, fd |-> l.fd]

\* classifyPortTarget and the cases of ParsePorts.
ParseTarget(w) ==
  [type  |-> IF w.slash THEN "unix"
             ELSE IF w.base \in TCPSpellings THEN "tcp"
             ELSE IF w.base \in UDPSpellings THEN "udp" ELSE "unix",
   base  |-> IF w.slash THEN w.base
             ELSE IF w.base = "uport" THEN "port"
             ELSE IF w.base = "host:uport" THEN "host:port" ELSE w.base,
   slash |-> w.slash, fd |-> w.fd]

ParsePorts(spec) == [k \in 1..Len(spec) |-> ParseTarget(spec[k])]

AsTCP(l) == IF l.type = "udp" THEN [l EXCEPT !.type = "tcp"] ELSE l

\* FormatPorts accepts listener l: no empty or reserved name, and what is encoded
\* reads back as the same listener, but for UDP.
Formats(l) ==
  /\ l.base \notin {"", "reserved"}
  /\ l.fd >= 3
  /\ ParseTarget(Encode(l)) \in {l, AsTCP(l)}

\* FormatSocketTypes accepts ls.
TypesFormat(ls) == \A k, m \in 1..Len(ls) : ls[k].fd = ls[m].fd => k = m

\* Mutant of ApplySocketTypes: the types are not applied.
KeepParsed(ls, types) == ls

\* applySocketTypes: the type given for its descriptor.
ApplySocketTypes(ls, types) ==
  [k \in 1..Len(ls) |->
     IF [fd |-> ls[k].fd, type |-> "udp"] \in {types[t] : t \in 1..Len(types)}
     THEN [ls[k] EXCEPT !.type = "udp"] ELSE ls[k]]

\* applySocketTypes succeeds: one type per descriptor, for exactly those of the
\* list, and none that conflicts.
TypesApply(ls, types) ==
  /\ \A s, t \in 1..Len(types) : types[s].fd = types[t].fd => s = t
  /\ {types[t].fd : t \in 1..Len(types)} = {ls[k].fd : k \in 1..Len(ls)}
  /\ \A k \in 1..Len(ls), t \in 1..Len(types) : types[t].fd = ls[k].fd =>
       \/ ls[k].type = "tcp" /\ types[t].type \in {"tcp", "udp"}
       \/ ls[k].type = "unix" /\ types[t].type = "unix"

-----------------------------------------------------------------------------
(* run: assignListenerDescriptors and validateListenerWireFormat.           *)

\* validateExplicitListenerFD.
ValidExplicitFD(fd) == fd >= 3 /\ fd <= MaxFD

Free(fd) == fd \notin Used

\* The first loop: explicit descriptors.
Explicit ==
  /\ pc = "explicit" /\ i <= N
  /\ LET fd == requested[i].fd
     IN  \/ /\ fd = -1
            /\ i' = i + 1 /\ UNCHANGED <<pc, descriptors>>
         \/ /\ fd # -1 /\ ValidExplicitFD(fd) /\ Free(fd)
            /\ descriptors' = [descriptors EXCEPT ![i] = fd]
            /\ i' = i + 1 /\ pc' = pc
         \/ /\ fd # -1 /\ ~(ValidExplicitFD(fd) /\ Free(fd))
            /\ pc' = "rejected" /\ UNCHANGED <<i, descriptors>>
  /\ UNCHANGED <<nextFD, requested, files, envVars, workerVars>>

\* The limit on padding.
CheckPadding ==
  /\ pc = "explicit" /\ i > N
  /\ pc' = IF Largest - 2 - N > MaxSparse THEN "rejected" ELSE "auto"
  /\ i' = 1
  /\ UNCHANGED <<layoutVars, files, envVars, workerVars>>

\* The second loop: the other entries get the free descriptors from 3 upward.
AssignAuto ==
  /\ pc = "auto" /\ i <= N
  /\ i' = i + 1
  /\ IF descriptors[i] # 0
     THEN UNCHANGED <<descriptors, nextFD>>
     ELSE \E fd \in Slots :
            /\ fd >= nextFD /\ fd \notin Used
            /\ \A f \in nextFD..(fd - 1) : f \in Used
            /\ descriptors' = [descriptors EXCEPT ![i] = fd]
            /\ nextFD' = fd + 1
  /\ UNCHANGED <<pc, requested, files, envVars, workerVars>>

\* The wire format of every listener whose name is known.  parsePortTarget has
\* its own, earlier check of the reserved characters in a port.
Validate ==
  /\ pc = "auto" /\ i > N
  /\ pc' = IF \A k \in 1..N : requested[k].base # "" => Formats(Described(k))
           THEN "bind" ELSE "rejected"
  /\ UNCHANGED <<i, layoutVars, files, envVars, workerVars>>

\* The listeners are bound, which names those that had no name, and the paths
\* are validated again; or one cannot be bound.
Bind ==
  /\ pc = "bind"
  /\ i' = 3
  /\ LET named == [k \in 1..N |-> IF requested[k].base # "" THEN requested[k]
                                 ELSE [requested[k] EXCEPT !.base = "plain"]]
         paths == {k \in 1..N : requested[k].type = "unix"}
     IN  \/ /\ requested' = named
            /\ pc' = IF \A k \in paths : Formats(StarterListener(named[k], descriptors[k]))
                     THEN "pads" ELSE "rejected"
         \/ requested' = requested /\ pc' = "rejected"
  /\ UNCHANGED <<nextFD, descriptors, files, envVars, workerVars>>

-----------------------------------------------------------------------------
(* startWorker.                                                             *)

\* Mutant of CloseWorkerFiles: only the padding is closed.
ClosePadding ==
  files' = [fd \in Slots |-> IF files[fd] = Pad THEN None ELSE files[fd]]

CloseWorkerFiles == files' = NoFiles

\* Every slot is padded with /dev/null.
OpenPad ==
  /\ pc = "pads" /\ i <= Largest
  /\ \/ files' = [files EXCEPT ![i] = Pad] /\ i' = i + 1 /\ pc' = pc
     \/ CloseWorkerFiles /\ pc' = "failed" /\ i' = i
  /\ UNCHANGED <<layoutVars, envVars, workerVars>>

PadsOpen ==
  /\ pc = "pads" /\ i > Largest
  /\ pc' = "dups" /\ i' = 1
  /\ UNCHANGED <<layoutVars, files, envVars, workerVars>>

\* A duplicate of each listener takes the place of the padding in its slot.
Duplicate ==
  /\ pc = "dups" /\ i <= N
  /\ \/ files' = [files EXCEPT ![descriptors[i]] = i] /\ i' = i + 1 /\ pc' = pc
     \/ CloseWorkerFiles /\ pc' = "failed" /\ i' = i
  /\ UNCHANGED <<layoutVars, envVars, workerVars>>

\* The two environment variables.
Format ==
  /\ pc = "dups" /\ i > N
  /\ LET ls == [k \in 1..N |-> Described(k)]
     IN  IF (\A k \in 1..N : Formats(ls[k])) /\ TypesFormat(ls)
         THEN /\ portSpec' = [k \in 1..N |-> Encode(ls[k])]
              /\ socketTypes' = [k \in 1..N |-> [fd   |-> ls[k].fd,
                                                 type |-> ls[k].type]]
              /\ pc' = "start" /\ files' = files
         ELSE CloseWorkerFiles /\ pc' = "formatFailed" /\ UNCHANGED envVars
  /\ UNCHANGED <<i, layoutVars, workerVars>>

\* cmd.Start: the worker inherits the files, or the start fails for good or is
\* retried; the supervisor's copies are closed in every case.
Start ==
  /\ pc = "start"
  /\ CloseWorkerFiles
  /\ \/ pc' = "worker" /\ fds' = files /\ i' = i
     \/ pc' = "failed" /\ fds' = fds /\ i' = i
     \/ pc' = "pads" /\ fds' = fds /\ i' = 3
  /\ UNCHANGED <<layoutVars, envVars, list, converted>>

-----------------------------------------------------------------------------
(* The worker.                                                              *)

\* Ports; the worker means to call ListenAll or ListenPacketAll on its result.
Ports ==
  /\ pc = "worker"
  /\ LET ls == ParsePorts(portSpec)
     IN  IF portSpec = <<>>
         THEN pc' = "noTarget" /\ UNCHANGED <<i, list>>
         ELSE IF TypesApply(ls, socketTypes)
         THEN /\ list' = ApplySocketTypes(ls, socketTypes)
              /\ pc' \in {"stream", "packet"} /\ i' = 1
         ELSE pc' = "workerRejects" /\ UNCHANGED <<i, list>>
  /\ UNCHANGED <<layoutVars, files, envVars, fds, converted>>

\* The worker is in ListenAll or ListenPacketAll, at a listener of the kind that
\* the function converts, or not.
Converting == pc \in {"stream", "packet"} /\ i <= Len(list)
Convertible == (list[i].type = "udp") = (pc = "packet")

\* Listen or ListenPacket of the listener closes the inherited descriptor,
\* whether it succeeds or fails.
CloseSource == fds' = [fds EXCEPT ![list[i].fd] = None]

\* Mutant of ListenFails: the listeners made so far stay open.
ListenGivesUp ==
  /\ Converting
  /\ IF Convertible THEN CloseSource ELSE fds' = fds
  /\ pc' = "listenFailed"
  /\ UNCHANGED <<i, layoutVars, files, envVars, list, converted>>

\* A listener cannot be converted, or is of the other kind: those made so far
\* are closed.
ListenFails ==
  /\ Converting
  /\ IF Convertible THEN CloseSource ELSE fds' = fds
  /\ converted' = {} /\ pc' = "listenFailed"
  /\ UNCHANGED <<i, layoutVars, files, envVars, list>>

Listen ==
  /\ Converting /\ Convertible
  /\ converted' = converted \cup {fds[list[i].fd]}
  /\ CloseSource
  /\ i' = i + 1
  /\ UNCHANGED <<pc, layoutVars, files, envVars, list>>

Serve ==
  /\ pc \in {"stream", "packet"} /\ i > Len(list)
  /\ pc' = "serving"
  /\ UNCHANGED <<i, layoutVars, files, envVars, workerVars>>

\* Nothing is left to do.
Done ==
  /\ pc \in {"rejected", "failed", "formatFailed", "noTarget", "workerRejects",
             "listenFailed", "serving"}
  /\ UNCHANGED vars

Next ==
  \/ Explicit \/ CheckPadding \/ AssignAuto \/ Validate \/ Bind
  \/ OpenPad \/ PadsOpen \/ Duplicate \/ Format \/ Start
  \/ Ports \/ ListenFails \/ Listen \/ Serve \/ Done

Spec == Init /\ [][Next]_vars

-----------------------------------------------------------------------------
(* Properties.                                                              *)

\* Types, and descriptors that assignListenerDescriptors may use.
TypeOK ==
  /\ pc \in {"explicit", "auto", "bind", "pads", "dups", "start", "worker",
             "stream", "packet", "rejected", "failed", "formatFailed",
             "noTarget", "workerRejects", "listenFailed", "serving"}
  /\ i \in Nat /\ nextFD \in Nat
  /\ descriptors \in [1..N -> {0} \cup Slots]
  /\ files \in [Slots -> None..N] /\ fds \in [Slots -> None..N]
  /\ converted \subseteq 1..N

\* Past assignListenerDescriptors no two listeners share a descriptor, explicit
\* requests are honoured and no more than MaxSparse slots are unused.
LayoutSafe ==
  pc \notin {"explicit", "auto", "rejected"} =>
    /\ \A k \in 1..N :
         /\ descriptors[k] >= 3
         /\ requested[k].fd # -1 => descriptors[k] = requested[k].fd
         /\ \A m \in 1..N : descriptors[k] = descriptors[m] => k = m
    /\ Cardinality((3..Largest) \ Used) <= MaxSparse

\* startWorker leaves no descriptor open, whichever step of it fails: between
\* two attempts and after the last one the supervisor has only its listeners.
NoLeak ==
  pc \notin {"pads", "dups", "start"} \/ (pc = "pads" /\ i = 3) =>
    files = NoFiles

\* What Ports returns in the worker is what the supervisor listens on: same
\* types, names and descriptors, and the descriptor table has each listener's
\* own socket there.
HandoffFaithful ==
  pc \in {"stream", "packet"} =>
    /\ list = [k \in 1..N |-> Described(k)]
    /\ \A k \in i..N : fds[descriptors[k]] = k

\* A configuration that run has accepted cannot fail later because startWorker
\* cannot format it or a worker cannot parse it: "startWorker applies the same
\* rule".
AcceptedIsServable == pc \notin {"formatFailed", "workerRejects"}

\* ListenAll and ListenPacketAll return a listener for every socket or keep none
\* of those they made open.
AllOrNothing ==
  /\ pc = "serving" => converted = 1..N
  /\ pc = "listenFailed" => converted = {}

=============================================================================
