--------------------------- MODULE IdentityProofs ---------------------------
(***************************************************************************)
(* Proofs about Identity, for any finite number of callers, any number of  *)
(* credentials and of starts, and any set of faults.                       *)
(***************************************************************************)
EXTENDS Identity, FiniteSetTheorems, TLAPS

-----------------------------------------------------------------------------
LEMMA InodeCount ==
  /\ IsFiniteSet(Procs) /\ Cardinality(Procs) \in Nat
  /\ IsFiniteSet(Inodes) /\ Cardinality(Inodes) = Cardinality(Procs) + 2
  /\ 1 \in Inodes /\ NoFile \notin Inodes
<1> DEFINE n == Cardinality(Procs)
<1>1. IsFiniteSet(Procs) /\ n \in Nat
      BY FS_AddElement, FS_CardinalityType, IdentityAssumption, Procs = Callers \cup {Main}
         DEF Procs
<1>2. n + 2 \in Int /\ 1 \in Int /\ ~(1 > n + 2) /\ n + 2 - 1 + 1 = n + 2
      BY <1>1
<1> QED BY <1>1, <1>2, FS_Interval DEF Inodes, NoFile

(* There is an inode for the temporary file when no name keeps one: the    *)
(* threads and the state file use one less than there are.                 *)
LEMMA InodeLeft ==
  ASSUME TypeOK, tmp = NoFile
  PROVE  FreeInode \in Inodes /\ FreeInode # path /\ \A q \in Procs : FreeInode # fd[q]
<1> DEFINE Held == {fd[q] : q \in Procs}
           n == Cardinality(Procs)
<1>1. IsFiniteSet(Procs) /\ n \in Nat
      BY InodeCount
<1>2. IsFiniteSet(Held) /\ Cardinality(Held) <= n
  <2>1. fd \in Surjection(Procs, Held)
        BY DEF Surjection, TypeOK
  <2> QED BY <2>1, <1>1, FS_Surjection
<1>3. /\ IsFiniteSet(Held \cup {path}) /\ Cardinality(Held \cup {path}) \in Nat
      /\ Cardinality(Held \cup {path}) <= n + 1
  <2>1. Cardinality(Held) \in Nat
        BY <1>2, FS_CardinalityType
  <2>2. /\ IsFiniteSet(Held \cup {path})
        /\ \/ Cardinality(Held \cup {path}) = Cardinality(Held)
           \/ Cardinality(Held \cup {path}) = Cardinality(Held) + 1
        BY <1>2, FS_AddElement
  <2> QED BY <1>1, <1>2, <2>1, <2>2
<1>4. IsFiniteSet(Inodes) /\ Cardinality(Inodes) = n + 2
      BY InodeCount
<1>5. ~(Inodes \subseteq Held \cup {path})
  <2> SUFFICES ASSUME Inodes \subseteq Held \cup {path} PROVE FALSE
      OBVIOUS
  <2>1. Cardinality(Inodes) <= Cardinality(Held \cup {path})
        BY <1>3, FS_Subset
  <2> QED BY <1>1, <1>3, <1>4, <2>1
<1>6. PICK i \in Inodes : i \notin Held \cup {path}
      BY <1>5
<1>7. i # NoFile
      BY InodeCount
<1>8. \E j \in Inodes : j \notin {path, tmp} \cup {fd[q] : q \in Procs}
      BY <1>6, <1>7
<1>9. FreeInode \in Inodes /\ FreeInode \notin {path, tmp} \cup {fd[q] : q \in Procs}
      BY <1>8 DEF FreeInode
<1> QED BY <1>9

LEMMA Threads == Main \in Procs /\ Callers = Procs \ {Main}
BY IdentityAssumption DEF Procs

(* What the file may hold.                                                 *)
LEMMA Base ==
  /\ Empty \notin Maps /\ Torn \notin Maps /\ Absent \notin Maps /\ Nobody \in Maps
  /\ Empty # Absent /\ Torn # Absent /\ Empty # Torn
  /\ Content = Maps \cup {Empty, Torn, Absent}
  /\ TypeOK => File \in Content /\ (Readable => Loaded \in Maps)
<1>1. Empty \notin Maps /\ Torn \notin Maps /\ Absent \notin Maps
      BY DEF Empty, Torn, Absent, Maps, Ids
<1>2. Nobody \in Maps
      BY IdentityAssumption DEF Nobody, Maps, Ids
<1>3. Empty # Absent /\ Torn # Absent /\ Empty # Torn
      BY DEF Empty, Torn, Absent
<1>4. Content = Maps \cup {Empty, Torn, Absent}
      BY DEF Content
<1>5. TypeOK => File \in Content
      BY <1>4 DEF TypeOK, File
<1>6. TypeOK /\ Readable => Loaded \in Maps
      BY <1>2, <1>4, <1>5 DEF Readable, Loaded
<1> QED BY <1>1, <1>2, <1>3, <1>4, <1>5, <1>6

(* The constructors of maps.                                               *)
LEMMA MapTypes ==
  /\ \A i \in Ids, c \in 0 .. MaxCred : [id |-> i, cred |-> c] \in Maps
  /\ \A m \in Maps : m.id \in Ids /\ m.cred \in 0 .. MaxCred
  /\ \A m \in Maps, c \in 0 .. MaxCred : [m EXCEPT !.cred = c] \in Maps
  /\ 0 \in 0 .. MaxCred
  /\ "" \in Ids /\ "preset" \in Ids /\ "issued" \in Ids /\ "derived" \in Ids
<1>1. \A i \in Ids, c \in 0 .. MaxCred : [id |-> i, cred |-> c] \in Maps
      BY DEF Maps
<1>2. \A m \in Maps : m.id \in Ids /\ m.cred \in 0 .. MaxCred
      BY DEF Maps
<1>3. ASSUME NEW m \in Maps, NEW c \in 0 .. MaxCred PROVE [m EXCEPT !.cred = c] \in Maps
      BY DEF Maps
<1>4. 0 \in 0 .. MaxCred
      BY IdentityAssumption
<1> QED BY <1>1, <1>2, <1>3, <1>4 DEF Ids

LEMMA NextCred ==
  ASSUME TypeOK, server.cred < MaxCred
  PROVE  /\ server.cred + 1 \in 0 .. MaxCred
         /\ [used |-> TRUE, cred |-> server.cred + 1] \in [used : BOOLEAN, cred : 0 .. MaxCred]
         /\ [server EXCEPT !.cred = @ + 1] \in [used : BOOLEAN, cred : 0 .. MaxCred]
<1>1. server.cred + 1 \in 0 .. MaxCred
      BY IdentityAssumption DEF TypeOK
<1> QED BY <1>1 DEF TypeOK

LEMMA FailsTypes ==
  ASSUME TypeOK, NEW p \in Procs, Fails(p)
  PROVE  pc' \in [Procs -> Steps] /\ mem' \in Maps /\ (p # Main => UNCHANGED mem)
BY DEF TypeOK, Fails, Resolve, SaveErrorIgnored, Steps

LEMMA FailsPlace ==
  ASSUME NEW p \in Procs, Fails(p)
  PROVE  \E s \in {"up", "failed", "off"} : pc' = [pc EXCEPT ![p] = s]
BY DEF Fails, Resolve, SaveErrorIgnored

LEMMA CallerFails ==
  ASSUME NEW p \in Procs, p # Main, Fails(p)
  PROVE  pc' = [pc EXCEPT ![p] = "off"] /\ UNCHANGED mem
<1>1. (IF p = Main THEN "failed" ELSE "off") = "off"
      OBVIOUS
<1> QED BY <1>1 DEF Fails, SaveErrorIgnored

LEMMA StartFails ==
  ASSUME pc[Main] \in {"load", "register"}, Fails(Main)
  PROVE  pc' = [pc EXCEPT ![Main] = "failed"] /\ UNCHANGED mem
<1>1. (IF Main = Main THEN "failed" ELSE "off") = "failed"
      OBVIOUS
<1> QED BY <1>1 DEF Fails, SaveErrorIgnored

LEMMA SurvivorTypes ==
  ASSUME TypeOK
  PROVE  /\ Survivors(path) \subseteq Content
         /\ SaveInv => old \cup Survivors(path) \subseteq Maps \cup {Absent}
BY Base DEF TypeOK, Survivors, SaveInv

LEMMA SameFile ==
  ASSUME UNCHANGED path, path # NoFile => data'[path] = data[path]
  PROVE  (HasIdentity' <=> HasIdentity) /\ Loaded' = Loaded
BY DEF HasIdentity, Readable, Loaded, File

-----------------------------------------------------------------------------
(* Every step keeps the types. *)
LEMMA NextTypes ==
  ASSUME TypeOK, Next
  PROVE  TypeOK'
<1>1. ASSUME ResolveLocal PROVE TypeOK'
  <2>1. /\ path' \in Inodes \cup {NoFile} /\ tmp' \in Inodes \cup {NoFile}
        /\ data' \in [Inodes -> Content \ {Absent}] /\ synced' \subseteq Inodes
        /\ old' \subseteq Content
        BY <1>1, Base, Threads DEF ResolveLocal, Resolve, disk, TypeOK
  <2>2. pc' \in [Procs -> Steps] /\ fd' \in [Procs -> Inodes \cup {NoFile}]
        BY <1>1, Base, Threads DEF ResolveLocal, Fails, Resolve, SaveErrorIgnored, disk,
           Steps, TypeOK
  <2>3. out' \in [Procs -> Maps] /\ mem' \in Maps
    <3>1. CASE config.preset \/ config.token
      <4>1. [id |-> "preset", cred |-> 0] \in Maps /\ [id |-> "derived", cred |-> 0] \in Maps
            BY MapTypes
      <4>2. mem' \in {[id |-> "preset", cred |-> 0], [id |-> "derived", cred |-> 0]}
            BY <1>1, <3>1 DEF ResolveLocal, Resolve
      <4> QED BY <1>1, <4>1, <4>2 DEF ResolveLocal, TypeOK
    <3>2. CASE ~(config.preset \/ config.token)
          BY <1>1, <3>2, Threads, FailsTypes DEF ResolveLocal, TypeOK
    <3> QED BY <3>1, <3>2
  <2>4. \A q \in Procs : fd'[q] # NoFile <=> pc'[q] \in {"write", "sync"}
        BY <1>1, Base, Threads DEF ResolveLocal, Fails, Resolve, SaveErrorIgnored, TypeOK
  <2>5. config' \in Configs /\ server' \in [used : BOOLEAN, cred : 0 .. MaxCred]
        BY <1>1 DEF ResolveLocal, Resolve, TypeOK
  <2>6. starts' \in 0 .. MaxStarts /\ faults' \subseteq Faults
        BY <1>1, IdentityAssumption DEF ResolveLocal, Resolve, TypeOK
  <2>7. cut' \in BOOLEAN /\ overlap' \in BOOLEAN /\ resolved' \in Ids
        BY <1>1, MapTypes DEF ResolveLocal, Resolve, InWindow, TypeOK
  <2> QED BY <2>1, <2>2, <2>3, <2>4, <2>5, <2>6, <2>7 DEF TypeOK
<1>2. ASSUME LoadIdentity PROVE TypeOK'
  <2>1. /\ path' \in Inodes \cup {NoFile} /\ tmp' \in Inodes \cup {NoFile}
        /\ data' \in [Inodes -> Content \ {Absent}] /\ synced' \subseteq Inodes
        /\ old' \subseteq Content
        BY <1>2, Base, Threads DEF LoadIdentity, Resolve, UsePersisted, disk, TypeOK
  <2>2. pc' \in [Procs -> Steps] /\ fd' \in [Procs -> Inodes \cup {NoFile}]
        BY <1>2, Base, Threads DEF LoadIdentity, Fails, Resolve, SaveErrorIgnored,
           UsePersisted, disk, Steps, TypeOK
  <2>3. out' \in [Procs -> Maps] /\ mem' \in Maps
    <3>1. [id |-> "preset", cred |-> 0] \in Maps
          BY MapTypes
    <3>2. out' \in [Procs -> Maps]
          BY <1>2, <3>1 DEF LoadIdentity, TypeOK
    <3>3. mem' \in Maps
          BY <1>2, Base, Threads, FailsTypes DEF LoadIdentity, Resolve, UsePersisted,
             HasIdentity, TypeOK
    <3> QED BY <3>2, <3>3
  <2>4. \A q \in Procs : fd'[q] # NoFile <=> pc'[q] \in {"write", "sync"}
        BY <1>2, Base, Threads DEF LoadIdentity, Fails, Resolve, SaveErrorIgnored,
           UsePersisted, TypeOK
  <2>5. config' \in Configs /\ server' \in [used : BOOLEAN, cred : 0 .. MaxCred]
        BY <1>2 DEF LoadIdentity, Resolve, UsePersisted, TypeOK
  <2>6. starts' \in 0 .. MaxStarts /\ faults' \subseteq Faults
        BY <1>2, IdentityAssumption DEF LoadIdentity, Resolve, UsePersisted, TypeOK
  <2>7. cut' \in BOOLEAN /\ overlap' \in BOOLEAN /\ resolved' \in Ids
        BY <1>2, MapTypes DEF LoadIdentity, Resolve, UsePersisted, InWindow, TypeOK
  <2> QED BY <2>1, <2>2, <2>3, <2>4, <2>5, <2>6, <2>7 DEF TypeOK
<1>3. ASSUME Register PROVE TypeOK'
  <2>1. /\ path' \in Inodes \cup {NoFile} /\ tmp' \in Inodes \cup {NoFile}
        /\ data' \in [Inodes -> Content \ {Absent}] /\ synced' \subseteq Inodes
        /\ old' \subseteq Content
        BY <1>3, Base, Threads DEF Register, Unanswered, Exchange, Fault, Resolve, disk,
           TypeOK
  <2>2. pc' \in [Procs -> Steps] /\ fd' \in [Procs -> Inodes \cup {NoFile}]
        BY <1>3, Base, Threads DEF Register, Unanswered, Exchange, Fault, Fails, Resolve,
           SaveErrorIgnored, disk, Steps, TypeOK
  <2>3. out' \in [Procs -> Maps] /\ mem' \in Maps
    <3>1. CASE server.cred < MaxCred /\ Exchange(Main, server.cred + 1, "issued")
      <4>1. [id |-> "issued", cred |-> server.cred + 1] \in Maps
            BY <3>1, MapTypes, NextCred
      <4>2. Main \in Procs /\ Nobody \in Maps
            BY Base, Threads
      <4>3. Blanked(Main) = Nobody
            BY DEF Blanked
      <4>4. \/ (\E m \in Maps : out' = [out EXCEPT ![Main] = m]) /\ UNCHANGED mem
            \/ Fails(Main) /\ UNCHANGED out
            BY <3>1, <4>1, <4>2, <4>3 DEF Exchange
      <4> QED BY <4>2, <4>4, FailsTypes DEF TypeOK
    <3>2. CASE Fails(Main) /\ UNCHANGED out
          BY <3>2, Threads, FailsTypes DEF TypeOK
    <3> QED BY <1>3, <3>1, <3>2 DEF Register, Unanswered
  <2>4. \A q \in Procs : fd'[q] # NoFile <=> pc'[q] \in {"write", "sync"}
        BY <1>3, Base, Threads DEF Register, Unanswered, Exchange, Fault, Fails, Resolve,
           SaveErrorIgnored, TypeOK
  <2>5. config' \in Configs /\ server' \in [used : BOOLEAN, cred : 0 .. MaxCred]
        BY <1>3, NextCred DEF Register, Unanswered, Fault, Resolve, TypeOK
  <2>6. starts' \in 0 .. MaxStarts /\ faults' \subseteq Faults
        BY <1>3, IdentityAssumption DEF Register, Unanswered, Exchange, Fault, Resolve,
           TypeOK
  <2>7. cut' \in BOOLEAN /\ overlap' \in BOOLEAN /\ resolved' \in Ids
        BY <1>3, MapTypes DEF Register, Unanswered, Exchange, Fault, Resolve, InWindow,
           TypeOK
  <2> QED BY <2>1, <2>2, <2>3, <2>4, <2>5, <2>6, <2>7 DEF TypeOK
<1>4. ASSUME NEW p \in Callers, RefreshBegin(p) PROVE TypeOK'
  <2>1. /\ path' \in Inodes \cup {NoFile} /\ tmp' \in Inodes \cup {NoFile}
        /\ data' \in [Inodes -> Content \ {Absent}] /\ synced' \subseteq Inodes
        /\ old' \subseteq Content
        BY <1>4, Base, Threads DEF RefreshBegin, disk, TypeOK
  <2>2. pc' \in [Procs -> Steps] /\ fd' \in [Procs -> Inodes \cup {NoFile}]
        BY <1>4, Base, Threads DEF RefreshBegin, disk, Steps, TypeOK
  <2>3. out' \in [Procs -> Maps] /\ mem' \in Maps
        BY <1>4, Base, Threads DEF RefreshBegin, HasIdentity, TypeOK
  <2>4. \A q \in Procs : fd'[q] # NoFile <=> pc'[q] \in {"write", "sync"}
        BY <1>4, Base, Threads DEF RefreshBegin, TypeOK
  <2>5. config' \in Configs /\ server' \in [used : BOOLEAN, cred : 0 .. MaxCred]
        BY <1>4 DEF RefreshBegin, TypeOK
  <2>6. starts' \in 0 .. MaxStarts /\ faults' \subseteq Faults
        BY <1>4, IdentityAssumption DEF RefreshBegin, TypeOK
  <2>7. cut' \in BOOLEAN /\ overlap' \in BOOLEAN /\ resolved' \in Ids
        BY <1>4, MapTypes DEF RefreshBegin, InWindow, TypeOK
  <2> QED BY <2>1, <2>2, <2>3, <2>4, <2>5, <2>6, <2>7 DEF TypeOK
<1>5. ASSUME NEW p \in Callers, Refresh(p) PROVE TypeOK'
  <2>1. /\ path' \in Inodes \cup {NoFile} /\ tmp' \in Inodes \cup {NoFile}
        /\ data' \in [Inodes -> Content \ {Absent}] /\ synced' \subseteq Inodes
        /\ old' \subseteq Content
        BY <1>5, Base, Threads DEF Refresh, Unanswered, Exchange, Fault, Resolve, disk,
           TypeOK
  <2>2. pc' \in [Procs -> Steps] /\ fd' \in [Procs -> Inodes \cup {NoFile}]
        BY <1>5, Base, Threads DEF Refresh, Unanswered, Exchange, Fault, Fails, Resolve,
           SaveErrorIgnored, disk, Steps, TypeOK
  <2>3. out' \in [Procs -> Maps] /\ mem' \in Maps
    <3>1. CASE server.cred < MaxCred /\ Exchange(p, server.cred + 1, out[p].id)
      <4>1. p \in Procs /\ p # Main /\ out[p] \in Maps
            BY Threads DEF TypeOK
      <4>2. /\ [id |-> out[p].id, cred |-> server.cred + 1] \in Maps
            /\ [out[p] EXCEPT !.cred = 0] \in Maps
            BY <3>1, <4>1, MapTypes, NextCred
      <4> QED BY <3>1, <4>1, <4>2, FailsTypes DEF Exchange, Blanked, TypeOK
    <3>2. CASE Fails(p) /\ UNCHANGED out
          BY <3>2, Threads, FailsTypes DEF TypeOK
    <3> QED BY <1>5, <3>1, <3>2 DEF Refresh, Unanswered
  <2>4. \A q \in Procs : fd'[q] # NoFile <=> pc'[q] \in {"write", "sync"}
        BY <1>5, Base, Threads DEF Refresh, Unanswered, Exchange, Fault, Fails, Resolve,
           SaveErrorIgnored, TypeOK
  <2>5. config' \in Configs /\ server' \in [used : BOOLEAN, cred : 0 .. MaxCred]
        BY <1>5, NextCred DEF Refresh, Unanswered, Fault, Resolve, TypeOK
  <2>6. starts' \in 0 .. MaxStarts /\ faults' \subseteq Faults
        BY <1>5, IdentityAssumption DEF Refresh, Unanswered, Exchange, Fault, Resolve,
           TypeOK
  <2>7. cut' \in BOOLEAN /\ overlap' \in BOOLEAN /\ resolved' \in Ids
        BY <1>5, MapTypes DEF Refresh, Unanswered, Exchange, Fault, Resolve, InWindow,
           TypeOK
  <2> QED BY <2>1, <2>2, <2>3, <2>4, <2>5, <2>6, <2>7 DEF TypeOK
<1>6. ASSUME NEW p \in Procs, Overlay(p) PROVE TypeOK'
  <2>1. /\ path' \in Inodes \cup {NoFile} /\ tmp' \in Inodes \cup {NoFile}
        /\ data' \in [Inodes -> Content \ {Absent}] /\ synced' \subseteq Inodes
        /\ old' \subseteq Content
        BY <1>6, Base, Threads DEF Overlay, Overlaid, Resolve, disk, TypeOK
  <2>2. pc' \in [Procs -> Steps] /\ fd' \in [Procs -> Inodes \cup {NoFile}]
        BY <1>6, Base, Threads DEF Overlay, Overlaid, Fails, Resolve, SaveErrorIgnored,
           disk, Steps, TypeOK
  <2>3. out' \in [Procs -> Maps] /\ mem' \in Maps
    <3>1. CASE Readable
      <4>1. out[p] \in Maps /\ Loaded \in Maps
            BY <3>1, Base DEF TypeOK
      <4>2. Overlaid(p) \in Maps
            BY <4>1, MapTypes DEF Overlaid
      <4> QED BY <1>6, <3>1, <4>2 DEF Overlay, TypeOK
    <3>2. CASE ~Readable
          BY <1>6, <3>2, FailsTypes DEF Overlay, TypeOK
    <3> QED BY <3>1, <3>2
  <2>4. \A q \in Procs : fd'[q] # NoFile <=> pc'[q] \in {"write", "sync"}
        BY <1>6, Base, Threads DEF Overlay, Overlaid, Fails, Resolve, SaveErrorIgnored,
           TypeOK
  <2>5. config' \in Configs /\ server' \in [used : BOOLEAN, cred : 0 .. MaxCred]
        BY <1>6 DEF Overlay, Overlaid, Resolve, TypeOK
  <2>6. starts' \in 0 .. MaxStarts /\ faults' \subseteq Faults
        BY <1>6, IdentityAssumption DEF Overlay, Overlaid, Resolve, TypeOK
  <2>7. cut' \in BOOLEAN /\ overlap' \in BOOLEAN /\ resolved' \in Ids
        BY <1>6, MapTypes DEF Overlay, Overlaid, Resolve, InWindow, TypeOK
  <2> QED BY <2>1, <2>2, <2>3, <2>4, <2>5, <2>6, <2>7 DEF TypeOK
<1>7. ASSUME NEW p \in Procs, OpenTmp(p) PROVE TypeOK'
  <2>1. /\ path' \in Inodes \cup {NoFile} /\ tmp' \in Inodes \cup {NoFile}
        /\ data' \in [Inodes -> Content \ {Absent}] /\ synced' \subseteq Inodes
        /\ old' \subseteq Content
    <3>1. (IF tmp = NoFile THEN FreeInode ELSE tmp) \in Inodes
          BY InodeLeft DEF TypeOK
    <3>2. Empty \in Content \ {Absent}
          BY Base
    <3> QED BY <1>7, <3>1, <3>2 DEF OpenTmp, Truncated, disk, TypeOK
  <2>2. pc' \in [Procs -> Steps] /\ fd' \in [Procs -> Inodes \cup {NoFile}]
    <3>1. (IF tmp = NoFile THEN FreeInode ELSE tmp) \in Inodes
          BY InodeLeft DEF TypeOK
    <3> QED BY <1>7, <3>1, FailsTypes DEF OpenTmp, Truncated, Steps, TypeOK
  <2>3. out' \in [Procs -> Maps] /\ mem' \in Maps
        BY <1>7, Base, Threads, MapTypes, FailsTypes DEF OpenTmp, Truncated, Fault, Resolve, TypeOK
  <2>4. \A q \in Procs : fd'[q] # NoFile <=> pc'[q] \in {"write", "sync"}
    <3>1. (IF tmp = NoFile THEN FreeInode ELSE tmp) # NoFile
          BY InodeLeft, InodeCount
    <3> QED BY <1>7, <3>1 DEF OpenTmp, Truncated, Fails, Resolve, SaveErrorIgnored, TypeOK
  <2>5. config' \in Configs /\ server' \in [used : BOOLEAN, cred : 0 .. MaxCred]
        BY <1>7 DEF OpenTmp, Truncated, Fault, Resolve, TypeOK
  <2>6. starts' \in 0 .. MaxStarts /\ faults' \subseteq Faults
        BY <1>7, IdentityAssumption DEF OpenTmp, Truncated, Fault, Resolve, TypeOK
  <2>7. cut' \in BOOLEAN /\ overlap' \in BOOLEAN /\ resolved' \in Ids
        BY <1>7, MapTypes DEF OpenTmp, Truncated, Fault, Resolve, InWindow, TypeOK
  <2> QED BY <2>1, <2>2, <2>3, <2>4, <2>5, <2>6, <2>7 DEF TypeOK
<1>8. ASSUME NEW p \in Procs, WriteTmp(p) PROVE TypeOK'
  <2>1. /\ path' \in Inodes \cup {NoFile} /\ tmp' \in Inodes \cup {NoFile}
        /\ data' \in [Inodes -> Content \ {Absent}] /\ synced' \subseteq Inodes
        /\ old' \subseteq Content
        BY <1>8, Base, Threads DEF WriteTmp, Fault, RemoveTmp, Resolve, disk, TypeOK
  <2>2. pc' \in [Procs -> Steps] /\ fd' \in [Procs -> Inodes \cup {NoFile}]
        BY <1>8, Base, Threads DEF WriteTmp, Fault, RemoveTmp, Fails, Resolve,
           SaveErrorIgnored, disk, Steps, TypeOK
  <2>3. out' \in [Procs -> Maps] /\ mem' \in Maps
        BY <1>8, Base, Threads, MapTypes, FailsTypes DEF WriteTmp, Fault, RemoveTmp,
           Resolve, TypeOK
  <2>4. \A q \in Procs : fd'[q] # NoFile <=> pc'[q] \in {"write", "sync"}
        BY <1>8, Base, Threads DEF WriteTmp, Fault, RemoveTmp, Fails, Resolve,
           SaveErrorIgnored, TypeOK
  <2>5. config' \in Configs /\ server' \in [used : BOOLEAN, cred : 0 .. MaxCred]
        BY <1>8 DEF WriteTmp, Fault, RemoveTmp, Resolve, TypeOK
  <2>6. starts' \in 0 .. MaxStarts /\ faults' \subseteq Faults
        BY <1>8, IdentityAssumption DEF WriteTmp, Fault, RemoveTmp, Resolve, TypeOK
  <2>7. cut' \in BOOLEAN /\ overlap' \in BOOLEAN /\ resolved' \in Ids
        BY <1>8, MapTypes DEF WriteTmp, Fault, RemoveTmp, Resolve, InWindow, TypeOK
  <2> QED BY <2>1, <2>2, <2>3, <2>4, <2>5, <2>6, <2>7 DEF TypeOK
<1>9. ASSUME NEW p \in Procs, SyncTmp(p) PROVE TypeOK'
  <2>1. /\ path' \in Inodes \cup {NoFile} /\ tmp' \in Inodes \cup {NoFile}
        /\ data' \in [Inodes -> Content \ {Absent}] /\ synced' \subseteq Inodes
        /\ old' \subseteq Content
    <3>1. fd[p] \in Inodes
          BY <1>9 DEF SyncTmp, TypeOK
    <3> QED BY <1>9, <3>1 DEF SyncTmp, Synced, RemoveTmp, TypeOK
  <2>2. pc' \in [Procs -> Steps] /\ fd' \in [Procs -> Inodes \cup {NoFile}]
        BY <1>9, Base, Threads DEF SyncTmp, Synced, Fault, RemoveTmp, Fails, Resolve,
           SaveErrorIgnored, disk, Steps, TypeOK
  <2>3. out' \in [Procs -> Maps] /\ mem' \in Maps
        BY <1>9, Base, Threads, MapTypes, FailsTypes DEF SyncTmp, Synced, Fault, RemoveTmp,
           Resolve, TypeOK
  <2>4. \A q \in Procs : fd'[q] # NoFile <=> pc'[q] \in {"write", "sync"}
        BY <1>9, Base, Threads DEF SyncTmp, Synced, Fault, RemoveTmp, Fails, Resolve,
           SaveErrorIgnored, TypeOK
  <2>5. config' \in Configs /\ server' \in [used : BOOLEAN, cred : 0 .. MaxCred]
        BY <1>9 DEF SyncTmp, Synced, Fault, RemoveTmp, Resolve, TypeOK
  <2>6. starts' \in 0 .. MaxStarts /\ faults' \subseteq Faults
        BY <1>9, IdentityAssumption DEF SyncTmp, Synced, Fault, RemoveTmp, Resolve, TypeOK
  <2>7. cut' \in BOOLEAN /\ overlap' \in BOOLEAN /\ resolved' \in Ids
        BY <1>9, MapTypes DEF SyncTmp, Synced, Fault, RemoveTmp, Resolve, InWindow, TypeOK
  <2> QED BY <2>1, <2>2, <2>3, <2>4, <2>5, <2>6, <2>7 DEF TypeOK
<1>10. ASSUME NEW p \in Procs, RenameTmp(p) PROVE TypeOK'
  <2>1. /\ path' \in Inodes \cup {NoFile} /\ tmp' \in Inodes \cup {NoFile}
        /\ data' \in [Inodes -> Content \ {Absent}] /\ synced' \subseteq Inodes
        /\ old' \subseteq Content
        BY <1>10, Base, Threads DEF RenameTmp, Fault, RemoveTmp, Resolve, Survivors, disk,
           TypeOK
  <2>2. pc' \in [Procs -> Steps] /\ fd' \in [Procs -> Inodes \cup {NoFile}]
        BY <1>10, Base, Threads DEF RenameTmp, Fault, RemoveTmp, Fails, Resolve,
           SaveErrorIgnored, Survivors, disk, Steps, TypeOK
  <2>3. out' \in [Procs -> Maps] /\ mem' \in Maps
        BY <1>10, Base, Threads, MapTypes, FailsTypes DEF RenameTmp, Fault, RemoveTmp,
           Resolve, Survivors, TypeOK
  <2>4. \A q \in Procs : fd'[q] # NoFile <=> pc'[q] \in {"write", "sync"}
        BY <1>10, Base, Threads DEF RenameTmp, Fault, RemoveTmp, Fails, Resolve,
           SaveErrorIgnored, Survivors, TypeOK
  <2>5. config' \in Configs /\ server' \in [used : BOOLEAN, cred : 0 .. MaxCred]
        BY <1>10 DEF RenameTmp, Fault, RemoveTmp, Resolve, Survivors, TypeOK
  <2>6. starts' \in 0 .. MaxStarts /\ faults' \subseteq Faults
        BY <1>10, IdentityAssumption DEF RenameTmp, Fault, RemoveTmp, Resolve, Survivors,
           TypeOK
  <2>7. cut' \in BOOLEAN /\ overlap' \in BOOLEAN /\ resolved' \in Ids
        BY <1>10, MapTypes DEF RenameTmp, Fault, RemoveTmp, Resolve, Survivors, InWindow,
           TypeOK
  <2> QED BY <2>1, <2>2, <2>3, <2>4, <2>5, <2>6, <2>7 DEF TypeOK
<1>11. ASSUME NEW p \in Procs, Chmod(p) PROVE TypeOK'
  <2>1. /\ path' \in Inodes \cup {NoFile} /\ tmp' \in Inodes \cup {NoFile}
        /\ data' \in [Inodes -> Content \ {Absent}] /\ synced' \subseteq Inodes
        /\ old' \subseteq Content
        BY <1>11, Base, Threads DEF Chmod, Succeeds, InMemory, Fault, Resolve, disk, TypeOK
  <2>2. pc' \in [Procs -> Steps] /\ fd' \in [Procs -> Inodes \cup {NoFile}]
        BY <1>11, Base, Threads DEF Chmod, Succeeds, InMemory, Fault, Fails, Resolve,
           SaveErrorIgnored, disk, Steps, TypeOK
  <2>3. out' \in [Procs -> Maps] /\ mem' \in Maps
    <3>1. out[p] \in Maps /\ [mem EXCEPT !.cred = out[p].cred] \in Maps
          BY MapTypes DEF TypeOK
    <3> QED BY <1>11, <3>1, FailsTypes DEF Chmod, Succeeds, InMemory, TypeOK
  <2>4. \A q \in Procs : fd'[q] # NoFile <=> pc'[q] \in {"write", "sync"}
        BY <1>11, Base, Threads DEF Chmod, Succeeds, InMemory, Fault, Fails, Resolve,
           SaveErrorIgnored, TypeOK
  <2>5. config' \in Configs /\ server' \in [used : BOOLEAN, cred : 0 .. MaxCred]
        BY <1>11 DEF Chmod, Succeeds, InMemory, Fault, Resolve, TypeOK
  <2>6. starts' \in 0 .. MaxStarts /\ faults' \subseteq Faults
        BY <1>11, IdentityAssumption DEF Chmod, Succeeds, InMemory, Fault, Resolve, TypeOK
  <2>7. cut' \in BOOLEAN /\ overlap' \in BOOLEAN /\ resolved' \in Ids
        BY <1>11, MapTypes DEF Chmod, Succeeds, InMemory, Fault, Resolve, InWindow, TypeOK
  <2> QED BY <2>1, <2>2, <2>3, <2>4, <2>5, <2>6, <2>7 DEF TypeOK
<1>12. ASSUME WriteBack PROVE TypeOK'
  <2>1. /\ path' \in Inodes \cup {NoFile} /\ tmp' \in Inodes \cup {NoFile}
        /\ data' \in [Inodes -> Content \ {Absent}] /\ synced' \subseteq Inodes
        /\ old' \subseteq Content
        BY <1>12, Base, Threads DEF WriteBack, disk, TypeOK
  <2>2. pc' \in [Procs -> Steps] /\ fd' \in [Procs -> Inodes \cup {NoFile}]
        BY <1>12, Base, Threads DEF WriteBack, disk, Steps, TypeOK
  <2>3. out' \in [Procs -> Maps] /\ mem' \in Maps
        BY <1>12, Base, Threads, MapTypes DEF WriteBack, TypeOK
  <2>4. \A q \in Procs : fd'[q] # NoFile <=> pc'[q] \in {"write", "sync"}
        BY <1>12, Base, Threads DEF WriteBack, TypeOK
  <2>5. config' \in Configs /\ server' \in [used : BOOLEAN, cred : 0 .. MaxCred]
        BY <1>12 DEF WriteBack, TypeOK
  <2>6. starts' \in 0 .. MaxStarts /\ faults' \subseteq Faults
        BY <1>12, IdentityAssumption DEF WriteBack, TypeOK
  <2>7. cut' \in BOOLEAN /\ overlap' \in BOOLEAN /\ resolved' \in Ids
        BY <1>12, MapTypes DEF WriteBack, InWindow, TypeOK
  <2> QED BY <2>1, <2>2, <2>3, <2>4, <2>5, <2>6, <2>7 DEF TypeOK
<1>13. ASSUME Exit PROVE TypeOK'
  <2>1. /\ path' \in Inodes \cup {NoFile} /\ tmp' \in Inodes \cup {NoFile}
        /\ data' \in [Inodes -> Content \ {Absent}] /\ synced' \subseteq Inodes
        /\ old' \subseteq Content
        BY <1>13, Base, Threads DEF Exit, Down, disk, TypeOK
  <2>2. pc' \in [Procs -> Steps] /\ fd' \in [Procs -> Inodes \cup {NoFile}]
        BY <1>13, Base, Threads DEF Exit, Down, disk, Steps, TypeOK
  <2>3. out' \in [Procs -> Maps] /\ mem' \in Maps
        BY <1>13, Base, Threads, MapTypes DEF Exit, Down, TypeOK
  <2>4. \A q \in Procs : fd'[q] # NoFile <=> pc'[q] \in {"write", "sync"}
        BY <1>13, Base, Threads DEF Exit, Down, TypeOK
  <2>5. config' \in Configs /\ server' \in [used : BOOLEAN, cred : 0 .. MaxCred]
        BY <1>13 DEF Exit, Down, TypeOK
  <2>6. starts' \in 0 .. MaxStarts /\ faults' \subseteq Faults
        BY <1>13, IdentityAssumption DEF Exit, Down, TypeOK
  <2>7. cut' \in BOOLEAN /\ overlap' \in BOOLEAN /\ resolved' \in Ids
        BY <1>13, MapTypes DEF Exit, Down, InWindow, TypeOK
  <2> QED BY <2>1, <2>2, <2>3, <2>4, <2>5, <2>6, <2>7 DEF TypeOK
<1>14. ASSUME PowerLoss PROVE TypeOK'
  <2>1. /\ path' \in Inodes \cup {NoFile} /\ tmp' \in Inodes \cup {NoFile}
        /\ data' \in [Inodes -> Content \ {Absent}] /\ synced' \subseteq Inodes
        /\ old' \subseteq Content
        BY <1>14, SurvivorTypes, InodeCount DEF PowerLoss, TypeOK
  <2>2. pc' \in [Procs -> Steps] /\ fd' \in [Procs -> Inodes \cup {NoFile}]
        BY <1>14, Base, Threads DEF PowerLoss, Down, Fault, Survivors, disk, Steps, TypeOK
  <2>3. out' \in [Procs -> Maps] /\ mem' \in Maps
        BY <1>14, Base, Threads, MapTypes DEF PowerLoss, Down, Fault, Survivors, TypeOK
  <2>4. \A q \in Procs : fd'[q] # NoFile <=> pc'[q] \in {"write", "sync"}
        BY <1>14, Base, Threads DEF PowerLoss, Down, Fault, Survivors, TypeOK
  <2>5. config' \in Configs /\ server' \in [used : BOOLEAN, cred : 0 .. MaxCred]
        BY <1>14 DEF PowerLoss, Down, Fault, Survivors, TypeOK
  <2>6. starts' \in 0 .. MaxStarts /\ faults' \subseteq Faults
        BY <1>14, IdentityAssumption DEF PowerLoss, Down, Fault, Survivors, TypeOK
  <2>7. cut' \in BOOLEAN /\ overlap' \in BOOLEAN /\ resolved' \in Ids
        BY <1>14, MapTypes DEF PowerLoss, Down, Fault, Survivors, InWindow, TypeOK
  <2> QED BY <2>1, <2>2, <2>3, <2>4, <2>5, <2>6, <2>7 DEF TypeOK
<1>15. ASSUME Restart PROVE TypeOK'
  <2>1. /\ path' \in Inodes \cup {NoFile} /\ tmp' \in Inodes \cup {NoFile}
        /\ data' \in [Inodes -> Content \ {Absent}] /\ synced' \subseteq Inodes
        /\ old' \subseteq Content
        BY <1>15, Base, Threads DEF Restart, disk, TypeOK
  <2>2. pc' \in [Procs -> Steps] /\ fd' \in [Procs -> Inodes \cup {NoFile}]
        BY <1>15, Base, Threads DEF Restart, disk, Steps, TypeOK
  <2>3. out' \in [Procs -> Maps] /\ mem' \in Maps
        BY <1>15, Base, Threads, MapTypes DEF Restart, TypeOK
  <2>4. \A q \in Procs : fd'[q] # NoFile <=> pc'[q] \in {"write", "sync"}
        BY <1>15, Base, Threads DEF Restart, TypeOK
  <2>5. config' \in Configs /\ server' \in [used : BOOLEAN, cred : 0 .. MaxCred]
        BY <1>15 DEF Restart, TypeOK
  <2>6. starts' \in 0 .. MaxStarts /\ faults' \subseteq Faults
        BY <1>15, IdentityAssumption DEF Restart, TypeOK
  <2>7. cut' \in BOOLEAN /\ overlap' \in BOOLEAN /\ resolved' \in Ids
        BY <1>15, MapTypes DEF Restart, InWindow, TypeOK
  <2> QED BY <2>1, <2>2, <2>3, <2>4, <2>5, <2>6, <2>7 DEF TypeOK
<1> QED BY <1>1, <1>2, <1>3, <1>4, <1>5, <1>6, <1>7, <1>8, <1>9, <1>10, <1>11, <1>12, <1>13, <1>14, <1>15 DEF
   Next, Save

(* No step lets two saves meet without overlap, or damages the file. *)
LEMMA NextSaves ==
  ASSUME TypeOK, ~overlap => SaveInv, Next
  PROVE  ~overlap' => SaveInv'
<1>1. ASSUME ResolveLocal PROVE ~overlap' => SaveInv'
      BY <1>1, Base, Threads DEF ResolveLocal, Fails, Resolve, SaveErrorIgnored, TypeOK,
         SaveInv, Saving, disk, Procs
<1>2. ASSUME LoadIdentity PROVE ~overlap' => SaveInv'
      BY <1>2, Base, Threads DEF LoadIdentity, Fails, Resolve, SaveErrorIgnored,
         UsePersisted, TypeOK, SaveInv, Saving, disk, Procs
<1>3. ASSUME Register PROVE ~overlap' => SaveInv'
      BY <1>3, Base, Threads DEF Register, Unanswered, Exchange, Fault, Fails, Resolve,
         SaveErrorIgnored, TypeOK, SaveInv, Saving, disk, Procs
<1>4. ASSUME NEW p \in Callers, RefreshBegin(p) PROVE ~overlap' => SaveInv'
      BY <1>4, Base, Threads DEF RefreshBegin, TypeOK, SaveInv, Saving, disk, Procs
<1>5. ASSUME NEW p \in Callers, Refresh(p) PROVE ~overlap' => SaveInv'
      BY <1>5, Base, Threads DEF Refresh, Unanswered, Exchange, Fault, Fails, Resolve,
         SaveErrorIgnored, TypeOK, SaveInv, Saving, disk, Procs
<1>6. ASSUME NEW p \in Procs, Overlay(p) PROVE ~overlap' => SaveInv'
  <2>1. PICK s \in {"open", "up", "failed", "off"} : pc' = [pc EXCEPT ![p] = s]
        BY <1>6, FailsPlace DEF Overlay
  <2>2. /\ pc[p] = "overlay" /\ \A q \in Procs \ {p} : out'[q] = out[q]
        /\ UNCHANGED <<disk, fd, overlap>>
        BY <1>6 DEF Overlay, TypeOK
  <2> QED BY <2>1, <2>2 DEF TypeOK, SaveInv, Saving, disk
<1>7. ASSUME NEW p \in Procs, OpenTmp(p) PROVE ~overlap' => SaveInv'
  <2> DEFINE i == IF tmp = NoFile THEN FreeInode ELSE tmp
  <2> SUFFICES ASSUME ~overlap' PROVE SaveInv'
      OBVIOUS
  <2>1. SaveInv /\ pc[p] = "open" /\ \A q \in Procs \ {p} : ~Saving(q)
        BY <1>7 DEF OpenTmp, Truncated
  <2>2. CASE /\ tmp' = i /\ fd' = [fd EXCEPT ![p] = i]
             /\ data' = [data EXCEPT ![i] = Empty] /\ synced' = synced \ {i}
             /\ pc' = [pc EXCEPT ![p] = "write"]
             /\ UNCHANGED <<path, old>>
    <3>1. i \in Inodes /\ i # NoFile /\ i # path
          BY <2>1, InodeLeft, InodeCount DEF TypeOK, SaveInv
    <3> HIDE DEF i
    <3> QED BY <2>1, <2>2, <3>1 DEF TypeOK, SaveInv, Saving
  <2>3. CASE Fails(p) /\ UNCHANGED <<disk, fd>>
    <3>1. PICK s \in {"up", "failed", "off"} : pc' = [pc EXCEPT ![p] = s]
          BY <2>3, FailsPlace
    <3> QED BY <1>7, <2>1, <2>3, <3>1 DEF OpenTmp, Truncated, TypeOK, SaveInv, Saving, disk
  <2> QED BY <1>7, <2>2, <2>3 DEF OpenTmp, Truncated
<1>8. ASSUME NEW p \in Procs, WriteTmp(p) PROVE ~overlap' => SaveInv'
      BY <1>8, Base, Threads DEF WriteTmp, Fault, RemoveTmp, Fails, Resolve,
         SaveErrorIgnored, TypeOK, SaveInv, Saving, disk, Procs
<1>9. ASSUME NEW p \in Procs, SyncTmp(p) PROVE ~overlap' => SaveInv'
      BY <1>9, Base, Threads DEF SyncTmp, Synced, Fault, RemoveTmp, Fails, Resolve,
         SaveErrorIgnored, TypeOK, SaveInv, Saving, disk, Procs
<1>10. ASSUME NEW p \in Procs, RenameTmp(p) PROVE ~overlap' => SaveInv'
      BY <1>10, Base, Threads DEF RenameTmp, Fault, RemoveTmp, Fails, Resolve,
         SaveErrorIgnored, Survivors, TypeOK, SaveInv, Saving, disk, Procs
<1>11. ASSUME NEW p \in Procs, Chmod(p) PROVE ~overlap' => SaveInv'
      BY <1>11, Base, Threads DEF Chmod, Succeeds, InMemory, Fault, Fails, Resolve,
         SaveErrorIgnored, TypeOK, SaveInv, Saving, disk, Procs
<1>12. ASSUME WriteBack PROVE ~overlap' => SaveInv'
      BY <1>12, Base, Threads DEF WriteBack, TypeOK, SaveInv, Saving, disk, Procs
<1>13. ASSUME Exit PROVE ~overlap' => SaveInv'
      BY <1>13, Base, Threads DEF Exit, Down, TypeOK, SaveInv, Saving, disk, Procs
<1>14. ASSUME PowerLoss PROVE ~overlap' => SaveInv'
  <2>1. \A q \in Procs : pc'[q] \in {"down", "off"} /\ fd'[q] = NoFile
        BY <1>14 DEF PowerLoss, Down
  <2>2. ~overlap => \/ path' = NoFile
                    \/ path' = 1 /\ data'[1] \in Maps
        BY <1>14, SurvivorTypes, InodeCount DEF PowerLoss, TypeOK
  <2>3. tmp' = NoFile /\ synced' = {1} /\ old' = {} /\ UNCHANGED overlap /\ 1 # NoFile
        BY <1>14, InodeCount DEF PowerLoss, Down
  <2> QED BY <2>1, <2>2, <2>3 DEF SaveInv, Saving
<1>15. ASSUME Restart PROVE ~overlap' => SaveInv'
      BY <1>15, Base, Threads DEF Restart, TypeOK, SaveInv, Saving, disk, Procs
<1> QED BY <1>1, <1>2, <1>3, <1>4, <1>5, <1>6, <1>7, <1>8, <1>9, <1>10, <1>11, <1>12, <1>13, <1>14, <1>15 DEF
   Next, Save

LEMMA FileStays ==
  ASSUME UNCHANGED path, path # NoFile => data'[path] = data[path]
  PROVE  File' = File
BY DEF File

(* A step of one thread that leaves the file alone.                        *)
LEMMA StoreKept ==
  ASSUME TypeOK, StoreInv, NEW p \in Procs, File' = File, UNCHANGED old,
         \A q \in Procs \ {p} : pc'[q] = pc[q] /\ out'[q] = out[q],
         Named(out'[p]),
         p = Main /\ pc'[p] \in {"register", "overlay", "open", "write", "sync", "rename"}
           => ~HasIdentity,
         p # Main /\ pc'[p] # "off" => HasIdentity /\ Loaded.id = out'[p].id
  PROVE  StoreInv'
<1>1. (HasIdentity' <=> HasIdentity) /\ Loaded' = Loaded
      BY DEF HasIdentity, Readable, Loaded
<1>2. pc'[Main] \in {"register", "overlay", "open", "write", "sync", "rename"} => ~HasIdentity'
      BY <1>1, Threads DEF StoreInv
<1>3. \A q \in Callers : pc'[q] # "off" => HasIdentity' /\ Loaded'.id = out'[q].id
      BY <1>1, Threads DEF StoreInv
<1>4. Named(File') /\ (\A c \in old' : Named(c)) /\ \A q \in Procs : Named(out'[q])
      BY DEF StoreInv
<1> QED BY <1>2, <1>3, <1>4 DEF StoreInv, Named

LEMMA StoreOnFailure ==
  ASSUME TypeOK, StoreInv, NEW p \in Procs, Fails(p), File' = File, UNCHANGED <<old, out>>
  PROVE  StoreInv'
<1>1. p # Main => pc' = [pc EXCEPT ![p] = "off"]
      BY CallerFails
<1>2. PICK s \in {"up", "failed", "off"} : pc' = [pc EXCEPT ![p] = s]
      BY FailsPlace
<1>3. /\ \A q \in Procs \ {p} : pc'[q] = pc[q] /\ out'[q] = out[q]
      /\ pc'[p] = s /\ (p # Main => pc'[p] = "off") /\ Named(out'[p])
      BY <1>1, <1>2 DEF TypeOK, StoreInv
<1>4. s \notin {"register", "overlay", "open", "write", "sync", "rename"}
      BY <1>2
<1> QED BY <1>3, <1>4, StoreKept

LEMMA StoreOnDown ==
  ASSUME StoreInv, Down, Named(File'), UNCHANGED old \/ old' = {}
  PROVE  StoreInv'
<1>1. pc'[Main] = "down" /\ \A q \in Callers : pc'[q] = "off"
      BY Threads DEF Down
<1>2. \A q \in Procs : out'[q] = Nobody
      BY DEF Down
<1>3. Named(Nobody)
      BY DEF Named, Nobody
<1> QED BY <1>1, <1>2, <1>3 DEF StoreInv, Named

(* No step lets a start save over an identity, or a caller meet another    *)
(* identity than the one it has read.                                      *)
LEMMA NextStores ==
  ASSUME TypeOK, ~overlap => SaveInv /\ StoreInv, Next, ~overlap'
  PROVE  StoreInv'
<1> USE Threads
<1>0. SaveInv /\ StoreInv
  <2>1. overlap => overlap'
        BY Threads DEF Next, Save, ResolveLocal, LoadIdentity, Register, RefreshBegin, Refresh,
           Overlay, OpenTmp, Truncated, WriteTmp, SyncTmp, RenameTmp, Chmod, WriteBack, Exit, PowerLoss,
           Down, Restart
  <2> QED BY <2>1
<1>1. ASSUME ResolveLocal PROVE StoreInv'
  <2>1. File' = File /\ UNCHANGED <<old, out>>
        BY <1>1, FileStays DEF ResolveLocal, disk
  <2>2. Fails(Main) \/ pc' = [pc EXCEPT ![Main] = "up"]
        BY <1>1 DEF ResolveLocal, Resolve
  <2>3. CASE pc' = [pc EXCEPT ![Main] = "up"]
    <3>1. pc'[Main] = "up" /\ \A q \in Procs \ {Main} : pc'[q] = pc[q]
          BY <2>3 DEF TypeOK
    <3>2. Named(out'[Main])
          BY <1>0, <2>1 DEF StoreInv
    <3> QED BY <1>0, <2>1, <3>1, <3>2, StoreKept
  <2> QED BY <1>0, <2>1, <2>2, <2>3, StoreOnFailure
<1>2. ASSUME LoadIdentity PROVE StoreInv'
  <2>1. File' = File /\ UNCHANGED old
        BY <1>2, FileStays DEF LoadIdentity, disk
  <2>2. CASE ~Readable
        BY <1>0, <1>2, <2>1, <2>2, StoreOnFailure DEF LoadIdentity, UsePersisted, HasIdentity
  <2>3. CASE Readable
    <3>1. /\ \A q \in Procs \ {Main} : pc'[q] = pc[q] /\ out'[q] = out[q]
          /\ \/ HasIdentity /\ pc'[Main] = "up" /\ out'[Main] = out[Main]
             \/ ~HasIdentity /\ out'[Main] \in {out[Main], [id |-> "preset", cred |-> 0]}
      <4>1. CASE HasIdentity
            BY <1>2, <2>3, <4>1 DEF LoadIdentity, UsePersisted, Resolve, TypeOK
      <4>2. CASE ~HasIdentity /\ config.preset
            BY <1>2, <2>3, <4>2 DEF LoadIdentity, UsePersisted, TypeOK
      <4>3. CASE ~HasIdentity /\ ~config.preset
            BY <1>2, <2>3, <4>3 DEF LoadIdentity, UsePersisted, TypeOK
      <4> QED BY <4>1, <4>2, <4>3
    <3>2. Named(out'[Main])
      <4>1. CASE out'[Main] = out[Main]
            BY <1>0, <4>1 DEF StoreInv
      <4>2. CASE out'[Main] = [id |-> "preset", cred |-> 0]
            BY <4>2 DEF Named
      <4> QED BY <3>1, <4>1, <4>2
    <3> QED BY <1>0, <2>1, <3>1, <3>2, StoreKept
  <2> QED BY <2>2, <2>3
<1>3. ASSUME Register PROVE StoreInv'
  <2>1. File' = File /\ UNCHANGED old /\ pc[Main] = "register"
        BY <1>3, FileStays DEF Register, disk
  <2>2. ~HasIdentity
        BY <1>0, <2>1 DEF StoreInv
  <2>3. CASE Fails(Main) /\ UNCHANGED out
        BY <1>0, <2>1, <2>3, StoreOnFailure
  <2>4. CASE /\ pc' = [pc EXCEPT ![Main] = "overlay"]
             /\ \E m \in {[id |-> "issued", cred |-> server.cred + 1], Nobody} :
                  out' = [out EXCEPT ![Main] = m]
    <3>1. \A q \in Procs \ {Main} : pc'[q] = pc[q] /\ out'[q] = out[q]
          BY <2>4 DEF TypeOK
    <3>2. out'[Main] \in {[id |-> "issued", cred |-> server.cred + 1], Nobody}
          BY <2>4 DEF TypeOK
    <3>3. Named(out'[Main])
      <4>1. CASE out'[Main] = [id |-> "issued", cred |-> server.cred + 1]
            BY <4>1 DEF Named
      <4>2. Named(Nobody)
            BY DEF Named, Nobody
      <4> QED BY <3>2, <4>1, <4>2
    <3> QED BY <1>0, <2>1, <2>2, <3>1, <3>3, StoreKept
  <2> QED BY <1>3, <2>3, <2>4 DEF Register, Unanswered, Exchange, Blanked
<1>4. ASSUME NEW p \in Callers, RefreshBegin(p) PROVE StoreInv'
  <2>1. File' = File /\ UNCHANGED old
        BY <1>4, FileStays DEF RefreshBegin, disk
  <2>2. HasIdentity /\ out'[p] = Loaded /\ p \in Procs /\ p # Main
        BY <1>4 DEF RefreshBegin, TypeOK
  <2>3. \A q \in Procs \ {p} : pc'[q] = pc[q] /\ out'[q] = out[q]
        BY <1>4 DEF RefreshBegin, TypeOK
  <2>4. Named(out'[p])
        BY <2>2 DEF HasIdentity, Named
  <2> QED BY <1>0, <2>1, <2>2, <2>3, <2>4, StoreKept
<1>5. ASSUME NEW p \in Callers, Refresh(p) PROVE StoreInv'
  <2>1. File' = File /\ UNCHANGED old /\ pc[p] = "refresh" /\ p \in Procs /\ p # Main
        BY <1>5, FileStays DEF Refresh, disk
  <2>2. HasIdentity /\ Loaded.id = out[p].id /\ out[p] \in Maps
        BY <1>0, <1>5, <2>1 DEF StoreInv, TypeOK
  <2>3. CASE Fails(p) /\ UNCHANGED out
        BY <1>0, <2>1, <2>3, StoreOnFailure
  <2>4. CASE /\ pc' = [pc EXCEPT ![p] = "overlay"]
             /\ \E m \in {[id |-> out[p].id, cred |-> server.cred + 1],
                          [out[p] EXCEPT !.cred = 0]} : out' = [out EXCEPT ![p] = m]
    <3>1. \A q \in Procs \ {p} : pc'[q] = pc[q] /\ out'[q] = out[q]
          BY <2>4 DEF TypeOK
    <3>2. out'[p].id = out[p].id
          BY <2>1, <2>2, <2>4 DEF TypeOK, Maps
    <3>3. Named(out'[p])
          BY <2>2, <3>2 DEF Named, HasIdentity
    <3> QED BY <1>0, <2>1, <2>2, <3>1, <3>2, <3>3, StoreKept
  <2> QED BY <1>5, <2>1, <2>3, <2>4 DEF Refresh, Unanswered, Exchange, Blanked
<1>6. ASSUME NEW p \in Procs, Overlay(p) PROVE StoreInv'
  <2>1. File' = File /\ UNCHANGED old /\ pc[p] = "overlay"
        BY <1>6, FileStays DEF Overlay, disk
  <2>2. CASE ~Readable
        BY <1>0, <1>6, <2>1, <2>2, StoreOnFailure DEF Overlay
  <2>3. CASE Readable
    <3>1. \A q \in Procs \ {p} : pc'[q] = pc[q] /\ out'[q] = out[q]
          BY <1>6, <2>3 DEF Overlay, TypeOK
    <3>2. out'[p] = Overlaid(p) /\ Loaded \in Maps
          BY <1>6, <2>3, Base DEF Overlay, TypeOK
    <3>3. CASE p = Main
      <4>1. ~HasIdentity /\ Named(out[p]) /\ Named(Loaded)
            BY <1>0, <2>1, <3>3 DEF StoreInv, Loaded, Named, Nobody
      <4>2. Loaded.id = "" /\ Loaded.cred = 0
            BY <2>3, <4>1 DEF HasIdentity, Named
      <4>3. /\ out'[p].id = (IF out[p].id = "" THEN Loaded.id ELSE out[p].id)
            /\ out'[p].cred = (IF out[p].cred = 0 THEN Loaded.cred ELSE out[p].cred)
        <5> DEFINE i == IF out[p].id = "" THEN Loaded.id ELSE out[p].id
                   c == IF out[p].cred = 0 THEN Loaded.cred ELSE out[p].cred
        <5>1. out'[p] = [id |-> i, cred |-> c]
              BY <3>2, <3>3 DEF Overlaid
        <5> HIDE DEF i, c
        <5>2. out'[p].id = i /\ out'[p].cred = c
              BY <5>1
        <5> QED BY <5>2 DEF i, c
      <4>4. Named(out'[p])
            BY <4>1, <4>2, <4>3 DEF Named
      <4> QED BY <1>0, <2>1, <3>1, <3>3, <4>1, <4>4, StoreKept
    <3>4. CASE p # Main
      <4>1. HasIdentity /\ Loaded.id # ""
        <5>1. HasIdentity
              BY <1>0, <2>1, <3>4 DEF StoreInv
        <5> QED BY <5>1 DEF HasIdentity
      <4>2. out'[p].id = Loaded.id
            BY <3>2, <3>4 DEF Overlaid, Maps
      <4>3. Named(out'[p])
            BY <4>1, <4>2 DEF Named
      <4> QED BY <1>0, <2>1, <3>1, <3>4, <4>1, <4>2, <4>3, StoreKept
    <3> QED BY <3>3, <3>4
  <2> QED BY <2>2, <2>3
<1>7. ASSUME NEW p \in Procs, pc[p] \in {"open", "write", "sync"},
             File' = File, UNCHANGED <<old, out>>,
             \E s \in {"write", "sync", "rename"} : pc' = [pc EXCEPT ![p] = s]
      PROVE  StoreInv'
  <2>1. \A q \in Procs \ {p} : pc'[q] = pc[q] /\ out'[q] = out[q]
        BY <1>7 DEF TypeOK
  <2>2. Named(out'[p]) /\ (p = Main => ~HasIdentity)
        BY <1>0, <1>7 DEF StoreInv
  <2>3. p # Main => HasIdentity /\ Loaded.id = out'[p].id
        BY <1>0, <1>7 DEF StoreInv
  <2> QED BY <1>0, <1>7, <2>1, <2>2, <2>3, StoreKept
<1>8. ASSUME NEW p \in Procs, OpenTmp(p) PROVE StoreInv'
  <2>1. (IF tmp = NoFile THEN FreeInode ELSE tmp) # path \/ path = NoFile
        BY <1>0, InodeLeft DEF SaveInv
  <2>2. File' = File /\ UNCHANGED <<old, out>> /\ pc[p] = "open"
        BY <1>8, <2>1, FileStays DEF OpenTmp, Truncated, disk, TypeOK
  <2>3. Fails(p) \/ pc' = [pc EXCEPT ![p] = "write"]
        BY <1>8 DEF OpenTmp, Truncated
  <2> QED BY <1>0, <1>7, <2>2, <2>3, StoreOnFailure
<1>9. ASSUME NEW p \in Procs, WriteTmp(p) PROVE StoreInv'
  <2>1. fd[p] # path \/ path = NoFile
        BY <1>0, <1>9 DEF SaveInv, WriteTmp
  <2>2. (\E c : data' = [data EXCEPT ![fd[p]] = c]) /\ UNCHANGED <<path, old, out>>
        BY <1>9 DEF WriteTmp, RemoveTmp
  <2>3. File' = File
        BY <2>1, <2>2, FileStays DEF TypeOK
  <2>4. pc[p] = "write" /\ (Fails(p) \/ pc' = [pc EXCEPT ![p] = "sync"])
        BY <1>9 DEF WriteTmp, RemoveTmp
  <2> QED BY <1>0, <1>7, <2>2, <2>3, <2>4, StoreOnFailure
<1>10. ASSUME NEW p \in Procs, SyncTmp(p) PROVE StoreInv'
  <2>1. File' = File /\ UNCHANGED <<old, out>> /\ pc[p] = "sync"
        BY <1>10, FileStays DEF SyncTmp
  <2>2. Fails(p) \/ pc' = [pc EXCEPT ![p] = "rename"]
        BY <1>10 DEF SyncTmp, RemoveTmp
  <2> QED BY <1>0, <1>7, <2>1, <2>2, StoreOnFailure
<1>11. ASSUME NEW p \in Procs, RenameTmp(p) PROVE StoreInv'
  <2>1. CASE Fails(p) /\ UNCHANGED <<path, data, old, out>>
        BY <1>0, <2>1, FileStays, StoreOnFailure
  <2>2. CASE /\ tmp # NoFile /\ path' = tmp /\ old' = old \cup Survivors(path)
             /\ pc' = [pc EXCEPT ![p] = "chmod"] /\ UNCHANGED <<data, out>>
    <3>1. pc[p] = "rename" /\ data[tmp] = out[p] /\ out[p] \in Maps /\ Named(out[p])
          BY <1>0, <1>11 DEF RenameTmp, SaveInv, StoreInv, TypeOK
    <3>2. File' = out[p] /\ Loaded' = out[p] /\ (HasIdentity' <=> out[p].id # "")
          BY <2>2, <3>1, Base DEF File, Loaded, HasIdentity, Readable
    <3>3. \A c \in old' : Named(c)
      <4>1. Survivors(path) = {File}
            BY <1>0 DEF SaveInv, Survivors, File
      <4> QED BY <1>0, <2>2, <4>1 DEF StoreInv
    <3>4. pc'[p] = "chmod" /\ \A q \in Procs \ {p} : pc'[q] = pc[q]
          BY <2>2 DEF TypeOK
    <3>5. CASE p = Main
      <4>1. \A q \in Callers : pc'[q] = "off"
            BY <1>0, <3>1, <3>4, <3>5 DEF StoreInv
      <4> QED BY <1>0, <2>2, <3>1, <3>2, <3>3, <3>4, <3>5, <4>1 DEF StoreInv, Named
    <3>6. CASE p # Main
      <4>1. HasIdentity /\ Loaded.id = out[p].id /\ out[p].id # ""
        <5>1. HasIdentity /\ Loaded.id = out[p].id
              BY <1>0, <3>1, <3>6 DEF StoreInv
        <5> QED BY <5>1 DEF HasIdentity
      <4>2. pc'[Main] \notin {"register", "overlay", "open", "write", "sync", "rename"}
            BY <1>0, <3>4, <3>6, <4>1 DEF StoreInv
      <4>3. \A q \in Callers : pc'[q] # "off" => out[p].id = out'[q].id
            BY <1>0, <2>2, <3>1, <3>4, <3>6 DEF StoreInv
      <4> QED BY <1>0, <2>2, <3>1, <3>2, <3>3, <4>1, <4>2, <4>3 DEF StoreInv, Named
    <3> QED BY <3>5, <3>6
  <2> QED BY <1>11, <2>1, <2>2 DEF RenameTmp, RemoveTmp
<1>12. ASSUME NEW p \in Procs, Chmod(p) PROVE StoreInv'
  <2>1. File' = File /\ UNCHANGED <<old, out>>
        BY <1>12, FileStays DEF Chmod, disk
  <2>2. Fails(p) \/ pc' = [pc EXCEPT ![p] = IF p = Main THEN "up" ELSE "off"]
        BY <1>12 DEF Chmod, Succeeds
  <2>3. CASE pc' = [pc EXCEPT ![p] = IF p = Main THEN "up" ELSE "off"]
    <3>1. \A q \in Procs \ {p} : pc'[q] = pc[q] /\ out'[q] = out[q]
          BY <2>1, <2>3 DEF TypeOK
    <3>2. pc'[p] = (IF p = Main THEN "up" ELSE "off") /\ Named(out'[p])
          BY <1>0, <2>1, <2>3 DEF TypeOK, StoreInv
    <3> QED BY <1>0, <2>1, <3>1, <3>2, StoreKept
  <2> QED BY <1>0, <2>1, <2>2, <2>3, StoreOnFailure
<1>13. ASSUME WriteBack PROVE StoreInv'
  <2>1. File' = File /\ old' = {} /\ UNCHANGED <<pc, out>>
        BY <1>13, FileStays DEF WriteBack
  <2>2. (HasIdentity' <=> HasIdentity) /\ Loaded' = Loaded
        BY <2>1 DEF HasIdentity, Readable, Loaded
  <2> QED BY <1>0, <2>1, <2>2 DEF StoreInv, Named
<1>14. ASSUME Exit PROVE StoreInv'
  <2>1. File' = File /\ UNCHANGED old /\ Down
        BY <1>14, FileStays DEF Exit, disk
  <2> QED BY <1>0, <2>1, StoreOnDown DEF StoreInv
<1>15. ASSUME PowerLoss PROVE StoreInv'
  <2>1. Survivors(path) = {File}
        BY <1>0 DEF SaveInv, Survivors, File
  <2>2. old' = {} /\ Down
        BY <1>15 DEF PowerLoss
  <2>3. PICK c \in old \cup {File} :
          IF c = Absent THEN path' = NoFile ELSE path' = 1 /\ data' = [data EXCEPT ![1] = c]
        BY <1>15, <2>1 DEF PowerLoss
  <2>4. File' = c
        BY <2>3, InodeCount DEF File, TypeOK
  <2>5. Named(c)
        BY <1>0, <2>3 DEF StoreInv
  <2> QED BY <1>0, <2>2, <2>4, <2>5, StoreOnDown
<1>16. ASSUME Restart PROVE StoreInv'
  <2>1. File' = File /\ UNCHANGED <<old, out>>
        BY <1>16, FileStays DEF Restart, disk
  <2>2. pc'[Main] = "load" /\ \A q \in Procs \ {Main} : pc'[q] = pc[q]
        BY <1>16 DEF Restart, TypeOK
  <2>3. Named(out'[Main])
        BY <1>0, <2>1 DEF StoreInv
  <2> QED BY <1>0, <2>1, <2>2, <2>3, StoreKept
<1> QED BY <1>1, <1>2, <1>3, <1>4, <1>5, <1>6, <1>8, <1>9, <1>10, <1>11, <1>12, <1>13,
           <1>14, <1>15, <1>16 DEF Next, Save

(* No step but a fault takes an identity away or changes it. *)
LEMMA NextDecides ==
  ASSUME TypeOK, ~overlap => SaveInv, Undisturbed => DecidingInv, Next
  PROVE  Undisturbed' => DecidingInv'
<1>1. ASSUME ResolveLocal PROVE Undisturbed' => DecidingInv'
      BY <1>1, Base, Threads DEF ResolveLocal, Fails, Resolve, SaveErrorIgnored, TypeOK,
         SaveInv, DecidingInv, Undisturbed, Saving, HasIdentity, Readable, Loaded, File,
         disk, Procs, Maps
<1>2. ASSUME LoadIdentity PROVE Undisturbed' => DecidingInv'
  <2> SUFFICES ASSUME Undisturbed' PROVE DecidingInv'
      OBVIOUS
  <2>1. SaveInv /\ DecidingInv /\ config.remote
        BY <1>2 DEF LoadIdentity, Undisturbed
  <2>2. (HasIdentity' <=> HasIdentity) /\ Loaded' = Loaded
        BY <1>2, SameFile DEF LoadIdentity, disk
  <2>3. pc[Main] = "load" /\ UNCHANGED resolved
        BY <1>2 DEF LoadIdentity
  <2>4. \/ HasIdentity /\ pc' = [pc EXCEPT ![Main] = "up"] /\ mem' = Loaded /\ UNCHANGED out
        \/ /\ ~HasIdentity /\ pc' = [pc EXCEPT ![Main] = "overlay"]
           /\ out'[Main].id = "preset" /\ \A q \in Callers : out'[q] = out[q]
        \/ ~HasIdentity /\ pc' = [pc EXCEPT ![Main] = "register"] /\ UNCHANGED out
        \/ pc' = [pc EXCEPT ![Main] = "failed"] /\ UNCHANGED out
    <3>1. CASE ~Readable
      <4>1. Fails(Main) /\ UNCHANGED out
            BY <1>2, <3>1 DEF LoadIdentity, UsePersisted, HasIdentity
      <4> QED BY <2>3, <4>1, StartFails
    <3>2. CASE HasIdentity
          BY <1>2, <3>2 DEF LoadIdentity, UsePersisted, HasIdentity, Resolve
    <3>3. CASE ~HasIdentity /\ Readable /\ config.preset
          BY <1>2, <3>3, Threads DEF LoadIdentity, UsePersisted, TypeOK
    <3>4. CASE ~HasIdentity /\ Readable /\ ~config.preset
          BY <1>2, <3>4 DEF LoadIdentity, UsePersisted
    <3> QED BY <3>1, <3>2, <3>3, <3>4
  <2>5. \A q \in Callers : pc'[q] = pc[q] /\ out'[q] = out[q]
        BY <2>4, Threads DEF TypeOK
  <2>6. \/ HasIdentity /\ pc'[Main] = "up" /\ mem' = Loaded
        \/ ~HasIdentity /\ pc'[Main] = "overlay" /\ out'[Main].id = "preset"
        \/ ~HasIdentity /\ pc'[Main] = "register"
        \/ pc'[Main] = "failed"
        BY <2>4, Threads DEF TypeOK
  <2> QED BY <2>1, <2>2, <2>3, <2>5, <2>6 DEF DecidingInv, Saving
<1>3. ASSUME Register PROVE Undisturbed' => DecidingInv'
  <2> SUFFICES ASSUME Undisturbed' PROVE DecidingInv'
      OBVIOUS
  <2>1. SaveInv /\ DecidingInv /\ config.remote
        BY <1>3 DEF Register, Unanswered, Exchange, Fault, Undisturbed
  <2>2. (HasIdentity' <=> HasIdentity) /\ Loaded' = Loaded
        BY <1>3, SameFile DEF Register, disk
  <2>3. pc[Main] = "register" /\ UNCHANGED <<mem, resolved>>
        BY <1>3 DEF Register, Unanswered, Exchange, Fails, SaveErrorIgnored
  <2>4. \/ pc' = [pc EXCEPT ![Main] = "failed"] /\ UNCHANGED out
        \/ /\ pc' = [pc EXCEPT ![Main] = "overlay"]
           /\ out'[Main].id = "issued" /\ \A q \in Callers : out'[q] = out[q]
    <3>1. ~Fault("blank")
          BY DEF Undisturbed, Fault
    <3> QED BY <1>3, <2>3, <3>1, StartFails, Threads DEF Register, Unanswered, Exchange,
               TypeOK
  <2>5. \A q \in Callers : pc'[q] = pc[q] /\ out'[q] = out[q]
        BY <2>4, Threads DEF TypeOK
  <2>6. \/ pc'[Main] = "failed"
        \/ pc'[Main] = "overlay" /\ out'[Main].id = "issued"
        BY <2>4, Threads DEF TypeOK
  <2> QED BY <2>1, <2>2, <2>3, <2>5, <2>6 DEF DecidingInv, Saving
<1>4. ASSUME NEW p \in Callers, RefreshBegin(p) PROVE Undisturbed' => DecidingInv'
  <2>1. (HasIdentity' <=> HasIdentity) /\ Loaded' = Loaded
        BY <1>4, SameFile DEF RefreshBegin, disk
  <2> QED BY <1>4, <2>1, Threads DEF RefreshBegin, DecidingInv, Undisturbed, Saving, TypeOK
<1>5. ASSUME NEW p \in Callers, Refresh(p) PROVE Undisturbed' => DecidingInv'
  <2> SUFFICES ASSUME Undisturbed' PROVE DecidingInv'
      OBVIOUS
  <2>1. SaveInv /\ DecidingInv /\ config.remote
        BY <1>5 DEF Refresh, Unanswered, Exchange, Fault, Undisturbed
  <2>2. (HasIdentity' <=> HasIdentity) /\ Loaded' = Loaded
        BY <1>5, SameFile DEF Refresh, disk
  <2>3. p # Main /\ p \in Procs /\ pc[p] = "refresh" /\ UNCHANGED <<mem, resolved>>
        BY <1>5, Threads DEF Refresh, Unanswered, Exchange, Fails, SaveErrorIgnored
  <2>4. \/ pc' = [pc EXCEPT ![p] = "off"] /\ UNCHANGED out
        \/ /\ pc' = [pc EXCEPT ![p] = "overlay"]
           /\ out'[p].id = out[p].id /\ \A q \in Procs \ {p} : out'[q] = out[q]
    <3>1. ~Fault("blank")
          BY DEF Undisturbed, Fault
    <3> QED BY <1>5, <2>3, <3>1, CallerFails DEF Refresh, Unanswered, Exchange, TypeOK
  <2>5. \A q \in Procs \ {p} : pc'[q] = pc[q] /\ out'[q] = out[q]
        BY <2>4 DEF TypeOK
  <2>6. out'[p].id = out[p].id
        BY <2>4
  <2> QED BY <2>1, <2>2, <2>3, <2>5, <2>6, Threads DEF DecidingInv, Saving
<1>6. ASSUME NEW p \in Procs, Overlay(p) PROVE Undisturbed' => DecidingInv'
  <2> SUFFICES ASSUME Undisturbed' PROVE DecidingInv'
      OBVIOUS
  <2>1. SaveInv /\ DecidingInv /\ config.remote
        BY <1>6 DEF Overlay, Undisturbed
  <2>2. (HasIdentity' <=> HasIdentity) /\ Loaded' = Loaded
        BY <1>6, SameFile DEF Overlay, disk
  <2>3. pc[p] = "overlay" /\ UNCHANGED resolved
        BY <1>6 DEF Overlay
  <2>4. Readable /\ Loaded \in Maps
        BY <2>1, Base DEF SaveInv, File, Readable
  <2>5. /\ pc' = [pc EXCEPT ![p] = "open"] /\ out' = [out EXCEPT ![p] = Overlaid(p)]
        /\ UNCHANGED mem
        BY <1>6, <2>4 DEF Overlay
  <2>6. CASE p = Main
    <3>1. Overlaid(p).id = out[p].id
          BY <2>1, <2>3, <2>6 DEF Overlaid, DecidingInv
    <3> QED BY <2>1, <2>2, <2>3, <2>5, <2>6, <3>1, Threads DEF DecidingInv, Saving, TypeOK
  <2>7. CASE p # Main
    <3>1. Overlaid(p).id = Loaded.id
          BY <2>4, <2>7 DEF Overlaid, Maps
    <3> QED BY <2>1, <2>2, <2>3, <2>5, <2>7, <3>1, Threads DEF DecidingInv, Saving, TypeOK
  <2> QED BY <2>6, <2>7
<1>7. ASSUME NEW p \in Procs, OpenTmp(p) PROVE Undisturbed' => DecidingInv'
  <2> SUFFICES ASSUME Undisturbed' PROVE DecidingInv'
      OBVIOUS
  <2>1. SaveInv /\ DecidingInv /\ config.remote
        BY <1>7 DEF OpenTmp, Truncated, Fault, Undisturbed
  <2>2. /\ pc[p] = "open" /\ pc' = [pc EXCEPT ![p] = "write"]
        /\ data' = [data EXCEPT ![IF tmp = NoFile THEN FreeInode ELSE tmp] = Empty]
        /\ UNCHANGED <<path, out, mem, resolved>>
        BY <1>7 DEF OpenTmp, Truncated, Fault, Undisturbed
  <2>3. (IF tmp = NoFile THEN FreeInode ELSE tmp) # path \/ path = NoFile
        BY <2>1, InodeLeft DEF SaveInv
  <2>4. (HasIdentity' <=> HasIdentity) /\ Loaded' = Loaded
        BY <2>2, <2>3, SameFile DEF TypeOK
  <2> QED BY <2>1, <2>2, <2>4, Threads DEF DecidingInv, Saving, TypeOK
<1>8. ASSUME NEW p \in Procs, WriteTmp(p) PROVE Undisturbed' => DecidingInv'
  <2> SUFFICES ASSUME Undisturbed' PROVE DecidingInv'
      OBVIOUS
  <2>1. SaveInv /\ DecidingInv /\ config.remote
        BY <1>8 DEF WriteTmp, Fault, Undisturbed
  <2>2. /\ pc[p] = "write" /\ pc' = [pc EXCEPT ![p] = "sync"]
        /\ \E c : data' = [data EXCEPT ![fd[p]] = c]
        /\ UNCHANGED <<path, out, mem, resolved>>
        BY <1>8 DEF WriteTmp, Fault, Undisturbed
  <2>3. fd[p] # path \/ path = NoFile
        BY <2>1, <2>2 DEF SaveInv
  <2>4. (HasIdentity' <=> HasIdentity) /\ Loaded' = Loaded
        BY <2>2, <2>3, SameFile DEF TypeOK
  <2> QED BY <2>1, <2>2, <2>4, Threads DEF DecidingInv, Saving, TypeOK
<1>9. ASSUME NEW p \in Procs, SyncTmp(p) PROVE Undisturbed' => DecidingInv'
  <2>1. (HasIdentity' <=> HasIdentity) /\ Loaded' = Loaded
        BY <1>9, SameFile DEF SyncTmp
  <2> QED BY <1>9, <2>1, Threads DEF SyncTmp, RemoveTmp, Fault, Fails, Resolve,
             SaveErrorIgnored,
           DecidingInv, Undisturbed, Saving, TypeOK
<1>10. ASSUME NEW p \in Procs, RenameTmp(p) PROVE Undisturbed' => DecidingInv'
  <2> SUFFICES ASSUME Undisturbed' PROVE DecidingInv'
      OBVIOUS
  <2>1. SaveInv /\ DecidingInv /\ config.remote
        BY <1>10 DEF RenameTmp, Fault, Undisturbed
  <2>2. pc[p] = "rename" /\ tmp # NoFile /\ data[tmp] = out[p] /\ out[p] \in Maps
        BY <1>10, <2>1 DEF RenameTmp, SaveInv, TypeOK
  <2>3. /\ pc' = [pc EXCEPT ![p] = "chmod"] /\ path' = tmp
        /\ UNCHANGED <<data, out, mem, resolved>>
        BY <1>10, <2>2 DEF RenameTmp, Fault, Undisturbed
  <2>4. Loaded' = out[p] /\ (HasIdentity' <=> out[p].id # "")
        BY <2>2, <2>3, Base DEF File, Loaded, Readable, HasIdentity
  <2>5. CASE p = Main
        BY <2>1, <2>2, <2>3, <2>4, <2>5, Threads DEF DecidingInv, Saving, TypeOK
  <2>6. CASE p # Main
    <3>1. HasIdentity /\ Loaded.id = out[p].id /\ out[p].id # ""
          BY <2>1, <2>2, <2>6, Threads DEF DecidingInv, HasIdentity
    <3> QED BY <2>1, <2>2, <2>3, <2>4, <2>6, <3>1, Threads DEF DecidingInv, Saving, TypeOK
  <2> QED BY <2>5, <2>6
<1>11. ASSUME NEW p \in Procs, Chmod(p) PROVE Undisturbed' => DecidingInv'
  <2> SUFFICES ASSUME Undisturbed' PROVE DecidingInv'
      OBVIOUS
  <2>1. SaveInv /\ DecidingInv /\ config.remote
        BY <1>11 DEF Chmod, Fault, Undisturbed
  <2>2. (HasIdentity' <=> HasIdentity) /\ Loaded' = Loaded
        BY <1>11, SameFile DEF Chmod, disk
  <2>3. pc[p] = "chmod" /\ UNCHANGED <<out, resolved>>
        BY <1>11 DEF Chmod
  <2>4. CASE p = Main
    <3>1. \/ pc' = [pc EXCEPT ![Main] = "up"] /\ mem' = out[Main]
          \/ pc' = [pc EXCEPT ![Main] = "failed"]
          BY <1>11, <2>4 DEF Chmod, Succeeds, InMemory, Fails, Resolve
    <3> QED BY <2>1, <2>2, <2>3, <2>4, <3>1, Threads DEF DecidingInv, Saving, TypeOK
  <2>5. CASE p # Main
    <3>1. pc' = [pc EXCEPT ![p] = "off"] /\ mem'.id = mem.id
          BY <1>11, <2>5 DEF Chmod, Succeeds, InMemory, Fails, SaveErrorIgnored, TypeOK,
             Maps
    <3> QED BY <2>1, <2>2, <2>3, <2>5, <3>1, Threads DEF DecidingInv, Saving, TypeOK
  <2> QED BY <2>4, <2>5
<1>12. ASSUME WriteBack PROVE Undisturbed' => DecidingInv'
      BY <1>12, Base, Threads DEF WriteBack, TypeOK, SaveInv, DecidingInv, Undisturbed,
         Saving, HasIdentity, Readable, Loaded, File, disk, Procs, Maps
<1>13. ASSUME Exit PROVE Undisturbed' => DecidingInv'
      BY <1>13, Base, Threads DEF Exit, Down, TypeOK, SaveInv, DecidingInv, Undisturbed,
         Saving, HasIdentity, Readable, Loaded, File, disk, Procs, Maps
<1>14. ASSUME PowerLoss PROVE Undisturbed' => DecidingInv'
      BY <1>14, Base, Threads DEF PowerLoss, Down, Fault, Survivors, TypeOK, SaveInv,
         DecidingInv, Undisturbed, Saving, HasIdentity, Readable, Loaded, File, disk,
         Procs, Maps
<1>15. ASSUME Restart PROVE Undisturbed' => DecidingInv'
  <2>1. (HasIdentity' <=> HasIdentity) /\ Loaded' = Loaded
        BY <1>15, SameFile DEF Restart, disk
  <2> QED BY <1>15, <2>1, Threads DEF Restart, DecidingInv, Undisturbed, Saving, TypeOK
<1> QED BY <1>1, <1>2, <1>3, <1>4, <1>5, <1>6, <1>7, <1>8, <1>9, <1>10, <1>11, <1>12, <1>13, <1>14, <1>15 DEF
   Next, Save

(* No step wastes the token but a cut or a fault. *)
LEMMA NextTokens ==
  ASSUME TypeOK, ~overlap => SaveInv, Undisturbed => DecidingInv, Uncut => TokenInv, Next
  PROVE  Uncut' => TokenInv'
<1>1. ASSUME ResolveLocal PROVE Uncut' => TokenInv'
  <2>1. (HasIdentity' <=> HasIdentity)
        BY <1>1, SameFile DEF ResolveLocal, disk
  <2> QED BY <1>1, <2>1, Threads DEF ResolveLocal, Fails, Resolve, TokenInv, Uncut, TypeOK
<1>2. ASSUME LoadIdentity PROVE Uncut' => TokenInv'
  <2>1. (HasIdentity' <=> HasIdentity)
        BY <1>2, SameFile DEF LoadIdentity, disk
  <2> QED BY <1>2, <2>1, Threads DEF LoadIdentity, UsePersisted, Resolve, Fails,
             SaveErrorIgnored, TokenInv, Uncut, TypeOK
<1>3. ASSUME Register PROVE Uncut' => TokenInv'
  <2> SUFFICES ASSUME Uncut' PROVE TokenInv'
      OBVIOUS
  <2>1. SaveInv /\ TokenInv
        BY <1>3 DEF Register, Unanswered, Exchange, Fault, Uncut
  <2>2. (HasIdentity' <=> HasIdentity)
        BY <1>3, SameFile DEF Register, disk
  <2>3. ~Fault("blank") /\ ~Fault("reply")
        BY DEF Uncut, Fault
  <2>4. pc[Main] = "register" /\ config.remote /\ UNCHANGED config
        BY <1>3, <2>1 DEF Register, TokenInv
  <2>5. CASE server.used
    <3>1. HasIdentity
          BY <2>1, <2>4, <2>5 DEF TokenInv
    <3> QED BY <2>2, <2>4, <3>1 DEF TokenInv
  <2>6. CASE ~server.used
    <3>1. pc' = [pc EXCEPT ![Main] = "overlay"]
          BY <1>3, <2>3, <2>6 DEF Register, Unanswered, Exchange
    <3> QED BY <2>4, <3>1, Threads DEF TokenInv, TypeOK
  <2> QED BY <2>5, <2>6
<1>4. ASSUME NEW p \in Callers, RefreshBegin(p) PROVE Uncut' => TokenInv'
  <2>1. (HasIdentity' <=> HasIdentity)
        BY <1>4, SameFile DEF RefreshBegin, disk
  <2> QED BY <1>4, <2>1, Threads DEF RefreshBegin, TokenInv, Uncut, TypeOK
<1>5. ASSUME NEW p \in Callers, Refresh(p) PROVE Uncut' => TokenInv'
  <2>1. (HasIdentity' <=> HasIdentity)
        BY <1>5, SameFile DEF Refresh, disk
  <2> QED BY <1>5, <2>1, Threads DEF Refresh, Unanswered, Exchange, Fault, Fails,
             SaveErrorIgnored, TokenInv, Uncut, TypeOK
<1>6. ASSUME NEW p \in Procs, Overlay(p) PROVE Uncut' => TokenInv'
  <2> SUFFICES ASSUME Uncut' PROVE TokenInv'
      OBVIOUS
  <2>1. SaveInv /\ TokenInv
        BY <1>6 DEF Overlay, Fault, Uncut
  <2>2. (HasIdentity' <=> HasIdentity)
        BY <1>6, SameFile DEF Overlay, disk
  <2>3. Readable
        BY <2>1, Base DEF SaveInv, File, Readable
  <2> QED BY <1>6, <2>1, <2>2, <2>3, Threads DEF Overlay, TokenInv, TypeOK
<1>7. ASSUME NEW p \in Procs, OpenTmp(p) PROVE Uncut' => TokenInv'
  <2> SUFFICES ASSUME Uncut' PROVE TokenInv'
      OBVIOUS
  <2>1. SaveInv /\ TokenInv
        BY <1>7 DEF OpenTmp, Truncated, Fault, Uncut
  <2>2. /\ pc[p] = "open" /\ pc' = [pc EXCEPT ![p] = "write"]
        /\ data' = [data EXCEPT ![IF tmp = NoFile THEN FreeInode ELSE tmp] = Empty]
        /\ UNCHANGED <<path, out, mem, resolved>>
        BY <1>7 DEF OpenTmp, Truncated, Fault, Uncut
  <2>3. (IF tmp = NoFile THEN FreeInode ELSE tmp) # path \/ path = NoFile
        BY <2>1, InodeLeft DEF SaveInv
  <2>4. (HasIdentity' <=> HasIdentity) /\ Loaded' = Loaded
        BY <2>2, <2>3, SameFile DEF TypeOK
  <2> QED BY <1>7, <2>1, <2>2, <2>4, Threads DEF OpenTmp, Truncated, TokenInv, TypeOK
<1>8. ASSUME NEW p \in Procs, WriteTmp(p) PROVE Uncut' => TokenInv'
  <2> SUFFICES ASSUME Uncut' PROVE TokenInv'
      OBVIOUS
  <2>1. SaveInv /\ TokenInv
        BY <1>8 DEF WriteTmp, Fault, Uncut
  <2>2. /\ pc[p] = "write" /\ pc' = [pc EXCEPT ![p] = "sync"]
        /\ \E c : data' = [data EXCEPT ![fd[p]] = c]
        /\ UNCHANGED <<path, out, mem, resolved>>
        BY <1>8 DEF WriteTmp, Fault, Uncut
  <2>3. fd[p] # path \/ path = NoFile
        BY <2>1, <2>2 DEF SaveInv
  <2>4. (HasIdentity' <=> HasIdentity) /\ Loaded' = Loaded
        BY <2>2, <2>3, SameFile DEF TypeOK
  <2> QED BY <1>8, <2>1, <2>2, <2>4, Threads DEF WriteTmp, TokenInv, TypeOK
<1>9. ASSUME NEW p \in Procs, SyncTmp(p) PROVE Uncut' => TokenInv'
  <2>1. (HasIdentity' <=> HasIdentity)
        BY <1>9, SameFile DEF SyncTmp
  <2> QED BY <1>9, <2>1, Threads DEF SyncTmp, RemoveTmp, Fault, TokenInv, Uncut, TypeOK
<1>10. ASSUME NEW p \in Procs, RenameTmp(p) PROVE Uncut' => TokenInv'
  <2> SUFFICES ASSUME Uncut' PROVE TokenInv'
      OBVIOUS
  <2>1. SaveInv /\ TokenInv
        BY <1>10 DEF RenameTmp, Fault, Uncut
  <2>2. pc[p] = "rename" /\ tmp # NoFile /\ data[tmp] = out[p] /\ out[p] \in Maps
        BY <1>10, <2>1 DEF RenameTmp, SaveInv, TypeOK
  <2>3. /\ pc' = [pc EXCEPT ![p] = "chmod"] /\ path' = tmp
        /\ UNCHANGED <<data, out, mem, resolved>>
        BY <1>10, <2>2 DEF RenameTmp, Fault, Uncut
  <2>4. Loaded' = out[p] /\ (HasIdentity' <=> out[p].id # "")
        BY <2>2, <2>3, Base DEF File, Loaded, Readable, HasIdentity
  <2>5. server.used => Undisturbed /\ DecidingInv
        BY <1>10, <2>1 DEF RenameTmp, Fault, Uncut, TokenInv, Undisturbed
  <2>6. CASE p = Main
        BY <1>10, <2>1, <2>2, <2>3, <2>4, <2>5, <2>6, Threads
           DEF RenameTmp, DecidingInv, Saving, TokenInv, TypeOK
  <2>7. CASE p # Main
    <3>1. server.used => out[p].id # ""
          BY <2>2, <2>5, <2>7, Threads DEF DecidingInv, HasIdentity
    <3> QED BY <1>10, <2>1, <2>3, <2>4, <2>7, <3>1, Threads DEF RenameTmp, TokenInv, TypeOK
  <2> QED BY <2>6, <2>7
<1>11. ASSUME NEW p \in Procs, Chmod(p) PROVE Uncut' => TokenInv'
  <2> SUFFICES ASSUME Uncut' PROVE TokenInv'
      OBVIOUS
  <2>1. SaveInv /\ TokenInv
        BY <1>11 DEF Chmod, Fault, Uncut
  <2>2. (HasIdentity' <=> HasIdentity)
        BY <1>11, SameFile DEF Chmod, disk
  <2>3. pc[p] = "chmod" /\ UNCHANGED <<server, config>>
        BY <1>11 DEF Chmod
  <2>4. PICK s \in {"up", "failed", "off"} : pc' = [pc EXCEPT ![p] = s]
        BY <1>11, FailsPlace DEF Chmod, Succeeds
  <2> QED BY <2>1, <2>2, <2>3, <2>4, Threads DEF TokenInv, TypeOK
<1>12. ASSUME WriteBack PROVE Uncut' => TokenInv'
  <2>1. (HasIdentity' <=> HasIdentity)
        BY <1>12, SameFile DEF WriteBack
  <2> QED BY <1>12, <2>1, Threads DEF WriteBack, TokenInv, Uncut, TypeOK
<1>13. ASSUME Exit PROVE Uncut' => TokenInv'
  <2>1. (HasIdentity' <=> HasIdentity)
        BY <1>13, SameFile DEF Exit, disk
  <2> QED BY <1>13, <2>1, Threads DEF Exit, Down, InWindow, TokenInv, Uncut, TypeOK
<1>14. ASSUME PowerLoss PROVE Uncut' => TokenInv'
      BY <1>14 DEF PowerLoss, Fault, Uncut
<1>15. ASSUME Restart PROVE Uncut' => TokenInv'
  <2>1. (HasIdentity' <=> HasIdentity)
        BY <1>15, SameFile DEF Restart, disk
  <2> QED BY <1>15, <2>1, Threads DEF Restart, TokenInv, Uncut, TypeOK
<1> QED BY <1>1, <1>2, <1>3, <1>4, <1>5, <1>6, <1>7, <1>8, <1>9, <1>10, <1>11, <1>12, <1>13, <1>14, <1>15 DEF
   Next, Save

(* Faults, overlaps and cuts are never forgotten, and the mode stays.      *)
LEMMA StillUncut ==
  ASSUME Next, config.remote', Uncut', config \in Configs
  PROVE  config.remote /\ Uncut
<1>1. CASE ResolveLocal \/ LoadIdentity \/ WriteBack
      BY <1>1 DEF ResolveLocal, LoadIdentity, WriteBack, Uncut
<1>2. CASE Register
      BY <1>2 DEF Register, Unanswered, Exchange, Fault, Uncut
<1>3. ASSUME NEW p \in Callers, RefreshBegin(p) PROVE config.remote /\ Uncut
      BY <1>3 DEF RefreshBegin, Uncut
<1>4. ASSUME NEW p \in Callers, Refresh(p) PROVE config.remote /\ Uncut
  <2>1. UNCHANGED <<config, cut, overlap>>
        BY <1>4 DEF Refresh
  <2>2. faults \subseteq faults'
        BY <1>4 DEF Refresh, Unanswered, Exchange, Fault
  <2> QED BY <2>1, <2>2 DEF Uncut
<1>5. ASSUME NEW p \in Procs, Overlay(p) PROVE config.remote /\ Uncut
      BY <1>5 DEF Overlay, Uncut
<1>6. ASSUME NEW p \in Procs, OpenTmp(p) PROVE config.remote /\ Uncut
  <2>1. UNCHANGED <<config, cut>> /\ (overlap => overlap')
        BY <1>6 DEF OpenTmp, Truncated
  <2>2. faults \subseteq faults'
        BY <1>6 DEF OpenTmp, Truncated, Fault
  <2> QED BY <2>1, <2>2 DEF Uncut
<1>7. ASSUME NEW p \in Procs, WriteTmp(p) PROVE config.remote /\ Uncut
  <2>1. UNCHANGED <<config, cut, overlap>> /\ faults \subseteq faults'
        BY <1>7 DEF WriteTmp, Fault
  <2> QED BY <2>1 DEF Uncut
<1>8. ASSUME NEW p \in Procs, SyncTmp(p) PROVE config.remote /\ Uncut
  <2>1. UNCHANGED <<config, cut, overlap>> /\ faults \subseteq faults'
        BY <1>8 DEF SyncTmp, Fault
  <2> QED BY <2>1 DEF Uncut
<1>9. ASSUME NEW p \in Procs, RenameTmp(p) PROVE config.remote /\ Uncut
  <2>1. UNCHANGED <<config, cut, overlap>> /\ faults \subseteq faults'
        BY <1>9 DEF RenameTmp, Fault
  <2> QED BY <2>1 DEF Uncut
<1>10. ASSUME NEW p \in Procs, Chmod(p) PROVE config.remote /\ Uncut
  <2>1. UNCHANGED <<config, cut, overlap>> /\ faults \subseteq faults'
        BY <1>10 DEF Chmod, Fault
  <2> QED BY <2>1 DEF Uncut
<1>11. CASE Exit \/ PowerLoss
  <2>1. UNCHANGED <<config, overlap>>
        BY <1>11 DEF Exit, PowerLoss, Down
  <2>2. faults \subseteq faults'
        BY <1>11 DEF Exit, PowerLoss, Fault
  <2>3. CASE Exit
        BY <2>1, <2>2, <2>3 DEF Exit, Uncut
  <2>4. CASE PowerLoss
        BY <2>1, <2>2, <2>4 DEF PowerLoss, Uncut
  <2> QED BY <1>11, <2>3, <2>4
<1>12. CASE Restart
      BY <1>12 DEF Restart, Uncut
<1> QED BY <1>1, <1>2, <1>3, <1>4, <1>5, <1>6, <1>7, <1>8, <1>9, <1>10, <1>11, <1>12 DEF Next, Save

(* One thread moves within the window, after its OpenTmp.                  *)
LEMMA WindowMoves ==
  ASSUME TypeOK, CredInv, NEW p \in Procs, pc[p] \in {"write", "sync"},
         NEW s \in {"sync", "rename"}, pc' = [pc EXCEPT ![p] = s],
         UNCHANGED <<out, mem, server, faults>>, HasIdentity' <=> HasIdentity, Loaded' = Loaded
  PROVE  CredInv'
<1>1. /\ pc'[p] = s /\ \A q \in Procs \ {p} : pc'[q] = pc[q]
      /\ Main \in Procs /\ Callers \subseteq Procs
      BY Threads DEF TypeOK
<1>2. /\ \A q \in Procs : InWindow(q)' <=> InWindow(q)
      /\ \A q \in Procs : pc'[q] \in {"overlay", "open"} <=> pc[q] \in {"overlay", "open"}
      /\ \A q \in Procs : pc'[q] = "chmod" <=> pc[q] = "chmod"
      /\ \A q \in Procs : pc'[q] = "up" <=> pc[q] = "up"
      BY <1>1 DEF InWindow
<1>3. \A q \in Procs : Latest(q)' <=> Latest(q)
      BY DEF Latest
<1> QED BY <1>1, <1>2, <1>3 DEF CredInv

(* No step loses the credential that is valid but a cut, a fault or an     *)
(* overlap.                                                                *)
LEMMA NextCredentials ==
  ASSUME TypeOK, ~overlap => SaveInv, Undisturbed => DecidingInv,
         config.remote /\ Uncut => CredInv, Next, config.remote', Uncut'
  PROVE  CredInv'
<1> DEFINE s == server.cred
<1>1. config.remote /\ Uncut
      BY StillUncut DEF TypeOK
<1>2. SaveInv /\ DecidingInv /\ CredInv
      BY <1>1 DEF Uncut, Undisturbed
<1>3. Readable /\ Loaded \in Maps /\ Loaded.cred \in Nat /\ s \in Nat
  <2>1. Readable /\ Loaded \in Maps
        BY <1>2, Base DEF SaveInv, File, Readable
  <2>2. s \in 0 .. MaxCred
        BY DEF TypeOK
  <2>3. Loaded.cred \in 0 .. MaxCred
        BY <2>1, MapTypes
  <2> QED BY <2>1, <2>2, <2>3, IdentityAssumption
<1>4. /\ \A p \in Procs : out[p] \in Maps /\ out[p].cred \in Nat
      /\ Main \in Procs /\ Callers \subseteq Procs /\ Main \notin Callers
  <2>1. \A p \in Procs : out[p] \in Maps
        BY DEF TypeOK
  <2>2. \A p \in Procs : out[p].cred \in 0 .. MaxCred
        BY <2>1, MapTypes
  <2> QED BY <2>1, <2>2, Threads, IdentityAssumption
<1>5. /\ ~Fault("blank") /\ ~Fault("reply") /\ ~Fault("open") /\ ~Fault("write") /\ ~Fault("sync")
      /\ ~Fault("rename") /\ ~Fault("power")
      BY DEF Uncut, Fault
<1>6. CASE LoadIdentity
  <2>1. (HasIdentity' <=> HasIdentity) /\ Loaded' = Loaded
        BY <1>6, SameFile DEF LoadIdentity, disk
  <2>2. /\ pc[Main] = "load" /\ UNCHANGED <<server, faults>>
        /\ \/ pc' = [pc EXCEPT ![Main] = "up"] /\ mem' = Loaded /\ UNCHANGED out
           \/ /\ pc' = [pc EXCEPT ![Main] = "overlay"] /\ ~HasIdentity
              /\ out' = [out EXCEPT ![Main] = [id |-> "preset", cred |-> 0]] /\ UNCHANGED mem
           \/ /\ \E x \in {"register", "failed"} : pc' = [pc EXCEPT ![Main] = x]
              /\ UNCHANGED <<out, mem>>
        BY <1>3, <1>6 DEF LoadIdentity, UsePersisted, Resolve
  <2>3. \A q \in Callers : pc'[q] = pc[q] /\ out'[q] = out[q]
        BY <1>4, <2>2 DEF TypeOK
  <2>4. \A q \in Callers : (InWindow(q)' <=> InWindow(q)) /\ (Latest(q)' <=> Latest(q))
        BY <2>2, <2>3 DEF InWindow, Latest
  <2>5. CASE pc' = [pc EXCEPT ![Main] = "up"] /\ mem' = Loaded /\ UNCHANGED out
    <3>1. pc'[Main] = "up" /\ ~InWindow(Main)' /\ ~InWindow(Main)
          BY <1>4, <2>2, <2>5 DEF TypeOK, InWindow
    <3> QED BY <1>2, <1>4, <2>1, <2>2, <2>3, <2>4, <2>5, <3>1, Threads DEF CredInv
  <2>6. CASE /\ pc' = [pc EXCEPT ![Main] = "overlay"] /\ ~HasIdentity
             /\ out' = [out EXCEPT ![Main] = [id |-> "preset", cred |-> 0]] /\ UNCHANGED mem
    <3>1. pc'[Main] = "overlay" /\ InWindow(Main)' /\ ~InWindow(Main) /\ out'[Main].cred = 0
          BY <1>4, <2>2, <2>6 DEF TypeOK, InWindow
    <3>2. s = 0
          BY <1>2, <1>3, <2>6, <3>1 DEF CredInv
    <3>3. Latest(Main)'
          BY <2>2, <3>1, <3>2 DEF Latest
    <3> QED BY <1>2, <1>3, <1>4, <2>1, <2>2, <2>3, <2>4, <3>1, <3>2, <3>3, Threads DEF CredInv
  <2>7. CASE /\ \E x \in {"register", "failed"} : pc' = [pc EXCEPT ![Main] = x]
             /\ UNCHANGED <<out, mem>>
    <3>1. pc'[Main] \in {"register", "failed"} /\ ~InWindow(Main)' /\ ~InWindow(Main)
          BY <1>4, <2>2, <2>7 DEF TypeOK, InWindow
    <3> QED BY <1>2, <1>4, <2>1, <2>2, <2>3, <2>4, <2>7, <3>1, Threads DEF CredInv
  <2> QED BY <2>2, <2>5, <2>6, <2>7
<1>7. CASE Register
  <2>1. (HasIdentity' <=> HasIdentity) /\ Loaded' = Loaded
        BY <1>7, SameFile DEF Register, disk
  <2>2. CASE Fails(Main) /\ UNCHANGED <<server, out, faults>>
    <3>1. pc' = [pc EXCEPT ![Main] = "failed"] /\ UNCHANGED <<mem, out, server, faults>>
          BY <1>7, <2>2, StartFails DEF Register
    <3>2. /\ pc[Main] = "register" /\ pc'[Main] = "failed"
          /\ \A q \in Callers : pc'[q] = pc[q]
          BY <1>4, <1>7, <3>1 DEF Register, TypeOK
    <3>3. \A q \in Procs : (InWindow(q)' <=> InWindow(q)) /\ (Latest(q)' <=> Latest(q))
          BY <3>1, <3>2, Threads DEF InWindow, Latest
    <3> QED BY <1>2, <1>4, <2>1, <3>1, <3>2, <3>3, Threads DEF CredInv
  <2>3. CASE /\ server' = [used |-> TRUE, cred |-> s + 1]
             /\ Exchange(Main, s + 1, "issued")
    <3>1. /\ server' = [used |-> TRUE, cred |-> s + 1] /\ UNCHANGED <<faults, mem>>
          /\ pc' = [pc EXCEPT ![Main] = "overlay"]
          /\ out' = [out EXCEPT ![Main] = [id |-> "issued", cred |-> s + 1]]
          BY <1>5, <2>3 DEF Exchange
    <3>2. /\ server'.cred = s + 1 /\ pc'[Main] = "overlay" /\ out'[Main].cred = s + 1
          /\ \A q \in Callers : pc'[q] = pc[q] /\ out'[q] = out[q]
          BY <1>4, <3>1 DEF TypeOK
    <3>3. InWindow(Main)' /\ Latest(Main)'
          BY <3>2 DEF InWindow, Latest
    <3> QED BY <1>2, <1>3, <1>4, <2>1, <3>1, <3>2, <3>3, Threads DEF CredInv
  <2> QED BY <1>5, <1>7, <2>2, <2>3 DEF Register, Unanswered
<1>8. ASSUME NEW p \in Callers, RefreshBegin(p) PROVE CredInv'
  <2>1. (HasIdentity' <=> HasIdentity) /\ Loaded' = Loaded
        BY <1>8, SameFile DEF RefreshBegin, disk
  <2>2. /\ pc[p] = "off" /\ pc' = [pc EXCEPT ![p] = "refresh"]
        /\ out' = [out EXCEPT ![p] = Loaded] /\ UNCHANGED <<mem, server, faults>>
        BY <1>8 DEF RefreshBegin
  <2>3. /\ pc'[p] = "refresh" /\ out'[p] = Loaded /\ p \in Procs /\ p # Main
        /\ \A q \in Procs \ {p} : pc'[q] = pc[q] /\ out'[q] = out[q]
        BY <1>4, <2>2 DEF TypeOK
  <2>4. /\ ~InWindow(p) /\ ~InWindow(p)'
        /\ \A q \in Procs \ {p} : (InWindow(q)' <=> InWindow(q)) /\ (Latest(q)' <=> Latest(q))
        BY <2>2, <2>3 DEF InWindow, Latest
  <2> QED BY <1>2, <1>4, <2>1, <2>2, <2>3, <2>4 DEF CredInv
<1>9. ASSUME NEW p \in Callers, Refresh(p) PROVE CredInv'
  <2>1. (HasIdentity' <=> HasIdentity) /\ Loaded' = Loaded
        BY <1>9, SameFile DEF Refresh, disk
  <2>2. /\ pc[p] = "refresh" /\ pc' = [pc EXCEPT ![p] = "overlay"]
        /\ server' = [server EXCEPT !.cred = s + 1] /\ UNCHANGED <<mem, faults>>
        /\ out' = [out EXCEPT ![p] = [id |-> out[p].id, cred |-> s + 1]]
        BY <1>5, <1>9 DEF Refresh, Unanswered, Exchange
  <2>3. /\ pc'[p] = "overlay" /\ out'[p].cred = s + 1 /\ server'.cred = s + 1
        /\ p \in Procs /\ p # Main
        /\ \A q \in Procs \ {p} : pc'[q] = pc[q] /\ out'[q] = out[q]
        BY <1>4, <2>2 DEF TypeOK
  <2>4. InWindow(p)' /\ Latest(p)' /\ HasIdentity
        BY <1>2, <2>2, <2>3 DEF InWindow, Latest, DecidingInv
  <2> QED BY <1>2, <1>3, <1>4, <2>1, <2>2, <2>3, <2>4 DEF CredInv
<1>10. ASSUME NEW p \in Procs, Overlay(p) PROVE CredInv'
  <2>1. (HasIdentity' <=> HasIdentity) /\ Loaded' = Loaded
        BY <1>10, SameFile DEF Overlay, disk
  <2>2. /\ pc[p] = "overlay" /\ pc' = [pc EXCEPT ![p] = "open"]
        /\ out' = [out EXCEPT ![p] = Overlaid(p)] /\ UNCHANGED <<mem, server, faults>>
        BY <1>3, <1>10 DEF Overlay
  <2>3. /\ pc'[p] = "open" /\ out'[p] = Overlaid(p)
        /\ \A q \in Procs \ {p} : pc'[q] = pc[q] /\ out'[q] = out[q]
        BY <1>4, <2>2 DEF TypeOK
  <2>4. Overlaid(p).cred = out[p].cred
    <3>1. CASE p # Main
          BY <1>3, <3>1 DEF Overlaid, Maps
    <3>2. CASE p = Main /\ out[p].cred # 0
          BY <3>2 DEF Overlaid
    <3>3. CASE p = Main /\ out[p].cred = 0
      <4>1. \A q \in Callers : pc[q] = "off"
            BY <1>2, <2>2, <3>3 DEF DecidingInv
      <4>2. Latest(Main)
            BY <1>2, <1>4, <2>2, <3>3, <4>1, Threads DEF CredInv, InWindow
      <4>3. Loaded.cred = 0
            BY <1>2, <1>3, <3>3, <4>2 DEF CredInv, Latest
      <4> QED BY <3>3, <4>3 DEF Overlaid
    <3> QED BY <3>1, <3>2, <3>3
  <2>5. /\ \A q \in Procs : (InWindow(q)' <=> InWindow(q)) /\ (Latest(q)' <=> Latest(q))
        /\ \A q \in Procs : out'[q].cred = out[q].cred
        BY <2>2, <2>3, <2>4 DEF InWindow, Latest
  <2>6. \A q \in Procs : pc'[q] \in {"overlay", "open"} <=> pc[q] \in {"overlay", "open"}
        BY <2>2, <2>3
  <2>7. \A q \in Procs : pc'[q] \in {"chmod", "up"} \/ pc[q] \in {"chmod", "up"} => pc'[q] = pc[q]
        BY <2>2, <2>3
  <2> QED BY <1>2, <1>4, <2>1, <2>2, <2>5, <2>6, <2>7 DEF CredInv
<1>11. ASSUME NEW p \in Procs, OpenTmp(p) PROVE CredInv'
  <2>1. /\ pc[p] = "open" /\ pc' = [pc EXCEPT ![p] = "write"]
        /\ data' = [data EXCEPT ![IF tmp = NoFile THEN FreeInode ELSE tmp] = Empty]
        /\ UNCHANGED <<path, out, mem, server, faults>>
        BY <1>5, <1>11 DEF OpenTmp, Truncated
  <2>2. (IF tmp = NoFile THEN FreeInode ELSE tmp) # path \/ path = NoFile
        BY <1>2, InodeLeft DEF SaveInv
  <2>3. (HasIdentity' <=> HasIdentity) /\ Loaded' = Loaded
        BY <2>1, <2>2, SameFile DEF TypeOK
  <2>4. pc'[p] = "write" /\ \A q \in Procs \ {p} : pc'[q] = pc[q]
        BY <2>1 DEF TypeOK
  <2>5. \A q \in Procs \ {p} : pc[q] \notin {"overlay", "open"} /\ ~Saving(q)
        BY <1>11 DEF OpenTmp, Truncated, Uncut
  <2>6. \A q \in Procs \ {p} : ~InWindow(q) /\ ~InWindow(q)' /\ pc[q] # "chmod"
        BY <2>4, <2>5 DEF InWindow, Saving
  <2>7. Latest(p) /\ Latest(p)' /\ InWindow(p)' /\ InWindow(p)
    <3>1. InWindow(p) /\ InWindow(p)'
          BY <2>1, <2>4 DEF InWindow
    <3>2. Latest(p)
          BY <1>2, <2>5, <3>1 DEF CredInv
    <3> QED BY <2>1, <3>1, <3>2 DEF Latest
  <2> QED BY <1>2, <1>4, <2>1, <2>3, <2>4, <2>6, <2>7 DEF CredInv
<1>12. ASSUME NEW p \in Procs, WriteTmp(p) PROVE CredInv'
  <2>1. /\ pc[p] = "write" /\ pc' = [pc EXCEPT ![p] = "sync"]
        /\ \E c : data' = [data EXCEPT ![fd[p]] = c]
        /\ UNCHANGED <<path, out, mem, server, faults>>
        BY <1>5, <1>12 DEF WriteTmp
  <2>2. fd[p] # path \/ path = NoFile
        BY <1>2, <2>1 DEF SaveInv
  <2>3. (HasIdentity' <=> HasIdentity) /\ Loaded' = Loaded
        BY <2>1, <2>2, SameFile DEF TypeOK
  <2> QED BY <1>2, <2>1, <2>3, WindowMoves
<1>13. ASSUME NEW p \in Procs, SyncTmp(p) PROVE CredInv'
  <2>1. /\ pc[p] = "sync" /\ pc' = [pc EXCEPT ![p] = "rename"]
        /\ UNCHANGED <<path, data, out, mem, server, faults>>
        BY <1>5, <1>13 DEF SyncTmp
  <2>2. (HasIdentity' <=> HasIdentity) /\ Loaded' = Loaded
        BY <2>1, SameFile
  <2> QED BY <1>2, <2>1, <2>2, WindowMoves
<1>14. ASSUME NEW p \in Procs, RenameTmp(p) PROVE CredInv'
  <2>1. pc[p] = "rename" /\ tmp # NoFile /\ data[tmp] = out[p] /\ out[p] \in Maps
        BY <1>2, <1>4, <1>14 DEF RenameTmp, SaveInv
  <2>2. /\ pc' = [pc EXCEPT ![p] = "chmod"] /\ path' = tmp
        /\ UNCHANGED <<data, out, mem, server, faults>>
        BY <1>5, <1>14, <2>1 DEF RenameTmp
  <2>3. Loaded' = out[p] /\ (HasIdentity' <=> out[p].id # "")
        BY <2>1, <2>2, Base DEF File, Loaded, Readable, HasIdentity
  <2>4. HasIdentity'
    <3>1. CASE p = Main
          BY <1>2, <2>1, <2>3, <3>1 DEF DecidingInv, Saving
    <3>2. CASE p # Main
      <4>1. HasIdentity /\ Loaded.id = out[p].id
            BY <1>2, <2>1, <3>2, Threads DEF DecidingInv
      <4> QED BY <2>3, <4>1 DEF HasIdentity
    <3> QED BY <3>1, <3>2
  <2>5. pc'[p] = "chmod" /\ \A q \in Procs \ {p} : pc'[q] = pc[q]
        BY <2>2 DEF TypeOK
  <2>6. \A q \in Procs \ {p} : pc[q] # "chmod"
        BY <1>2, <2>1 DEF SaveInv, Saving
  <2>7. /\ InWindow(p) /\ ~InWindow(p)' /\ \A q \in Procs : Latest(q)' <=> Latest(q)
        /\ \A q \in Procs \ {p} : InWindow(q)' <=> InWindow(q)
        /\ \A q \in Procs : pc[q] \in {"overlay", "open"} => InWindow(q) /\ q # p
        BY <2>1, <2>2, <2>5 DEF InWindow, Latest
  <2>8. Loaded'.cred = server'.cred \/ \E q \in Procs : InWindow(q)' /\ Latest(q)'
    <3>1. CASE Latest(p)
          BY <2>2, <2>3, <3>1 DEF Latest
    <3>2. CASE ~Latest(p)
      <4>1. PICK q \in Procs \ {p} : pc[q] \in {"overlay", "open"} /\ Latest(q)
            BY <1>2, <2>7, <3>2 DEF CredInv
      <4> QED BY <2>7, <4>1
    <3> QED BY <3>1, <3>2
  <2>9. ASSUME NEW r \in Procs, InWindow(r)', ~Latest(r)'
        PROVE  \E q \in Procs \ {r} : pc'[q] \in {"overlay", "open"} /\ Latest(q)'
    <3>1. InWindow(r) /\ ~Latest(r)
          BY <2>7, <2>9
    <3>2. PICK q \in Procs \ {r} : pc[q] \in {"overlay", "open"} /\ Latest(q)
          BY <1>2, <3>1 DEF CredInv
    <3> QED BY <2>5, <2>7, <3>2
  <2>10. Loaded'.cred <= server'.cred /\ \A q \in Procs : out'[q].cred <= server'.cred
         BY <1>2, <2>2, <2>3 DEF CredInv
  <2>11. \A q \in Procs : pc'[q] = "chmod" => Loaded'.cred = out'[q].cred
         BY <2>2, <2>3, <2>5, <2>6
  <2>12. pc'[Main] = "up" => \E q \in Callers : pc'[q] = "chmod"
         BY <1>4, <2>5, Threads
  <2> QED BY <2>4, <2>8, <2>9, <2>10, <2>11, <2>12 DEF CredInv
<1>15. ASSUME NEW p \in Procs, Chmod(p) PROVE CredInv'
  <2>1. (HasIdentity' <=> HasIdentity) /\ Loaded' = Loaded
        BY <1>15, SameFile DEF Chmod, disk
  <2>2. /\ pc[p] = "chmod" /\ UNCHANGED <<out, server>> /\ faults \subseteq faults'
        /\ \E x \in {"up", "failed", "off"} : pc' = [pc EXCEPT ![p] = x]
        BY <1>15, FailsPlace DEF Chmod, Succeeds, Fault
  <2>3. pc'[p] \in {"up", "failed", "off"} /\ \A q \in Procs \ {p} : pc'[q] = pc[q]
        BY <2>2 DEF TypeOK
  <2>4. /\ \A q \in Procs : (InWindow(q)' <=> InWindow(q)) /\ (Latest(q)' <=> Latest(q))
        /\ \A q \in Procs : pc'[q] \in {"overlay", "open"} <=> pc[q] \in {"overlay", "open"}
        BY <2>2, <2>3 DEF InWindow, Latest
  <2>5. \A q \in Procs : pc'[q] = "chmod" => pc[q] = "chmod"
        BY <2>3
  <2>6. faults' = {} => mem'.cred = Loaded.cred
    <3> SUFFICES ASSUME faults' = {} PROVE mem'.cred = Loaded.cred
        OBVIOUS
    <3>1. mem' = InMemory(p)
          BY <1>15 DEF Chmod, Succeeds, Fault
    <3>2. InMemory(p).cred = out[p].cred
          BY DEF InMemory, TypeOK, Maps
    <3> QED BY <1>2, <2>2, <3>1, <3>2 DEF CredInv
  <2> QED BY <1>2, <1>4, <2>1, <2>2, <2>4, <2>5, <2>6 DEF CredInv
<1>16. CASE WriteBack
  <2>1. (HasIdentity' <=> HasIdentity) /\ Loaded' = Loaded
        BY <1>16, SameFile DEF WriteBack
  <2> QED BY <1>2, <1>16, <2>1 DEF WriteBack, CredInv, InWindow, Latest
<1>17. CASE Exit
  <2>1. (HasIdentity' <=> HasIdentity) /\ Loaded' = Loaded
        BY <1>17, SameFile DEF Exit, disk
  <2>2. \A p \in Procs : ~InWindow(p)
        BY <1>17 DEF Exit, Uncut
  <2>3. Loaded.cred = s /\ (s > 0 => HasIdentity)
        BY <1>2, <1>4, <2>2 DEF CredInv
  <2>4. /\ \A p \in Procs : out'[p].cred = 0 /\ pc'[p] \in {"down", "off"}
        /\ UNCHANGED server
        BY <1>17 DEF Exit, Down, Nobody
  <2>5. \A p \in Procs : ~InWindow(p)'
        BY <2>4 DEF InWindow
  <2> QED BY <1>3, <1>4, <2>1, <2>3, <2>4, <2>5 DEF CredInv
<1>18. CASE Restart
  <2>1. (HasIdentity' <=> HasIdentity) /\ Loaded' = Loaded
        BY <1>18, SameFile DEF Restart, disk
  <2>2. /\ pc[Main] = "down" /\ pc' = [pc EXCEPT ![Main] = "load"]
        /\ UNCHANGED <<out, mem, server, faults>>
        BY <1>18 DEF Restart
  <2>3. pc'[Main] = "load" /\ \A q \in Procs \ {Main} : pc'[q] = pc[q]
        BY <1>4, <2>2 DEF TypeOK
  <2>4. /\ \A q \in Procs : (InWindow(q)' <=> InWindow(q)) /\ (Latest(q)' <=> Latest(q))
        /\ \A q \in Procs : pc'[q] \in {"overlay", "open"} <=> pc[q] \in {"overlay", "open"}
        BY <2>2, <2>3 DEF InWindow, Latest
  <2> QED BY <1>2, <1>4, <2>1, <2>2, <2>3, <2>4 DEF CredInv
<1>19. ~ResolveLocal /\ ~PowerLoss
       BY <1>1, <1>5 DEF ResolveLocal, PowerLoss
<1> QED BY <1>6, <1>7, <1>8, <1>9, <1>10, <1>11, <1>12, <1>13, <1>14, <1>15, <1>16, <1>17, <1>18, <1>19
        DEF Next, Save

-----------------------------------------------------------------------------
LEMMA InitIdentity == Init => IdentityInv
<1> SUFFICES ASSUME Init PROVE IdentityInv
    OBVIOUS
<1>1. Nobody \in Maps /\ Empty \in Content \ {Absent}
      BY Base
<1>2. path \in Inodes \cup {NoFile} /\ tmp \in Inodes \cup {NoFile} /\ synced = {} /\ old = {}
      BY DEF Init
<1>3. data \in [Inodes -> Content \ {Absent}] /\ out \in [Procs -> Maps]
      BY <1>1 DEF Init
<1>4. pc \in [Procs -> Steps] /\ \A p \in Procs : pc[p] \in {"load", "off"}
      BY DEF Init, Steps
<1>5. fd \in [Procs -> Inodes \cup {NoFile}] /\ \A p \in Procs : fd[p] = NoFile
      BY DEF Init
<1>6. mem \in Maps /\ server \in [used : BOOLEAN, cred : 0 .. MaxCred] /\ ~server.used
      BY <1>1, MapTypes DEF Init
<1>7. starts \in 0 .. MaxStarts /\ faults = {} /\ resolved \in Ids
  <2>1. 1 \in 0 .. MaxStarts
        BY IdentityAssumption
  <2> QED BY <2>1, MapTypes DEF Init
<1>8. TypeOK
      BY <1>2, <1>3, <1>4, <1>5, <1>6, <1>7 DEF Init, TypeOK
<1>9. SaveInv
      BY <1>2, <1>4, <1>5 DEF Init, SaveInv, Saving
<1>10. pc[Main] = "load" /\ \A p \in Callers : pc[p] = "off"
       BY Threads DEF Init
<1>11. StoreInv /\ DecidingInv /\ TokenInv
  <2>1. /\ File = Absent /\ (\A c \in old : Named(c)) /\ Named(File)
        /\ \A p \in Procs : Named(out[p])
        BY <1>2 DEF Init, File, Named, Absent, Nobody
  <2>2. StoreInv
        BY <1>10, <2>1 DEF StoreInv
  <2> QED BY <1>6, <1>10, <2>2 DEF Init, DecidingInv, TokenInv, Saving
<1>12. CredInv
  <2>1. /\ Loaded = Nobody /\ server.cred = 0 /\ \A p \in Procs : out[p].cred = 0
        /\ \A p \in Procs : pc[p] \notin {"chmod", "up"} /\ ~InWindow(p)
        BY <1>4 DEF Init, Loaded, File, Nobody, InWindow
  <2>2. Loaded.cred = 0 /\ pc[Main] # "up"
        BY <1>10, <2>1 DEF Nobody
  <2>3. \A p \in Procs : out[p].cred <= server.cred
        BY <2>1
  <2> QED BY <2>1, <2>2, <2>3 DEF CredInv
<1> QED BY <1>8, <1>9, <1>11, <1>12 DEF IdentityInv

LEMMA StutterIdentity == IdentityInv /\ UNCHANGED vars => IdentityInv'
<1> SUFFICES ASSUME IdentityInv, UNCHANGED vars PROVE IdentityInv'
    OBVIOUS
<1>1. TypeOK'
      BY DEF IdentityInv, vars, disk, TypeOK
<1>2. ~overlap' => SaveInv'
      BY DEF IdentityInv, vars, disk, SaveInv, Saving
<1>3. (HasIdentity' <=> HasIdentity) /\ Loaded' = Loaded /\ File' = File
      BY SameFile, FileStays DEF vars, disk
<1>6. ~overlap' => StoreInv'
      BY <1>3 DEF IdentityInv, vars, disk, StoreInv, Named
<1>4. (Undisturbed' => DecidingInv') /\ (Uncut' => TokenInv')
      BY <1>3 DEF IdentityInv, vars, Undisturbed, Uncut, DecidingInv, TokenInv, Saving
<1>5. config.remote' /\ Uncut' => CredInv'
      BY <1>3 DEF IdentityInv, vars, Uncut, CredInv, InWindow, Latest
<1> QED BY <1>1, <1>2, <1>4, <1>5, <1>6 DEF IdentityInv

(* IdentityInv holds throughout, whatever crashes, faults and refreshes    *)
(* come between the file operations of SaveSecrets.                        *)
THEOREM IdentityCorrect == Spec => []IdentityInv
<1>1. IdentityInv /\ [Next]_vars => IdentityInv'
  <2>1. IdentityInv /\ Next => IdentityInv'
        BY NextTypes, NextSaves, NextStores, NextDecides, NextTokens, NextCredentials
           DEF IdentityInv
  <2> QED BY <2>1, StutterIdentity
<1> QED BY InitIdentity, <1>1, PTL DEF Spec

(* secrets/store.go:112: unless two saves overlap, the state file, and all *)
(* that a power loss can leave of it, is a whole map or absent.            *)
THEOREM FileWhole == Spec => []FileIsWhole
<1>1. IdentityInv => FileIsWhole
      BY SurvivorTypes, Base DEF IdentityInv, FileIsWhole
<1> QED BY IdentityCorrect, <1>1, PTL

(* agent.go:403-413: the identity is the same after every restart, with    *)
(* the exceptions the property names.                                      *)
THEOREM IdentityKept == Spec => []IdentityStable
<1>1. IdentityInv => IdentityStable
      BY DEF IdentityInv, IdentityStable, Undisturbed, DecidingInv
<1> QED BY IdentityCorrect, <1>1, PTL

(* The install token is used up without an identity in the file only by a  *)
(* fault or by a crash between the reply and the rename.                   *)
THEOREM TokenKept == Spec => []TokenNotWasted
<1>1. IdentityInv => TokenNotWasted
      BY DEF IdentityInv, TokenNotWasted, Uncut, TokenInv, Deciding
<1> QED BY IdentityCorrect, <1>1, PTL

(* auth.go:60-68: when nobody is in the middle of a refresh, the file holds*)
(* the credential that is valid, and so does the memory, for any number of *)
(* callers and restarts, with the exceptions the property names.           *)
THEOREM CredentialKept == Spec => []CredentialCurrent
<1>1. IdentityInv => CredentialCurrent
  <2> SUFFICES ASSUME IdentityInv, AtRest, config.remote, Uncut
               PROVE  Loaded.cred = server.cred /\ (faults = {} => mem.cred = server.cred)
      BY DEF CredentialCurrent, Uncut
  <2>1. CredInv /\ \A p \in Procs : ~InWindow(p)
        BY Threads DEF IdentityInv, AtRest, InWindow
  <2>2. Loaded.cred = server.cred
        BY <2>1 DEF CredInv
  <2> QED BY <2>1, <2>2 DEF CredInv, AtRest
<1> QED BY IdentityCorrect, <1>1, PTL
-----------------------------------------------------------------------------
(* The state file as a register.  The saves change it at their renames,    *)
(* every other step but those of the kernel and of the power leaves it.    *)
LEMMA SavedAlone ==
  ASSUME TypeOK, SaveInv, StoreInv, NEW p \in Procs, ~overlap, UNCHANGED overlap,
         pc[p] = "rename", tmp # NoFile, path' = tmp, UNCHANGED data,
         old' = old \cup Survivors(path)
  PROVE  \/ \E m \in Maps : Store!SaveIdentity(m)
         \/ \E cred \in 0 .. MaxCred : Store!ReplaceCredential(cred)
<1>1. data[tmp] = out[p] /\ out[p] \in Maps /\ Named(out[p])
      BY DEF SaveInv, StoreInv, TypeOK
<1>2. File' = out[p] /\ Whole(File') = out[p]
      BY <1>1, Base DEF File, Whole
<1>3. Survivors(path) = {File} /\ File \in Maps \cup {Absent}
      BY DEF SaveInv, Survivors, File
<1>4. {Whole(c) : c \in old'} = {Whole(c) : c \in old} \cup {Whole(File)}
      BY <1>3
<1>5. Readable /\ Whole(File) = Loaded /\ Loaded \in Maps
      BY <1>3, Base DEF Readable, Whole, Loaded
<1>6. CASE p = Main
  <2>1. ~HasIdentity /\ Named(File)
        BY <1>6 DEF StoreInv
  <2>2. Loaded.id = "" /\ Loaded.cred = 0
        BY <1>5, <2>1 DEF HasIdentity, Loaded, Named, Nobody
  <2>3. Whole(File) = Store!Blank
        BY <1>5, <2>2 DEF Maps, Store!Blank
  <2>4. Store!SaveIdentity(out[p])
        BY <1>2, <1>4, <2>3 DEF Store!SaveIdentity, Store!Put
  <2> QED BY <1>1, <2>4
<1>7. CASE p # Main
  <2>1. HasIdentity /\ Loaded.id = out[p].id /\ Loaded.id # ""
    <3>1. HasIdentity /\ Loaded.id = out[p].id
          BY <1>7, Threads DEF StoreInv
    <3> QED BY <3>1 DEF HasIdentity
  <2>2. out[p] = [Whole(File) EXCEPT !.cred = out[p].cred]
        BY <1>1, <1>5, <2>1 DEF Maps
  <2>3. out[p].cred \in 0 .. MaxCred
        BY <1>1, MapTypes
  <2>4. Store!ReplaceCredential(out[p].cred)
        BY <1>2, <1>4, <1>5, <2>1, <2>2 DEF Store!ReplaceCredential, Store!Put
  <2> QED BY <2>3, <2>4
<1> QED BY <1>6, <1>7

LEMMA LostAlone ==
  ASSUME TypeOK, SaveInv, ~overlap, PowerLoss
  PROVE  Store!PowerLoss
<1>1. Survivors(path) = {File}
      BY DEF SaveInv, Survivors, File
<1>2. old' = {} /\ UNCHANGED overlap
      BY DEF PowerLoss, Down
<1>3. PICK c \in old \cup {File} :
        IF c = Absent THEN path' = NoFile ELSE path' = 1 /\ data' = [data EXCEPT ![1] = c]
      BY <1>1 DEF PowerLoss
<1>4. File' = c
      BY <1>3, InodeCount DEF File, TypeOK
<1>5. Whole(File') \in {Whole(d) : d \in old} \cup {Whole(File)}
      BY <1>3, <1>4
<1>6. {Whole(d) : d \in old'} = {}
      BY <1>2
<1> QED BY <1>2, <1>5, <1>6 DEF Store!PowerLoss

(* Once two saves have met the register promises nothing but its type.     *)
LEMMA StepsTogether ==
  ASSUME TypeOK', overlap, overlap'
  PROVE  Store!Unspecified
<1>1. \A c \in Content : Whole(c) \in Maps \cup {Torn}
      BY Base DEF Whole
<1>2. Store!Maps = Maps /\ Store!Damaged = Torn
      BY DEF Store!Maps, Maps, Store!Damaged, Torn
<1>3. File' \in Content /\ old' \subseteq Content
      BY Base DEF TypeOK, File
<1>4. Whole(File') \in Maps \cup {Torn}
      BY <1>1, <1>3
<1>5. {Whole(c) : c \in old'} \in SUBSET (Maps \cup {Torn})
      BY <1>1, <1>3
<1> QED BY <1>2, <1>4, <1>5 DEF Store!Unspecified

LEMMA StepsAlone ==
  ASSUME IdentityInv, Next, ~overlap
  PROVE  Store!Next \/ UNCHANGED <<File, old, overlap>>
<1>0. TypeOK /\ SaveInv /\ StoreInv
      BY DEF IdentityInv
<1>1. CASE ResolveLocal \/ LoadIdentity \/ Register \/ Exit \/ Restart
      BY <1>1, FileStays DEF ResolveLocal, LoadIdentity, Register, Exit, Down, Restart, disk
<1>2. ASSUME NEW p \in Callers, RefreshBegin(p) \/ Refresh(p)
      PROVE  UNCHANGED <<File, old, overlap>>
      BY <1>2, FileStays DEF RefreshBegin, Refresh, disk
<1>3. ASSUME NEW p \in Procs, Overlay(p) \/ Chmod(p) \/ SyncTmp(p)
      PROVE  UNCHANGED <<File, old, overlap>>
      BY <1>3, FileStays DEF Overlay, Chmod, SyncTmp, disk
<1>4. ASSUME NEW p \in Procs, OpenTmp(p)
      PROVE  Store!TwoSaves \/ UNCHANGED <<File, old, overlap>>
  <2>1. (IF tmp = NoFile THEN FreeInode ELSE tmp) # path \/ path = NoFile
        BY <1>0, InodeLeft DEF SaveInv
  <2>2. File' = File /\ UNCHANGED old
        BY <1>0, <1>4, <2>1, FileStays DEF OpenTmp, Truncated, disk, TypeOK
  <2>3. overlap' \in BOOLEAN
        BY <1>0, <1>4 DEF OpenTmp, Truncated, TypeOK
  <2>4. Whole(File)' = Whole(File) /\ {Whole(c) : c \in old}' = {Whole(c) : c \in old}
        BY <2>2
  <2>5. CASE overlap' = TRUE
    <3>1. Store!TwoSaves
          BY <2>4, <2>5 DEF Store!TwoSaves
    <3> QED BY <3>1
  <2>6. CASE overlap' = FALSE
        BY <1>0, <2>2, <2>6 DEF TypeOK
  <2> QED BY <2>3, <2>5, <2>6
<1>5. ASSUME NEW p \in Procs, WriteTmp(p)
      PROVE  UNCHANGED <<File, old, overlap>>
  <2>1. fd[p] # path \/ path = NoFile
        BY <1>0, <1>5 DEF SaveInv, WriteTmp
  <2>2. /\ \E c : data' = [data EXCEPT ![fd[p]] = c]
        /\ UNCHANGED <<path, old, overlap>>
        BY <1>5 DEF WriteTmp
  <2> QED BY <1>0, <2>1, <2>2, FileStays DEF TypeOK
<1>6. ASSUME NEW p \in Procs, RenameTmp(p)
      PROVE  Store!Next \/ UNCHANGED <<File, old, overlap>>
  <2>1. CASE UNCHANGED path /\ UNCHANGED old
        BY <1>6, <2>1, FileStays DEF RenameTmp
  <2>2. CASE tmp # NoFile /\ path' = tmp /\ old' = old \cup Survivors(path)
    <3>1. /\ pc[p] = "rename" /\ UNCHANGED <<data, overlap>>
          BY <1>6 DEF RenameTmp
    <3>2. \/ \E m \in Maps : Store!SaveIdentity(m)
          \/ \E cred \in 0 .. MaxCred : Store!ReplaceCredential(cred)
          BY <1>0, <2>2, <3>1, SavedAlone
    <3>3. Maps = Store!Maps
          BY DEF Maps, Store!Maps
    <3> QED BY <3>2, <3>3 DEF Store!Next
  <2> QED BY <1>6, <2>1, <2>2 DEF RenameTmp
<1>7. CASE WriteBack
  <2>1. File' = File /\ old' = {} /\ UNCHANGED overlap
        BY <1>7, FileStays DEF WriteBack
  <2>2. {Whole(c) : c \in old'} = {}
        BY <2>1
  <2>3. Store!WriteBack
        BY <2>1, <2>2 DEF Store!WriteBack
  <2> QED BY <2>3 DEF Store!Next
<1>8. CASE PowerLoss
      BY <1>0, <1>8, LostAlone DEF Store!Next
<1> QED BY <1>1, <1>2, <1>3, <1>4, <1>5, <1>6, <1>7, <1>8 DEF Next, Save, Store!Next

(* secrets/store.go:112, state.go:74, agent.go: unless two saves overlap the*)
(* state file is a register of whole maps, whatever fails at whichever file*)
(* operation: an identity goes in only when there is none, a refresh       *)
(* changes the credential alone, and a power loss brings back an earlier   *)
(* map and nothing else.                                                   *)
THEOREM RegisterImplemented == Spec => ImplementsRegister
<1>1. Init => Store!Init
  <2> SUFFICES ASSUME Init PROVE Store!Init
      OBVIOUS
  <2>1. File = Absent /\ {Whole(c) : c \in old} = {} /\ overlap = FALSE
        BY DEF Init, File
  <2>2. Whole(File) = Store!Blank
        BY <2>1 DEF Whole, Nobody, Store!Blank
  <2> QED BY <2>1, <2>2 DEF Store!Init
<1>2. IdentityInv /\ IdentityInv' /\ [Next]_vars
        => [Store!Next]_<<Whole(File), {Whole(c) : c \in old}, overlap>>
  <2> SUFFICES ASSUME IdentityInv, IdentityInv', [Next]_vars
               PROVE  Store!Next \/ UNCHANGED <<File, old, overlap>>
      OBVIOUS
  <2>1. CASE UNCHANGED vars
        BY <2>1 DEF vars, disk, File
  <2>2. CASE Next /\ ~overlap
        BY <2>2, StepsAlone
  <2>3. CASE Next /\ overlap
    <3>1. overlap'
          BY <2>3 DEF Next, Save, ResolveLocal, LoadIdentity, Register, RefreshBegin, Refresh,
             Overlay, OpenTmp, Truncated, WriteTmp, SyncTmp, RenameTmp, Chmod, WriteBack, Exit, PowerLoss,
             Down, Restart
    <3>2. Store!Unspecified
          BY <2>3, <3>1, StepsTogether DEF IdentityInv
    <3> QED BY <3>2 DEF Store!Next
  <2> QED BY <2>1, <2>2, <2>3
<1> QED BY IdentityCorrect, <1>1, <1>2, PTL DEF Spec, ImplementsRegister, Store!Spec
=============================================================================
