------------------------------ MODULE Identity ------------------------------
(***************************************************************************)
(* How a remote agent comes by its identity and keeps it: resolveIdentity  *)
(* and RefreshCredential of internal/agent, Register and Refresh of        *)
(* internal/auth, and the encrypted file of internal/secrets with the file *)
(* operations SaveSecrets is made of.  The XDR server is external: it      *)
(* takes the install token once and issues credentials, numbered in turn.  *)
(*                                                                         *)
(* The file is POSIX: names point to inodes, O_TRUNC empties the inode     *)
(* another descriptor writes to, rename moves a name.  Empty and Torn are  *)
(* contents that LoadSecrets rejects (header, tag or gob).  The process    *)
(* may crash and the power may fail at every step.  Nothing locks the      *)
(* load-modify-save sequences, so the callers of RefreshCredential run     *)
(* freely beside start, whose thread is Main.                              *)
(*                                                                         *)
(* An unused definition before one with the same parameters is that        *)
(* definition with a slip, for the mutation runs.                          *)
(***************************************************************************)
EXTENDS Integers, FiniteSets

CONSTANTS
  Main, Callers,  \* the thread of start; callers of RefreshCredential
  MaxCred,        \* bound: credentials the server issues
  MaxStarts,      \* bound: starts of the process
  MaxFaults,      \* bound: kinds of fault in one behaviour
  Faults          \* "open" "write" "sync" "rename" "chmod" "reply" "blank" "power"

ASSUME IdentityAssumption ==
  /\ Main \notin Callers /\ IsFiniteSet(Callers)
  /\ MaxCred \in Nat /\ MaxStarts \in Nat \ {0} /\ MaxFaults \in Nat

Procs == {Main} \cup Callers
Inodes == 1 .. Cardinality(Procs) + 2
NoFile == 0
Ids == {"", "preset", "issued", "derived"}
Configs == [remote : BOOLEAN, preset : BOOLEAN, token : BOOLEAN]
Maps == [id : Ids, cred : 0 .. MaxCred]     \* credential 0 is the empty string
Empty == [id |-> "(no bytes)", cred |-> 0]
Torn == [id |-> "(damaged)", cred |-> 0]
Absent == [id |-> "(no file)", cred |-> 0]
Content == Maps \cup {Empty, Torn, Absent}

VARIABLES
  path, tmp,      \* the inodes that agent-state.json and its .tmp name
  data, synced,   \* contents of the inodes; those fsync has returned for
  old,            \* what agent-state.json may hold again after a power loss
  pc, fd, out,    \* each thread: its step, its descriptor, the map it works with
  config,         \* the mode; whether InstanceID and InstallToken are configured
  mem,            \* InstanceID and Credential of the running agent
  server,         \* the token is used; the credential that is valid now
  starts,
  faults,         \* history: kinds of fault that have happened
  cut,            \* history: killed between a reply of the server and the rename
  overlap,        \* history: two saves were under way at the same time
  resolved        \* history: what the last start before this one resolved to

disk == <<path, tmp, data, synced, old>>
vars == <<disk, pc, fd, out, config, mem, server, starts, faults, cut, overlap, resolved>>

Nobody == [id |-> "", cred |-> 0]
Init ==
  /\ path = NoFile /\ tmp = NoFile
  /\ data = [i \in Inodes |-> Empty] /\ synced = {} /\ old = {}
  /\ pc = [p \in Procs |-> IF p = Main THEN "load" ELSE "off"]
  /\ fd = [p \in Procs |-> NoFile] /\ out = [p \in Procs |-> Nobody]
  /\ config \in Configs
  /\ mem = Nobody /\ server = [used |-> FALSE, cred |-> 0]
  /\ starts = 1 /\ faults = {} /\ cut = FALSE /\ overlap = FALSE /\ resolved = ""

-----------------------------------------------------------------------------
(* LoadSecrets, and LoadIdentity on top of it.                             *)
File == IF path = NoFile THEN Absent ELSE data[path]
Readable == File \notin {Empty, Torn}
Loaded == IF File = Absent THEN Nobody ELSE File
HasIdentity == Readable /\ Loaded.id # ""

Fault(kind) ==
  /\ kind \in Faults /\ Cardinality(faults \cup {kind}) <= MaxFaults
  /\ faults' = faults \cup {kind}

(* How start and RefreshCredential end.  A start that fails leaves the     *)
(* process; a caller's failure is an error it is free to retry.            *)
Resolve(m) == mem' = m /\ pc' = [pc EXCEPT ![Main] = "up"]
(* The branch for a preset InstanceID only warns when the save fails.      *)
SaveErrorIgnored(p) == p = Main /\ config.preset
Fails(p) ==
  IF SaveErrorIgnored(p) /\ pc[p] \notin {"load", "register"}
  THEN Resolve(out[p])
  ELSE /\ pc' = [pc EXCEPT ![p] = IF p = Main THEN "failed" ELSE "off"]
       /\ UNCHANGED mem

MemoryUntouched(p) == IF p = Main THEN out[p] ELSE mem
InMemory(p) == IF p = Main THEN out[p] ELSE [mem EXCEPT !.cred = out[p].cred]
Succeeds(p) ==
  /\ mem' = InMemory(p)
  /\ pc' = [pc EXCEPT ![p] = IF p = Main THEN "up" ELSE "off"]

(* Local mode: no store and no server; ensureInstance takes the configured *)
(* InstanceID or derives one from group and token.                         *)
ResolveLocal ==
  /\ pc[Main] = "load" /\ ~config.remote
  /\ IF config.preset \/ config.token
     THEN Resolve([id |-> IF config.preset THEN "preset" ELSE "derived", cred |-> 0])
     ELSE Fails(Main)
  /\ UNCHANGED <<disk, fd, out, config, server, starts, faults, cut, overlap, resolved>>

(* resolveIdentity in remote mode, up to the registration.                 *)
PresetFirst == HasIdentity /\ ~config.preset
UsePersisted == HasIdentity
LoadIdentity ==
  /\ pc[Main] = "load" /\ config.remote
  /\ CASE ~Readable -> Fails(Main) /\ UNCHANGED out
       [] UsePersisted -> Resolve(Loaded) /\ UNCHANGED out
       [] config.preset /\ ~UsePersisted /\ Readable ->
            /\ out' = [out EXCEPT ![Main] = [id |-> "preset", cred |-> 0]]
            /\ pc' = [pc EXCEPT ![Main] = "overlay"]
            /\ UNCHANGED mem
       [] OTHER ->
            /\ pc' = [pc EXCEPT ![Main] = IF config.token THEN "register" ELSE "failed"]
            /\ UNCHANGED <<out, mem>>
  /\ UNCHANGED <<disk, fd, config, server, starts, faults, cut, overlap, resolved>>

(* Register and Refresh: the server acts and replies.  The agent may not   *)
(* get the reply ("reply": transport or decoding error after the server    *)
(* has acted, or before), or get one whose fields are empty ("blank").     *)
Blanked(p) == IF p = Main THEN Nobody ELSE [out[p] EXCEPT !.cred = 0]
Exchange(p, issued, id) ==
  \/ /\ out' = [out EXCEPT ![p] = [id |-> id, cred |-> issued]]
     /\ pc' = [pc EXCEPT ![p] = "overlay"] /\ UNCHANGED <<faults, mem>>
  \/ /\ Fault("blank")
     /\ out' = [out EXCEPT ![p] = Blanked(p)]
     /\ pc' = [pc EXCEPT ![p] = "overlay"] /\ UNCHANGED mem
  \/ Fault("reply") /\ Fails(p) /\ UNCHANGED out

Unanswered(p) == Fault("reply") /\ Fails(p) /\ UNCHANGED <<server, out>>

Register ==
  /\ pc[Main] = "register"
  /\ \/ server.used /\ Fails(Main) /\ UNCHANGED <<server, out, faults>>    \* 409, 401
     \/ Unanswered(Main)
     \/ /\ ~server.used /\ server.cred < MaxCred
        /\ server' = [used |-> TRUE, cred |-> server.cred + 1]
        /\ Exchange(Main, server.cred + 1, "issued")
  /\ UNCHANGED <<disk, fd, config, starts, cut, overlap, resolved>>

(* RefreshCredential: it needs the store that resolveIdentity has built.   *)
RefreshBegin(p) ==
  /\ p \in Callers /\ pc[p] = "off" /\ pc[Main] \notin {"load", "failed", "down"}
  /\ config.remote /\ HasIdentity
  /\ out' = [out EXCEPT ![p] = Loaded]
  /\ pc' = [pc EXCEPT ![p] = "refresh"]
  /\ UNCHANGED <<disk, fd, config, mem, server, starts, faults, cut, overlap, resolved>>

Refresh(p) ==
  /\ pc[p] = "refresh"
  /\ \/ Unanswered(p)
     \/ /\ server.cred < MaxCred
        /\ server' = [server EXCEPT !.cred = @ + 1]
        /\ Exchange(p, server.cred + 1, out[p].id)
  /\ UNCHANGED <<disk, fd, config, starts, cut, overlap, resolved>>

-----------------------------------------------------------------------------
(* SaveIdentity and ReplaceCredential read the map once more and lay their *)
(* fields over it: the first only those that are not empty, the second the *)
(* credential whatever it is.                                              *)
CredentialOnly(p) == [Loaded EXCEPT !.cred = out[p].cred]
Overlaid(p) ==
  IF p = Main
  THEN [id   |-> IF out[p].id = "" THEN Loaded.id ELSE out[p].id,
        cred |-> IF out[p].cred = 0 THEN Loaded.cred ELSE out[p].cred]
  ELSE [Loaded EXCEPT !.cred = out[p].cred]

Saving(p) == pc[p] \in {"write", "sync", "rename", "chmod"}
Overlay(p) ==
  /\ pc[p] = "overlay"
  /\ IF Readable
     THEN /\ out' = [out EXCEPT ![p] = Overlaid(p)]
          /\ pc' = [pc EXCEPT ![p] = "open"] /\ UNCHANGED mem
     ELSE Fails(p) /\ UNCHANGED out
  /\ UNCHANGED <<disk, fd, config, server, starts, faults, cut, overlap, resolved>>

(* SaveSecrets, one action per file operation: OpenFile, Write, Sync with  *)
(* Close, Rename, Chmod.  Each failure but that of OpenFile and Chmod      *)
(* removes the temporary name, whoever created it.                         *)
FreeInode == CHOOSE i \in Inodes : i \notin {path, tmp} \cup {fd[q] : q \in Procs}
NotTruncated(i) == data[i]
Truncated(i) == Empty
OpenTmp(p) ==
  /\ pc[p] = "open"
  /\ LET i == IF tmp = NoFile THEN FreeInode ELSE tmp IN
     \/ /\ tmp' = i /\ fd' = [fd EXCEPT ![p] = i]
        /\ data' = [data EXCEPT ![i] = Truncated(i)] /\ synced' = synced \ {i}
        /\ pc' = [pc EXCEPT ![p] = "write"]
        /\ UNCHANGED <<path, old, mem, faults>>
     \/ Fault("open") /\ Fails(p) /\ UNCHANGED <<disk, fd>>
  /\ overlap' = (overlap \/ \E q \in Procs \ {p} : pc[q] \in {"overlay", "open"} \/ Saving(q))
  /\ UNCHANGED <<out, config, server, starts, cut, resolved>>

RemoveTmp(p) == tmp' = NoFile /\ fd' = [fd EXCEPT ![p] = NoFile] /\ Fails(p)

(* Two writers that share an inode leave the later map or a mixture.       *)
WriteTmp(p) ==
  /\ pc[p] = "write"
  /\ \/ /\ \E c \in {out[p]} \cup (IF data[fd[p]] = Empty THEN {} ELSE {Torn}) :
             data' = [data EXCEPT ![fd[p]] = c]
        /\ pc' = [pc EXCEPT ![p] = "sync"] /\ UNCHANGED <<tmp, fd, mem, faults>>
     \/ /\ Fault("write") /\ RemoveTmp(p)
        /\ data' = [data EXCEPT ![fd[p]] = Torn]
  /\ synced' = synced \ {fd[p]}
  /\ UNCHANGED <<path, old, out, config, server, starts, cut, overlap, resolved>>

SyncSkipped(p) == synced
Synced(p) == synced \cup {fd[p]}
SyncTmp(p) ==
  /\ pc[p] = "sync"
  /\ \/ /\ synced' = Synced(p) /\ fd' = [fd EXCEPT ![p] = NoFile]
        /\ pc' = [pc EXCEPT ![p] = "rename"] /\ UNCHANGED <<tmp, mem, faults>>
     \/ Fault("sync") /\ RemoveTmp(p) /\ UNCHANGED synced
  /\ UNCHANGED <<path, data, old, out, config, server, starts, cut, overlap, resolved>>

Survivors(i) ==
  IF i = NoFile THEN {Absent}
  ELSE IF i \in synced THEN {data[i]} ELSE {data[i], Empty, Torn}

RenameTmp(p) ==
  /\ pc[p] = "rename"
  /\ \/ /\ tmp # NoFile
        /\ path' = tmp /\ tmp' = NoFile /\ old' = old \cup Survivors(path)
        /\ pc' = [pc EXCEPT ![p] = "chmod"] /\ UNCHANGED <<fd, mem, faults>>
     \/ tmp = NoFile /\ RemoveTmp(p) /\ UNCHANGED <<path, old, faults>>
     \/ Fault("rename") /\ RemoveTmp(p) /\ UNCHANGED <<path, old>>
  /\ UNCHANGED <<data, synced, out, config, server, starts, cut, overlap, resolved>>

Chmod(p) ==
  /\ pc[p] = "chmod"
  /\ \/ Succeeds(p) /\ UNCHANGED faults
     \/ Fault("chmod") /\ Fails(p)
  /\ UNCHANGED <<disk, fd, out, config, server, starts, cut, overlap, resolved>>

-----------------------------------------------------------------------------
(* The kernel writes the directory and the file out in its own time.       *)
WriteBack ==
  /\ old # {}
  /\ old' = {} /\ synced' = synced \cup ({path} \ {NoFile})
  /\ UNCHANGED <<path, tmp, data, pc, fd, out, config, mem, server, starts, faults,
                 cut, overlap, resolved>>

Down ==
  /\ pc' = [p \in Procs |-> IF p = Main THEN "down" ELSE "off"]
  /\ fd' = [p \in Procs |-> NoFile] /\ out' = [p \in Procs |-> Nobody] /\ mem' = Nobody
  /\ resolved' = IF pc[Main] = "up" THEN mem.id ELSE resolved
  /\ UNCHANGED <<config, server, starts, overlap>>

InWindow(p) == pc[p] \in {"overlay", "open", "write", "sync", "rename"}

(* The process goes down: killed at any step, or by itself after a start   *)
(* that failed.                                                            *)
Exit ==
  /\ pc[Main] # "down"
  /\ cut' = (cut \/ \E p \in Procs : InWindow(p))
  /\ Down /\ UNCHANGED <<disk, faults>>

PowerLoss ==
  /\ pc[Main] # "down" /\ Fault("power")
  /\ \E c \in old \cup Survivors(path) :
       IF c = Absent THEN path' = NoFile /\ UNCHANGED data
       ELSE path' = 1 /\ data' = [data EXCEPT ![1] = c]
  /\ tmp' = NoFile /\ synced' = {1} /\ old' = {} /\ UNCHANGED cut
  /\ Down

(* The operator starts it again, perhaps with a configuration changed.     *)
Restart ==
  /\ pc[Main] = "down" /\ starts < MaxStarts
  /\ starts' = starts + 1
  /\ pc' = [pc EXCEPT ![Main] = "load"]
  /\ config' \in {c \in Configs : c.remote = config.remote}
  /\ UNCHANGED <<disk, fd, out, mem, server, faults, cut, overlap, resolved>>

Save(p) == Overlay(p) \/ OpenTmp(p) \/ WriteTmp(p) \/ SyncTmp(p) \/ RenameTmp(p) \/ Chmod(p)

Next ==
  \/ ResolveLocal \/ LoadIdentity \/ Register
  \/ \E p \in Callers : RefreshBegin(p) \/ Refresh(p)
  \/ \E p \in Procs : Save(p)
  \/ WriteBack \/ Exit \/ PowerLoss \/ Restart

Spec == Init /\ [][Next]_vars

-----------------------------------------------------------------------------
Steps == {"load", "register", "off", "refresh", "overlay", "open", "write", "sync",
          "rename", "chmod", "up", "failed", "down"}
TypeOK ==
  /\ path \in Inodes \cup {NoFile} /\ tmp \in Inodes \cup {NoFile}
  /\ data \in [Inodes -> Content \ {Absent}] /\ synced \subseteq Inodes
  /\ old \subseteq Content
  /\ pc \in [Procs -> Steps]
  /\ fd \in [Procs -> Inodes \cup {NoFile}] /\ out \in [Procs -> Maps]
  /\ \A p \in Procs : fd[p] # NoFile <=> pc[p] \in {"write", "sync"}
  /\ config \in Configs
  /\ mem \in Maps /\ server \in [used : BOOLEAN, cred : 0 .. MaxCred]
  /\ starts \in 0 .. MaxStarts /\ faults \subseteq Faults
  /\ cut \in BOOLEAN /\ overlap \in BOOLEAN /\ resolved \in Ids

(* secrets/store.go:112, "atomically writes": whatever fails, and whenever *)
(* the process or the power goes, the state file and all that a power loss *)
(* can make of it is a whole map or absent.  Only two saves at once, which *)
(* share the temporary file, can damage it.                                *)
FileIsWhole ==
  overlap \/ (old \cup Survivors(path)) \cap {Empty, Torn} = {}

(* agent.go:403-413: an agent never changes identity over restarts, however*)
(* the configuration is edited, unless a fault of the disk or an empty     *)
(* reply has kept the identity from the file or taken it away.             *)
IdentityStable ==
  /\ config.remote /\ pc[Main] = "up" /\ resolved # ""
  /\ ~overlap /\ faults \subseteq {"reply", "chmod"}
  => mem.id = resolved

(* What makes the two inductive: who writes the temporary file, and how far *)
(* it has got with it, while no two saves overlap; what the file says about *)
(* the identity while a start decides, once it is up, and after it.        *)
SaveInv ==
  /\ \A p, q \in Procs : Saving(p) /\ Saving(q) => p = q
  /\ \A p \in Procs :
       /\ fd[p] = IF pc[p] \in {"write", "sync"} THEN tmp ELSE NoFile
       /\ pc[p] \in {"write", "sync", "rename"} => tmp # NoFile
       /\ pc[p] = "write" => data[tmp] = Empty
       /\ pc[p] \in {"sync", "rename"} => data[tmp] = out[p]
       /\ pc[p] = "rename" => tmp \in synced
  /\ path # NoFile => path # tmp /\ path \in synced /\ data[path] \in Maps
  /\ old \subseteq Maps \cup {Absent}
DecidingInv ==
  /\ pc[Main] \in {"register", "overlay", "open", "write", "sync", "rename"} => ~HasIdentity
  /\ pc[Main] = "overlay" \/ Saving(Main) \/ pc[Main] = "open" => out[Main].id # ""
  /\ pc[Main] = "chmod" => HasIdentity /\ Loaded.id = out[Main].id
  /\ pc[Main] = "up" => HasIdentity /\ Loaded.id = mem.id
  /\ \A p \in Callers : pc[p] # "off" => HasIdentity /\ Loaded.id = out[p].id
  /\ resolved # "" => HasIdentity /\ Loaded.id = resolved
Undisturbed == config.remote /\ ~overlap /\ faults \subseteq {"reply", "chmod"}
(* The install token is good for one registration.  It is spent in vain    *)
(* only by a crash between reply and rename, a fault, or a reply that does *)
(* not come; no other crash, and no failed permission change, wastes it.   *)
Deciding == pc[Main] \notin {"up", "failed", "down"}
TokenNotWasted ==
  server.used /\ ~HasIdentity /\ ~Deciding /\ ~overlap
    => cut \/ faults \ {"chmod"} # {}

(* Where the registration is, once the token is used.                      *)
TokenInv ==
  /\ pc[Main] = "register" \/ server.used => config.remote
  /\ server.used =>
       HasIdentity \/ pc[Main] \in {"overlay", "open", "write", "sync", "rename"}
Uncut == ~overlap /\ ~cut /\ faults \subseteq {"chmod"}

(* Where the credential that is valid now is: in the file, or with a thread*)
(* that has still to put it there; one that is about to put an older one   *)
(* there has it followed by the newest, or meets it and they overlap.      *)
Latest(p) == out[p].cred = server.cred
CredInv ==
  /\ Loaded.cred <= server.cred /\ \A p \in Procs : out[p].cred <= server.cred
  /\ Loaded.cred = server.cred \/ \E p \in Procs : InWindow(p) /\ Latest(p)
  /\ \A p \in Procs : InWindow(p) /\ ~Latest(p) =>
       \E q \in Procs \ {p} : pc[q] \in {"overlay", "open"} /\ Latest(q)
  /\ server.cred > 0 => HasIdentity \/ InWindow(Main)
  /\ \A p \in Procs : pc[p] = "chmod" => Loaded.cred = out[p].cred
  /\ faults = {} /\ pc[Main] = "up" =>
       mem.cred = Loaded.cred \/ \E p \in Callers : pc[p] = "chmod"
(* What a save may rely on between reading the map and the rename: a start *)
(* that saves an identity finds none in the file, and a caller finds the   *)
(* one it has read.  No map has a credential and no identity.              *)
Named(m) == m.id = "" => m.cred = 0
StoreInv ==
  /\ pc[Main] \in {"register", "overlay", "open", "write", "sync", "rename"} => ~HasIdentity
  /\ \A p \in Callers : pc[p] # "off" => HasIdentity /\ Loaded.id = out[p].id
  /\ Named(File) /\ (\A c \in old : Named(c)) /\ \A p \in Procs : Named(out[p])
IdentityInv ==
  /\ TypeOK /\ (~overlap => SaveInv /\ StoreInv) /\ (Undisturbed => DecidingInv)
  /\ (Uncut => TokenInv) /\ (config.remote /\ Uncut => CredInv)

(* auth.go:60-68: the old credential is invalid once a new one is issued.  *)
(* When nobody is in the middle of a refresh the file and the memory hold  *)
(* the one that is valid, unless a fault, an overlap or a crash between    *)
(* reply and rename came between; a failed permission change leaves only   *)
(* the memory behind.                                                      *)
AtRest == pc[Main] = "up" /\ \A p \in Callers : pc[p] = "off"
CredentialCurrent ==
  AtRest /\ config.remote /\ ~overlap /\ ~cut /\ faults \subseteq {"chmod"}
    => /\ Loaded.cred = server.cred
       /\ faults = {} => mem.cred = server.cred

(* store.go:112, "atomically writes", with state.go:74-75, a refresh leaves*)
(* "InstanceID and GroupID unchanged", and agent.go:403-413: unless two    *)
(* saves overlap the state file is a register of whole maps, whatever fails*)
(* at whichever file operation.  It takes an identity when it has none, a  *)
(* refresh changes the credential only, and a power loss brings back an    *)
(* earlier map and nothing else.                                           *)
Whole(c) == IF c = Absent THEN Nobody ELSE IF c = Empty THEN Torn ELSE c
Store == INSTANCE SecretsRegister WITH
  Creds <- 0 .. MaxCred,
  value <- Whole(File), earlier <- {Whole(c) : c \in old}, shared <- overlap
ImplementsRegister == Store!Spec
=============================================================================
