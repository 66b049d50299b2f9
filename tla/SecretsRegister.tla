-------------------------- MODULE SecretsRegister --------------------------
(***************************************************************************)
(* What internal/secrets and resolveIdentity promise of the state file: it *)
(* is a register of one map, written whole.  An identity is put into it    *)
(* when it has none, a refresh changes the credential alone, and a power   *)
(* loss brings back a map it has held since it was last written out.       *)
(* Nothing is promised once two saves have run at the same time.           *)
(***************************************************************************)
EXTENDS Integers

CONSTANTS Ids, Creds

VARIABLES
  value,     \* the map in the file
  earlier,   \* the maps it has held that a power loss may bring back
  shared     \* two saves have been under way at the same time

Maps == [id : Ids, cred : Creds]
Blank == [id |-> "", cred |-> 0]            \* as LoadSecrets reads no file
Damaged == [id |-> "(damaged)", cred |-> 0] \* what LoadSecrets rejects

Init == value = Blank /\ earlier = {} /\ shared = FALSE

Put(m) ==
  /\ ~shared
  /\ value' = m /\ earlier' = earlier \cup {value} /\ UNCHANGED shared

SaveIdentity(m) == value = Blank /\ Put(m)
ReplaceCredential(cred) == value.id # "" /\ Put([value EXCEPT !.cred = cred])

WriteBack == ~shared /\ earlier' = {} /\ UNCHANGED <<value, shared>>
PowerLoss ==
  /\ ~shared
  /\ value' \in earlier \cup {value} /\ earlier' = {} /\ UNCHANGED shared

TwoSaves == shared' = TRUE /\ UNCHANGED <<value, earlier>>
Unspecified ==
  /\ shared /\ UNCHANGED shared
  /\ value' \in Maps \cup {Damaged} /\ earlier' \in SUBSET (Maps \cup {Damaged})

Next ==
  \/ \E m \in Maps : SaveIdentity(m)
  \/ \E cred \in Creds : ReplaceCredential(cred)
  \/ WriteBack \/ PowerLoss \/ TwoSaves \/ Unspecified

Spec == Init /\ [][Next]_<<value, earlier, shared>>
=============================================================================
