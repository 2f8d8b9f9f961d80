------------------------------- MODULE Vault -------------------------------
(***************************************************************************)
(* The secret vault: src/internal/secrets/module.go and vault.go, with the *)
(* rotation of cmd/deploymonster/main.go.  A key is a master secret and a  *)
(* salt.  Init finds the persisted salt, takes the legacy one when there   *)
(* are versions without it, or makes and persists a new one; Start         *)
(* re-encrypts legacy versions one by one and persists the salt last.      *)
(* v.enc is the key of each stored version, "plain" for a value stored as  *)
(* it came.                                                                *)
(***************************************************************************)
EXTENDS Integers, FiniteSets

CONSTANTS Ids,        \* secret versions
          MaxSalts, Crashes,
          Writes      \* secrets are created through the API

VARIABLE v

None == 0 - 1
Legacy == 0
Stored == {i \in Ids : v.enc[i] # <<>>}

(* A fresh install, or an upgrade from a release with the legacy salt.     *)
Init == \E old \in SUBSET Ids :
    v = [salt |-> None, salts |-> 0, master |-> "m1", proc |-> "down", vault |-> <<>>, todo |-> {},
         key |-> <<>>, cut |-> FALSE,
         enc |-> [i \in Ids |-> IF i \in old THEN <<"m1", Legacy>> ELSE <<>>]]

NewVaultWithSalt(m, salt) == <<m, salt>>

resolveVaultSalt ==
    /\ v.proc = "down"
    /\ \/ v.salt # None /\ v' = [v EXCEPT !.proc = "inited", !.vault = NewVaultWithSalt(v.master, v.salt)]
       \/ /\ v.salt = None /\ Stored # {}
          /\ v' = [v EXCEPT !.proc = "inited", !.vault = NewVaultWithSalt(v.master, Legacy)]
       \/ /\ v.salt = None /\ Stored = {} /\ v.salts < MaxSalts
          /\ v' = [v EXCEPT !.proc = "inited", !.salts = @ + 1, !.salt = v.salts + 1,
                            !.vault = NewVaultWithSalt(v.master, v.salts + 1)]

Start ==
    /\ v.proc = "inited"
    /\ \/ v.salt # None /\ v' = [v EXCEPT !.proc = "up"]
       \/ /\ v.salt = None /\ v.salts < MaxSalts
          /\ v' = [v EXCEPT !.proc = "migrating", !.salts = @ + 1, !.todo = Stored,
                            !.key = NewVaultWithSalt(v.master, v.salts + 1)]

(* The command: Init without Start, then RotateEncryptionKey.  The server  *)
(* is down.                                                                *)
RotateEncryptionKey ==
    /\ v.proc = "inited" /\ v.salts < MaxSalts /\ v.master = "m1"
    /\ v' = [v EXCEPT !.proc = "rotating", !.salts = @ + 1, !.todo = Stored,
                      !.key = NewVaultWithSalt("m2", v.salts + 1)]

Old == IF v.proc = "migrating" THEN NewVaultWithSalt(v.master, Legacy) ELSE v.vault

(* A version that does not decrypt, or cannot be written, ends the process.*)
Reencrypt(i) ==
    /\ v.proc \in {"migrating", "rotating"} /\ i \in v.todo
    /\ v' = IF v.enc[i] = Old THEN [v EXCEPT !.enc[i] = v.key, !.todo = @ \ {i}]
            ELSE [v EXCEPT !.proc = "down", !.vault = <<>>, !.todo = {}, !.key = <<>>, !.cut = TRUE]

persistSaltMutant ==  \* the vault in use keeps the old key
    /\ v.proc \in {"migrating", "rotating"} /\ v.todo = {}
    /\ v' = [v EXCEPT !.salt = v.key[2], !.master = v.key[1], !.key = <<>>,
                      !.proc = IF v.proc = "migrating" THEN "up" ELSE "down"]

(* After the last version: the salt, then the vault in use; the operator   *)
(* of a rotation changes the configuration and starts the server.          *)
persistSalt ==
    /\ v.proc \in {"migrating", "rotating"} /\ v.todo = {}
    /\ v' = [v EXCEPT !.salt = v.key[2], !.master = v.key[1], !.key = <<>>,
                      !.proc = IF v.proc = "migrating" THEN "up" ELSE "down",
                      !.vault = IF v.proc = "migrating" THEN v.key ELSE <<>>]

(* SecretHandler.Create.  The handler has no vault: NewRouter asks for a   *)
(* module whose Vault method returns an interface, and Module.Vault        *)
(* returns *Vault, so the type assertion never holds.                      *)
Create(i) ==
    /\ Writes /\ v.proc = "up" /\ v.enc[i] = <<>>
    /\ v' = [v EXCEPT !.enc[i] = <<"plain">>]

Crash ==
    /\ Crashes /\ v.proc # "down"
    /\ v' = [v EXCEPT !.proc = "down", !.vault = <<>>, !.todo = {}, !.key = <<>>,
                      !.cut = @ \/ (v.proc \in {"migrating", "rotating"} /\ v.todo # Stored)]

Stop ==
    /\ v.proc \in {"up", "inited"}
    /\ v' = [v EXCEPT !.proc = "down", !.vault = <<>>]

Next == \/ resolveVaultSalt \/ Start \/ RotateEncryptionKey \/ persistSalt \/ Crash \/ Stop
        \/ \E i \in Ids : Reencrypt(i) \/ Create(i)

Spec == Init /\ [][Next]_v

(* Resolve decrypts every version that was ever encrypted, on a server     *)
(* that is up, unless a re-encryption was cut short.                       *)
Readable ==
    v.proc = "up" /\ ~v.cut => \A i \in Ids : v.enc[i] \in {<<>>, <<"plain">>, v.vault}

(* Without a persisted salt everything stored is under the legacy key, so  *)
(* that the next start can migrate it.                                     *)
LegacyIntact ==
    v.proc = "down" /\ v.salt = None => \A i \in Stored : v.enc[i] = <<v.master, Legacy>>
============================================================================
