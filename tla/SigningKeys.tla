---------------------------- MODULE SigningKeys ----------------------------
(***************************************************************************)
(* Signing keys: `lore-authctl key generate', which keeps the private half *)
(* in a file and the public half in a row of signing_keys, and the server, *)
(* which loads the active key once when it starts.                         *)
(*                                                                         *)
(* No transaction spans file and row.  One action is one call of the file  *)
(* system or the database; several processes may generate keys, also under *)
(* the same kid or into different directories, and each may die anywhere.  *)
(* A key pair is a number; equal numbers have equal JWKs.                  *)
(*                                                                         *)
(* A definition X_Fault is X with a plausible bug, kept beside it to show  *)
(* that a property notices; no specification uses it.                      *)
(***************************************************************************)
EXTENDS Integers

CONSTANTS
    Kids,       \* key ids
    Dirs,       \* values of jwt.signing_key_dir
    Procs,      \* `key generate' processes
    ActiveKid,  \* jwt.active_kid: a kid, or NoKid for the newest key
    NoKid, NoDir,
    MaxKeys     \* bound: key pairs generated

ASSUME KeysAssumption ==
    /\ ActiveKid \in Kids \cup {NoKid}
    /\ NoKid \notin Kids /\ NoDir \notin Dirs
    /\ MaxKeys \in Nat

VARIABLES
    clock,
    files,    \* Dirs \X Kids -> private key file <dir>/<kid>.pem
    rows,     \* Kids -> row of signing_keys; all are 'active'
    procs,    \* Procs -> process
    server,   \* the server process and its signer
    lastKey   \* key pairs generated so far

keyVars == <<files, rows, procs, server, lastKey>>

-----------------------------------------------------------------------------
File == [state : {"absent", "partial", "complete"}, key : Nat]

\* `key' is public_jwk_json, `dir' is private_key_path; key = 0: no such row
KeyRow == [key : Nat, dir : Dirs \cup {NoDir}, at : Nat]

Proc == [pc  : {"idle", "create", "write", "insert", "remove"},
         kid : Kids \cup {NoKid},
         dir : Dirs \cup {NoDir},
         key : Nat]

\* A signer: the metadata that was read, then the key that was loaded.
Signer == [pc  : {"down", "load", "up"},
           kid : Kids \cup {NoKid},
           dir : Dirs \cup {NoDir},
           key : Nat]

NoFile   == [state |-> "absent", key |-> 0]
NoRow    == [key |-> 0, dir |-> NoDir, at |-> 0]
IdleProc == [pc |-> "idle", kid |-> NoKid, dir |-> NoDir, key |-> 0]
Down     == [pc |-> "down", kid |-> NoKid, dir |-> NoDir, key |-> 0]

KeysTypeOK ==
    /\ clock \in Nat
    /\ files \in [Dirs \X Kids -> File]
    /\ rows \in [Kids -> KeyRow]
    /\ procs \in [Procs -> Proc]
    /\ server \in Signer
    /\ lastKey \in Nat

KeysInit ==
    /\ clock = 0
    /\ files = [f \in Dirs \X Kids |-> NoFile]
    /\ rows = [k \in Kids |-> NoRow]
    /\ procs = [p \in Procs |-> IdleProc]
    /\ server = Down
    /\ lastKey = 0

Registered(k) == rows[k].key # 0

-----------------------------------------------------------------------------
(* generate_active_key *)

\* The row must not exist; then the key pair is generated.
Generate(p, k, d) ==
    /\ lastKey < MaxKeys
    /\ procs[p].pc = "idle" /\ ~Registered(k)
    /\ lastKey' = lastKey + 1
    /\ procs' = [procs EXCEPT ![p] = [pc |-> "create", kid |-> k, dir |-> d,
                                      key |-> lastKey + 1]]
    /\ UNCHANGED <<clock, files, rows, server>>

PathOf(p) == <<procs[p].dir, procs[p].kid>>

Ended(p) == [procs EXCEPT ![p] = IdleProc]
At(p, pc) == [procs EXCEPT ![p].pc = pc]

\* Faulty variant: an existing file is truncated.
CreateFile_Truncates(p) ==
    /\ procs[p].pc = "create"
    /\ files' = [files EXCEPT ![PathOf(p)] = [state |-> "partial", key |-> procs[p].key]]
    /\ procs' = At(p, "write")
    /\ UNCHANGED <<clock, rows, server, lastKey>>

\* open with create_new: an error if there is such a file
CreateFile(p) ==
    /\ procs[p].pc = "create"
    /\ IF files[PathOf(p)].state = "absent"
       THEN /\ files' = [files EXCEPT ![PathOf(p)] =
                            [state |-> "partial", key |-> procs[p].key]]
            /\ procs' = At(p, "write")
       ELSE procs' = Ended(p) /\ UNCHANGED files
    /\ UNCHANGED <<clock, rows, server, lastKey>>

\* write_all and sync_all; a write that fails leaves the file behind, as a
\* crash does
WriteFile(p) ==
    /\ procs[p].pc = "write"
    /\ files' = [files EXCEPT ![PathOf(p)] = [state |-> "complete", key |-> procs[p].key]]
    /\ procs' = At(p, "insert")
    /\ UNCHANGED <<clock, rows, server, lastKey>>

\* Faulty variant: INSERT OR REPLACE.
InsertRow_Replaces(p, ok) ==
    LET q == procs[p] IN
    /\ q.pc = "insert"
    /\ IF ok
       THEN /\ rows' = [rows EXCEPT ![q.kid] = [key |-> q.key, dir |-> q.dir, at |-> clock]]
            /\ procs' = Ended(p)
       ELSE procs' = At(p, "remove") /\ UNCHANGED rows
    /\ UNCHANGED <<clock, files, server, lastKey>>

\* add_signing_key_meta: `kid' is the primary key.  If the transaction fails,
\* for this or any other reason, the file is removed.
InsertRow(p, ok) ==
    LET q == procs[p] IN
    /\ q.pc = "insert"
    /\ IF ok /\ ~Registered(q.kid)
       THEN /\ rows' = [rows EXCEPT ![q.kid] = [key |-> q.key, dir |-> q.dir, at |-> clock]]
            /\ procs' = Ended(p)
       ELSE procs' = At(p, "remove") /\ UNCHANGED rows
    /\ UNCHANGED <<clock, files, server, lastKey>>

RemoveFile(p) ==
    /\ procs[p].pc = "remove"
    /\ files' = [files EXCEPT ![PathOf(p)] = NoFile]
    /\ procs' = Ended(p)
    /\ UNCHANGED <<clock, rows, server, lastKey>>

\* The process dies, or a write fails: whatever it has left stays.
Crash(p) ==
    /\ procs[p].pc # "idle"
    /\ procs' = Ended(p)
    /\ UNCHANGED <<clock, files, rows, server, lastKey>>

ProcNext(p) ==
    \/ CreateFile(p) \/ WriteFile(p) \/ RemoveFile(p)
    \/ \E ok \in BOOLEAN : InsertRow(p, ok)

-----------------------------------------------------------------------------
(* Signers *)

\* active_signing_key: the row of active_kid, or one with the latest
\* created_at, which has a resolution of a second
ActiveRow(k) ==
    /\ Registered(k)
    /\ IF ActiveKid # NoKid THEN k = ActiveKid
       ELSE \A j \in Kids : Registered(j) => rows[j].at <= rows[k].at

Meta(k) == [pc |-> "load", kid |-> k, dir |-> rows[k].dir, key |-> 0]

\* from_pem_file: an incomplete file does not parse
Loads(s) == files[<<s.dir, s.kid>>].state = "complete"
Loaded(s) == [s EXCEPT !.pc = "up", !.key = files[<<s.dir, s.kid>>].key]

\* load_signer of the server
StartServer(k) ==
    /\ server.pc = "down" /\ ActiveRow(k)
    /\ server' = Meta(k)
    /\ UNCHANGED <<clock, files, rows, procs, lastKey>>

\* preflight_signer: the JWK of the file is the JWK of the row, or the server
\* does not start
LoadServerKey ==
    /\ server.pc = "load"
    /\ server' = IF Loads(server) /\ Loaded(server).key = rows[server.kid].key
                 THEN Loaded(server) ELSE Down
    /\ UNCHANGED <<clock, files, rows, procs, lastKey>>

StopServer ==
    /\ server.pc # "down"
    /\ server' = Down
    /\ UNCHANGED <<clock, files, rows, procs, lastKey>>

KeysTick == clock' = clock + 1 /\ UNCHANGED keyVars

KeysNext ==
    \/ \E p \in Procs, k \in Kids, d \in Dirs : Generate(p, k, d)
    \/ \E p \in Procs : ProcNext(p) \/ Crash(p)
    \/ \E k \in Kids : StartServer(k)
    \/ LoadServerKey
    \/ StopServer
    \/ KeysTick

KeysSpec == KeysInit /\ [][KeysNext]_<<clock, keyVars>>

-----------------------------------------------------------------------------
(* Properties *)

\* A registered key is usable: its row's private_key_path names a complete file
\* with the private half of the row's JWK.  Neither a crash of generate_active_key
\* nor a process that races for the same kid, and then removes what it takes for
\* its own file, takes it away, so a restart of the server finds its key.
RegisteredKeyOnDisk ==
    \A k \in Kids :
        Registered(k) =>
            files[<<rows[k].dir, k>>] = [state |-> "complete", key |-> rows[k].key]

\* It is inductive together with this: a process that has created its file owns
\* it, nobody else works on that path, and the path is registered nowhere.
OwnsItsFile ==
    \A p \in Procs :
        procs[p].pc \in {"write", "insert", "remove"} =>
            /\ files[PathOf(p)] =
                  [state |-> IF procs[p].pc = "write" THEN "partial" ELSE "complete",
                   key   |-> procs[p].key]
            /\ rows[procs[p].kid].dir # procs[p].dir
            /\ \A q \in Procs \ {p} :
                  procs[q].pc \in {"write", "insert", "remove"} => PathOf(q) # PathOf(p)

=============================================================================
