----------------------------- MODULE OpenDatabase -----------------------------
(***************************************************************************)
(* provider.Open: server processes that start on one database, all on      *)
(* PostgreSQL or all on one SQLite file.  Before NewSQLite migrates as     *)
(* TxMigrations says, prepareStorage creates the file, if the DSN lets it, *)
(* and looks at it and its side files one by one, while the processes that *)
(* came earlier already work with them.                                    *)
(***************************************************************************)
EXTENDS TxMigrations, Sequences

CONSTANT Suffixes   \* the files of a database: "", then its side files

ASSUME SuffixesAssumption == Suffixes \in Seq(STRING) /\ Suffixes # << >>

VARIABLES
    stored,   \* the database is a SQLite file, not on a server
    stage,    \* where a process is before it migrates
    creates,  \* whether its DSN lets it create the file: no mode=ro, mode=rw
    next,     \* the index of the file it looks at next
    files,    \* the files as they are
    given     \* history: the files as the first process found them

storage == <<stored, stage, creates, next, files, given>>

Main  == 1
Paths == DOMAIN Suffixes

(* A file is private when it is regular and of mode 0600; a symlink, a     *)
(* device, a directory or other permissions are unsafe.                    *)
Kinds == {"absent", "private", "unsafe"}

StorageTypeOK ==
    /\ TypeOK
    /\ stored \in BOOLEAN
    /\ stage \in [Runners -> {"prepare", "inspect", "connect", "migrate", "refused", "failed"}]
    /\ creates \in [Runners -> BOOLEAN]
    /\ next \in [Runners -> Paths]
    /\ files \in [Paths -> Kinds] /\ given \in [Paths -> Kinds]

(* parseStoragePath: PostgreSQL, and SQLite with a VFS of its own, have    *)
(* nothing to prepare.                                                     *)
OpenInit ==
    /\ Init
    /\ stored \in BOOLEAN
    /\ creates \in [Runners -> BOOLEAN]
    /\ stage = [r \in Runners |-> IF ~stored THEN "migrate"
                                 ELSE IF creates[r] THEN "prepare" ELSE "inspect"]
    /\ next = [r \in Runners |-> Main]
    /\ files \in [Paths -> Kinds] /\ given = files
    /\ ~stored => files = [i \in Paths |-> "absent"] /\ creates = [r \in Runners |-> FALSE]

-----------------------------------------------------------------------------
Advance(r, place) == stage' = [stage EXCEPT ![r] = place]

(* As if the file were opened with O_TRUNC, not with O_EXCL. *)
CreateTruncates(r) ==
    /\ stage[r] = "prepare"
    /\ Advance(r, "inspect")
    /\ files' = [files EXCEPT ![Main] = IF @ = "absent" THEN "private" ELSE @]
    /\ times' = [v \in Versions |-> 0] /\ version' = 0
    /\ UNCHANGED <<holder, pc, current, mine, stored, creates, next, given>>

(* ensurePrivateFile: O_EXCL leaves a file that is there as it is. *)
Create(r) ==
    /\ stage[r] = "prepare"
    /\ \/ /\ Advance(r, "inspect")
          /\ files' = [files EXCEPT ![Main] = IF @ = "absent" THEN "private" ELSE @]
       \/ Advance(r, "failed") /\ UNCHANGED files
    /\ UNCHANGED <<vars, stored, creates, next, given>>

Acceptable(i) == files[i] = "private" \/ (files[i] = "absent" /\ i # Main)

(* As if a side file that is missing ended the loop. *)
InspectBreaks(r) ==
    /\ stage[r] = "inspect"
    /\ IF ~Acceptable(next[r])
       THEN Advance(r, "refused") /\ UNCHANGED next
       ELSE IF next[r] = Len(Suffixes) \/ files[next[r]] = "absent"
       THEN Advance(r, "connect") /\ UNCHANGED next
       ELSE next' = [next EXCEPT ![r] = @ + 1] /\ UNCHANGED stage
    /\ UNCHANGED <<vars, stored, creates, files, given>>

(* validateStorageFiles: an Lstat, which may fail. *)
Inspect(r) ==
    /\ stage[r] = "inspect"
    /\ \/ ~Acceptable(next[r]) /\ Advance(r, "refused") /\ UNCHANGED next
       \/ /\ Acceptable(next[r])
          /\ IF next[r] = Len(Suffixes)
             THEN Advance(r, "connect") /\ UNCHANGED next
             ELSE next' = [next EXCEPT ![r] = @ + 1] /\ UNCHANGED stage
       \/ Advance(r, "failed") /\ UNCHANGED next
    /\ UNCHANGED <<vars, stored, creates, files, given>>

(* sql.Open and the ping. *)
Connect(r) ==
    /\ stage[r] = "connect"
    /\ \E place \in {"migrate", "failed"} : Advance(r, place)
    /\ UNCHANGED <<vars, stored, creates, next, files, given>>

(* applyMigrations *)
Migrate(r) == stage[r] = "migrate" /\ Step(r) /\ UNCHANGED storage

(* SQLite makes and removes the side files of a database in use; they have *)
(* the permissions of the database.                                        *)
Journal(i) ==
    /\ stored /\ \E r \in Runners : stage[r] = "migrate"
    /\ files[Main] = "private" /\ i # Main /\ files[i] # "unsafe"
    /\ files' = [files EXCEPT ![i] = IF @ = "absent" THEN "private" ELSE "absent"]
    /\ UNCHANGED <<vars, stored, stage, creates, next, given>>

OpenNext ==
    \/ \E r \in Runners : Create(r) \/ Inspect(r) \/ Connect(r) \/ Migrate(r)
    \/ \E i \in Paths : Journal(i)

OpenSpec == OpenInit /\ [][OpenNext]_<<vars, storage>>

-----------------------------------------------------------------------------
(* Properties. *)

(* The storage check is right although the files change under it.  No      *)
(* process connects to a SQLite database that others may read or redirect, *)
(* in any of its files; and none is refused because another one starts or  *)
(* works on the same file, only for what was wrong before the first.       *)
StorageJudged ==
    stored => \A r \in Runners :
        /\ stage[r] \in {"connect", "migrate"} =>
             files[Main] = "private" /\ \A i \in Paths : files[i] # "unsafe"
        /\ stage[r] = "refused" =>
             \/ \E i \in Paths : given[i] = "unsafe"
             \/ ~creates[r] /\ given[Main] = "absent"
=============================================================================
