------------------------------ MODULE CodeCache ------------------------------
(***************************************************************************)
(* The compiled scripts of a Lua engine: lua/cache.go.  A file is read,    *)
(* then its modification time is taken, then the result is stored under    *)
(* the lock, while the file may change at any moment.                      *)
(***************************************************************************)
EXTENDS Integers, FiniteSets, SequencesExt

CONSTANTS
    Scripts, Runs,     \* script files; requests that run one
    CodeSize,          \* maxSize
    CodeTTL,           \* in ticks; 0 is none
    FileWatch,         \* EnableFileWatch
    MaxEdits           \* bound: how often a file changes

ASSUME CodeAssumption ==
    CodeSize \in Nat \ {0} /\ CodeTTL \in Nat /\ FileWatch \in BOOLEAN

VARIABLES
    disk,      \* per script: the version on disk, also its modification time;
               \* 0 when the file is missing
    edits,     \* per script: the versions made so far
    protos,    \* key -> [ver, modTime, age], age since CachedAt
    order,     \* the keys as they were stored
    accessed,  \* the keys by AccessAt, the oldest first
    run        \* per request: [pc, file, ver, cached]

codeVars == <<disk, edits, protos, order, accessed, run>>

NoEntry == [ver |-> 0, modTime |-> 0, age |-> 0]
RunIdle == [pc |-> "idle", file |-> CHOOSE f \in Scripts : TRUE, ver |-> 0, cached |-> NoEntry]

CodeInit ==
    /\ disk = [f \in Scripts |-> 1] /\ edits = [f \in Scripts |-> 1]
    /\ protos = << >> /\ order = <<>> /\ accessed = <<>>
    /\ run = [r \in Runs |-> RunIdle]

RunGoto(r, label) == run' = [run EXCEPT ![r].pc = label]
CodeUnchanged == UNCHANGED <<protos, order, accessed>>

\* Mutant of isExpired: the TTL is left to the files that are not watched.
isExpiredUnwatched(e) == ~FileWatch /\ CodeTTL > 0 /\ e.age > CodeTTL

isExpired(e) == CodeTTL > 0 /\ e.age > CodeTTL
isFileChanged(f, e) == FileWatch /\ (disk[f] = 0 \/ disk[f] > e.modTime)

\* GetOrCompileFile: the entry is looked up under the lock ...
LookUp(r, f) ==
    /\ run[r].pc = "idle" /\ CodeUnchanged /\ UNCHANGED <<disk, edits>>
    /\ run' = [run EXCEPT ![r] =
          [pc |-> IF f \in DOMAIN protos /\ ~isExpired(protos[f]) THEN "check" ELSE "read",
           file |-> f, ver |-> 0,
           cached |-> IF f \in DOMAIN protos THEN protos[f] ELSE NoEntry]]

\* ... and compared with the file without it.
Check(r) ==
    LET f == run[r].file e == run[r].cached IN
    /\ run[r].pc = "check" /\ UNCHANGED <<disk, edits, protos, order>>
    /\ IF isFileChanged(f, e)
         THEN RunGoto(r, "read") /\ UNCHANGED accessed
         ELSE /\ run' = [run EXCEPT ![r].pc = "done", ![r].ver = e.ver]
              /\ accessed' = IF f \in DOMAIN protos /\ protos[f] = e
                               THEN Append(RemoveFirst(accessed, f), f) ELSE accessed

\* os.ReadFile
ReadScript(r) ==
    /\ run[r].pc = "read" /\ CodeUnchanged /\ UNCHANGED <<disk, edits>>
    /\ run' = [run EXCEPT ![r].ver = disk[run[r].file],
                          ![r].pc = IF disk[run[r].file] = 0 THEN "failed" ELSE "stat"]

\* os.Stat
StatScript(r) ==
    /\ run[r].pc = "stat" /\ CodeUnchanged /\ UNCHANGED <<disk, edits>>
    /\ run' = [run EXCEPT ![r].cached = [ver |-> run[r].ver, age |-> 0,
                                         modTime |-> disk[run[r].file]],
                          ![r].pc = IF disk[run[r].file] = 0 THEN "failed" ELSE "compile"]

\* The script does not parse or compile.
CompileFails(r) ==
    /\ run[r].pc = "compile" /\ RunGoto(r, "failed")
    /\ CodeUnchanged /\ UNCHANGED <<disk, edits>>

\* evictLocked: the entry that was used longest ago
evictLocked ==
    [p |-> Restrict(protos, DOMAIN protos \ {Head(accessed)}),
     o |-> RemoveFirst(order, Head(accessed)), a |-> Tail(accessed)]

\* Mutant of storeLocked: a key that is stored already is appended again.
storeLockedAgain(f, e) ==
    LET c == IF Cardinality(DOMAIN protos) >= CodeSize /\ f \notin DOMAIN protos
             THEN evictLocked ELSE [p |-> protos, o |-> order, a |-> accessed]
    IN /\ protos' = [k \in DOMAIN c.p \cup {f} |-> IF k = f THEN e ELSE c.p[k]]
       /\ accessed' = Append(RemoveFirst(c.a, f), f)
       /\ order' = Append(c.o, f)

storeLocked(f, e) ==
    LET c == IF Cardinality(DOMAIN protos) >= CodeSize /\ f \notin DOMAIN protos
             THEN evictLocked ELSE [p |-> protos, o |-> order, a |-> accessed]
    IN /\ protos' = [k \in DOMAIN c.p \cup {f} |-> IF k = f THEN e ELSE c.p[k]]
       /\ accessed' = Append(RemoveFirst(c.a, f), f)
       /\ order' = IF f \in DOMAIN protos THEN order ELSE Append(c.o, f)

StoreScript(r) ==
    /\ run[r].pc = "compile" /\ RunGoto(r, "done")
    /\ storeLocked(run[r].file, run[r].cached) /\ UNCHANGED <<disk, edits>>

\* The request ends; another one comes.
RunEnds(r) ==
    /\ run[r].pc \in {"done", "failed"} /\ run' = [run EXCEPT ![r] = RunIdle]
    /\ CodeUnchanged /\ UNCHANGED <<disk, edits>>

RunSteps(r) ==
    \/ Check(r) \/ ReadScript(r) \/ StatScript(r) \/ StoreScript(r) \/ CompileFails(r)
    \/ RunEnds(r)

\* Somebody writes the file, or removes it.
Edit(f) ==
    /\ edits[f] < MaxEdits /\ edits' = [edits EXCEPT ![f] = @ + 1]
    /\ disk' = [disk EXCEPT ![f] = edits[f] + 1]
    /\ CodeUnchanged /\ UNCHANGED run

Unlink(f) ==
    /\ edits[f] < MaxEdits /\ disk[f] # 0 /\ disk' = [disk EXCEPT ![f] = 0]
    /\ CodeUnchanged /\ UNCHANGED <<edits, run>>

CodeClear ==
    /\ protos' = << >> /\ order' = <<>> /\ accessed' = <<>>
    /\ UNCHANGED <<disk, edits, run>>

\* Time passes; beyond CodeTTL + 1 an age makes no difference.
Aged(e) == [e EXCEPT !.age = IF @ > CodeTTL THEN @ ELSE @ + 1]

CodeTick ==
    /\ protos' = [k \in DOMAIN protos |-> Aged(protos[k])]
    /\ run' = [r \in Runs |->
                 IF run[r].pc \in {"check", "compile"}
                 THEN [run[r] EXCEPT !.cached = Aged(@)] ELSE run[r]]
    /\ run' # run \/ protos' # protos
    /\ UNCHANGED <<disk, edits, order, accessed>>

CodeNext ==
    \/ \E r \in Runs : RunSteps(r) \/ \E f \in Scripts : LookUp(r, f)
    \/ \E f \in Scripts : Edit(f) \/ Unlink(f)
    \/ CodeClear \/ CodeTick

\* Time passes and a request that has begun goes on.
CodeFairness == WF_codeVars(CodeTick) /\ \A r \in Runs : WF_codeVars(RunSteps(r))

CodeSpec == CodeInit /\ [][CodeNext]_codeVars /\ CodeFairness

-----------------------------------------------------------------------------
\* protos, order and the times of use speak of the same keys, each once, and the
\* cache keeps its size, although two requests may compile one file at the same
\* time (cache.go:263-307).
CodeExact ==
    /\ IsInjective(order) /\ IsInjective(accessed)
    /\ Range(order) = DOMAIN protos /\ Range(accessed) = DOMAIN protos
    /\ Len(order) <= CodeSize

\* After the last change of a file requests get its last version, even when the
\* change came between the reading of the file and of its modification time:
\* then the TTL ends it (cache.go:212,221-251).
ScriptsCatchUp ==
    \A f \in Scripts :
        <>[](edits[f] = MaxEdits =>
                \A r \in Runs : run[r].pc = "done" /\ run[r].file = f => run[r].ver = disk[f])
=============================================================================
