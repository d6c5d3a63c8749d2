--------------------------------- MODULE EnvFiles ---------------------------------
(***************************************************************************)
(* The .env resolver (pixiv/client.go): a key is read from the first       *)
(* candidate file that has it; a group of keys is written to the first     *)
(* that has one of them, else to the first there is, else to the first of  *)
(* all.  A key of the process's environment hides the files from every     *)
(* read: such a key is left out.                                           *)
(***************************************************************************)
EXTENDS Integers

CONSTANTS Keys, Groups,  \* the keys, and those that are written together
          Values,
          Candidates,    \* how many candidate files
          Absent           \* a file or a key there is not

ASSUME EnvAssumption ==
  /\ Candidates \in Nat \ {0} /\ Groups \subseteq SUBSET Keys
  /\ Absent \notin Values /\ Absent \notin [Keys -> Values \cup {Absent}]

VARIABLES
  files,  \* the candidates, in order
  expect  \* history: what a key should read as

envVars == <<files, expect>>

Contents == [Keys -> Values \cup {Absent}]
Paths == 1 .. Candidates
FirstOf(paths) == CHOOSE i \in paths : \A j \in paths : i <= j
Existing(fs) == {i \in Paths : fs[i] # Absent}
Holding(fs, keys) == {i \in Existing(fs) : \E k \in keys : fs[i][k] # Absent}

\* Mutant: the first file there is hides the others.
ReadFirstFile(fs, key) ==
  IF Existing(fs) = {} THEN Absent ELSE fs[FirstOf(Existing(fs))][key]
\* readEnvKeyFrom, past the environment
ReadFiles(fs, key) ==
  IF Holding(fs, {key}) = {} THEN Absent ELSE fs[FirstOf(Holding(fs, {key}))][key]

\* envFileForWrite
FileForWrite(keys) ==
  CASE Holding(files, keys) # {} -> FirstOf(Holding(files, keys))
    [] Holding(files, keys) = {} /\ Existing(files) # {} -> FirstOf(Existing(files))
    [] OTHER -> 1

EnvInit ==
  /\ files \in [Paths -> {f \in Contents : \A k \in Keys : f[k] \in {Absent, CHOOSE v \in Values : TRUE}}
                           \cup {Absent}]
  /\ expect = [k \in Keys |-> ReadFiles(files, k)]

\* UpdateEnvFile: the lines of the keys are replaced or added, and the new file
\* takes the place of the old one; or it fails and the old one stays.
Update(keys, to) ==
  LET path == FileForWrite(keys)
      old == IF files[path] = Absent THEN [k \in Keys |-> Absent] ELSE files[path] IN
  /\ files' = [files EXCEPT ![path] = [k \in Keys |-> IF k \in keys THEN to ELSE old[k]]]
  /\ expect' = [k \in Keys |-> IF k \in keys THEN to ELSE expect[k]]

EnvNext == \E keys \in Groups, to \in Values : Update(keys, to)
EnvSpec == EnvInit /\ [][EnvNext]_envVars

-----------------------------------------------------------------------------
\* What the next boot reads is what was written last, whichever candidates hold
\* which keys: no rotation lands in a file nothing reads, and writing one group
\* leaves the other keys as they read before.
EnvRoundTrip == \A k \in Keys : ReadFiles(files, k) = expect[k]
=============================================================================
