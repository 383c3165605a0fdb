----------------------------- MODULE GpgDecrypt -----------------------------
(***************************************************************************)
(* gpg::decrypt of crates/tvc-gpg-client/src/gpg.rs: the client starts gpg *)
(* with a pipe on its standard input and one on its diagnostics, starts a  *)
(* thread that forwards the diagnostics, writes the session key, waits for *)
(* gpg and then for the thread.  Three actors: the client, gpg and the     *)
(* reader thread.  The plaintext goes from gpg to the output file, past    *)
(* the client, or to the client's own output when there is no file.        *)
(*                                                                         *)
(* gpg is external: it does what its program says, one instruction after   *)
(* another, and exits.  A write to a pipe nobody reads is lost or kills    *)
(* gpg, as its SIGPIPE disposition has it.                                 *)
(***************************************************************************)
EXTENDS Naturals, Sequences, SequencesExt

CONSTANTS
  Programs,   \* what gpg may be up to: sequences of instructions
  ExitCodes,  \* what it may then exit with
  PipeLines   \* how many diagnostic lines the pipe holds

(* Lines of diagnostics: one that is text, the one gpg prints the session  *)
(* key on, and one that is not UTF-8.                                      *)
Lines == {"text", "seskey", "bytes"}

(* readKey: read the session key from standard input; plain: write the     *)
(* plaintext, or the next part of it, to the output.                       *)
Instructions == Lines \cup {"readKey", "plain"}

ASSUME GpgDecryptAssumption ==
  /\ Programs \subseteq Seq(Instructions)
  /\ ExitCodes \subseteq Nat
  /\ PipeLines \in Nat \ {0}

VARIABLES
  pc,          \* where the client is
  result,      \* what decrypt returns: an exit code, or an error
  program,     \* what gpg has still to do
  code,        \* what it exits with when it has done it
  gpg,         \* "none", "running", "exited", or "killed" by a signal
  toGpg,       \* its standard input: [data, open]; open: the writing end
  pipe,        \* its diagnostics, as they wait in the pipe
  reader,      \* the thread: "none", "reading", "done"
  output,      \* whether an output file was asked for
  file,        \* its contents: parts of plaintext, or what was there before
  job,         \* history: all that gpg had to do
  emitted,     \* history: the lines gpg wrote
  forwarded    \* the lines the thread wrote to the client's stderr

client == <<pc, result, output>>
child == <<program, code, gpg, job>>
vars == <<client, child, toGpg, pipe, reader, file, emitted, forwarded>>

Nothing == [is |-> "nothing", code |-> 0]
Error == [is |-> "error", code |-> 0]
Code(n) == [is |-> "code", code |-> n]

Init ==
  /\ pc = "open" /\ result = Nothing
  /\ program \in Programs /\ job = program /\ code \in ExitCodes
  /\ gpg = "none"
  /\ output \in BOOLEAN
  /\ file \in {<<>>, <<"old">>}
  /\ toGpg = [data |-> FALSE, open |-> FALSE]
  /\ pipe = <<>>
  /\ reader = "none"
  /\ emitted = <<>> /\ forwarded = <<>>

Return(value) == pc' = "returned" /\ result' = value

-----------------------------------------------------------------------------
(* The client.                                                             *)
(* The output file is opened, and emptied, before gpg starts.              *)
Open ==
  /\ pc = "open"
  /\ \/ /\ pc' = "spawn"
        /\ file' = IF output THEN <<>> ELSE file
        /\ UNCHANGED result
     \/ output /\ Return(Error) /\ UNCHANGED file
  /\ UNCHANGED <<output, child, toGpg, pipe, reader, emitted, forwarded>>

Spawn ==
  /\ pc = "spawn"
  /\ \/ /\ pc' = "write"
        /\ gpg' = "running"
        /\ toGpg' = [toGpg EXCEPT !.open = TRUE]
        /\ reader' = "reading"
        /\ UNCHANGED result
     \/ /\ Return(Error)
        /\ UNCHANGED <<gpg, toGpg, reader>>
  /\ UNCHANGED <<output, program, code, job, pipe, file, emitted, forwarded>>

(* The session key fits the pipe, so the write never blocks; it fails when *)
(* gpg is gone.  Either way the writing end is closed.                     *)
WriteKey ==
  /\ pc = "write"
  /\ \/ /\ gpg = "running"
        /\ toGpg' = [data |-> TRUE, open |-> FALSE]
        /\ pc' = "wait"
        /\ UNCHANGED result
     \/ /\ gpg # "running"
        /\ toGpg' = [toGpg EXCEPT !.open = FALSE]
        /\ Return(Error)
  /\ UNCHANGED <<output, child, pipe, reader, file, emitted, forwarded>>

(* Mutated: the end of the diagnostics is all that is waited for.          *)
WaitForNobody ==
  /\ pc = "wait"
  /\ pc' = "join"
  /\ UNCHANGED <<result, output, child, toGpg, pipe, reader, file, emitted,
                 forwarded>>

Wait ==
  /\ pc = "wait" /\ gpg \in {"exited", "killed"}
  /\ pc' = "join"
  /\ UNCHANGED <<result, output, child, toGpg, pipe, reader, file, emitted,
                 forwarded>>

(* Mutated: a gpg that died of a signal has no code, and counts as fine.   *)
StatusOrZero == IF gpg = "killed" THEN 0 ELSE code

Status == IF gpg = "killed" THEN 1 ELSE code

(* Mutated: the thread is left to itself.                                  *)
JoinNobody ==
  /\ pc = "join"
  /\ Return(Code(Status))
  /\ UNCHANGED <<output, child, toGpg, pipe, reader, file, emitted, forwarded>>

Join ==
  /\ pc = "join" /\ reader = "done"
  /\ Return(Code(Status))
  /\ UNCHANGED <<output, child, toGpg, pipe, reader, file, emitted, forwarded>>

-----------------------------------------------------------------------------
(* The reader thread: to the end of the pipe, or to the first line that is *)
(* not UTF-8, where it closes the pipe.                                    *)
Leaks(line) == line = "seskey"

(* Mutated: the diagnostics are read only once gpg is done.                *)
ReadLineLate ==
  /\ reader = "reading" /\ pipe # <<>> /\ pc \in {"join", "returned"}
  /\ pipe' = Tail(pipe)
  /\ forwarded' = IF Leaks(Head(pipe)) THEN forwarded
                                       ELSE Append(forwarded, Head(pipe))
  /\ UNCHANGED <<client, child, toGpg, reader, file, emitted>>

ReadLine ==
  /\ reader = "reading" /\ pipe # <<>> /\ Head(pipe) # "bytes"
  /\ pipe' = Tail(pipe)
  /\ forwarded' = IF Leaks(Head(pipe)) THEN forwarded
                                       ELSE Append(forwarded, Head(pipe))
  /\ UNCHANGED <<client, child, toGpg, reader, file, emitted>>

StopReading ==
  /\ reader = "reading"
  /\ \/ pipe # <<>> /\ Head(pipe) = "bytes"
     \/ pipe = <<>> /\ gpg \in {"exited", "killed"}
  /\ reader' = "done"
  /\ pipe' = <<>>
  /\ UNCHANGED <<client, child, toGpg, file, emitted, forwarded>>

-----------------------------------------------------------------------------
(* gpg.                                                                    *)
Doing(instruction) ==
  gpg = "running" /\ program # <<>> /\ Head(program) = instruction

Emit(line) ==
  /\ Doing(line)
  /\ emitted' = Append(emitted, line)
  /\ \/ /\ reader = "reading" /\ Len(pipe) < PipeLines
        /\ pipe' = Append(pipe, line)
        /\ program' = Tail(program)
        /\ UNCHANGED gpg
     \/ /\ reader = "done"
        /\ \/ program' = Tail(program) /\ UNCHANGED gpg
           \/ gpg' = "killed" /\ UNCHANGED program
        /\ UNCHANGED pipe
  /\ UNCHANGED <<client, code, job, toGpg, reader, file, forwarded>>

(* Without a key to read gpg gives up, with a code that says so.           *)
ReadKey ==
  /\ Doing("readKey")
  /\ \/ /\ toGpg.data
        /\ toGpg' = [toGpg EXCEPT !.data = FALSE]
        /\ program' = Tail(program)
        /\ UNCHANGED <<code, gpg>>
     \/ /\ ~toGpg.data /\ ~toGpg.open
        /\ gpg' = "exited" /\ code' = 2
        /\ UNCHANGED <<program, toGpg>>
  /\ UNCHANGED <<client, job, pipe, reader, file, emitted, forwarded>>

WritePlain ==
  /\ Doing("plain")
  /\ program' = Tail(program)
  /\ file' = IF output THEN Append(file, "plain") ELSE file
  /\ UNCHANGED <<client, code, gpg, job, toGpg, pipe, reader, emitted,
                 forwarded>>

Exit ==
  /\ gpg = "running" /\ program = <<>>
  /\ gpg' = "exited"
  /\ UNCHANGED <<client, program, code, job, toGpg, pipe, reader, file,
                 emitted, forwarded>>

Killed ==
  /\ gpg = "running"
  /\ gpg' = "killed"
  /\ UNCHANGED <<client, program, code, job, toGpg, pipe, reader, file,
                 emitted, forwarded>>

Gpg == (\E line \in Lines : Emit(line)) \/ ReadKey \/ WritePlain \/ Exit
Client == Open \/ Spawn \/ WriteKey \/ Wait \/ Join
Reader == ReadLine \/ StopReading

(* All three have come to rest.                                            *)
Done ==
  /\ pc = "returned" /\ gpg # "running" /\ reader # "reading"
  /\ UNCHANGED vars

Next == Client \/ Reader \/ Gpg \/ Killed \/ Done

(* A runnable thread runs, and a gpg that is not blocked goes on.          *)
Spec ==
  Init /\ [][Next]_vars /\ WF_vars(Client) /\ WF_vars(Reader) /\ WF_vars(Gpg)

-----------------------------------------------------------------------------
HasCode == result.is = "code"

(* What is left of the first n elements of a sequence, for every n, when   *)
(* only those of a set are kept.                                           *)
Kept(s, these) ==
  LET kept[n \in 0..Len(s)] ==
        IF n = 0 THEN <<>>
        ELSE IF s[n] \in these THEN Append(kept[n - 1], s[n])
                               ELSE kept[n - 1]
  IN  kept

Only(s, these) == Kept(s, these)[Len(s)]

WithoutKey(lines) == Only(lines, {l \in Lines : ~Leaks(l)})

(* "gpg prints the session key there" (gpg.rs:39): whatever point the      *)
(* three actors are at, what has been forwarded is the beginning of what   *)
(* gpg wrote less the lines that carry the key; and when decrypt returns   *)
(* an exit code, and gpg wrote nothing but text, it is all of it: the      *)
(* client does not leave before the thread has caught up.                  *)
Forwarding ==
  /\ IsPrefix(forwarded, WithoutKey(emitted))
  /\ \A i \in DOMAIN forwarded : forwarded[i] # "seskey"
  /\ HasCode /\ "bytes" \notin Range(emitted) =>
       forwarded = WithoutKey(emitted)

Plain(instructions) == Only(instructions, {"plain"})

(* "The plaintext goes straight from gpg to `output`" (gpg.rs:118), past   *)
(* the client, which never sees whether it is all there.  What the exit    *)
(* code says is true all the same: zero comes back only from a gpg that    *)
(* went through its whole program and itself exited with zero, and then    *)
(* the file holds all of the plaintext and nothing of what was in it       *)
(* before, whoever of the three came first.                                *)
ZeroMeansDone ==
  result = Code(0) =>
    /\ gpg = "exited" /\ code = 0 /\ program = <<>>
    /\ output => file = Plain(job)

(* Once decrypt has returned, in whatever way, nobody writes to the output *)
(* file any longer: a caller may read, remove or replace it.               *)
NoLateWrites == [][pc = "returned" => UNCHANGED file]_vars

(* "The thread is what keeps that pipe from filling while gpg runs"        *)
(* (gpg.rs:121): however many lines gpg writes, and however small the      *)
(* pipe, decrypt comes back, and with no gpg left running behind it.       *)
AlwaysReturns == <>[](pc = "returned" /\ gpg # "running")

(* "Returns an error if gpg cannot run or the output file cannot be        *)
(* opened" (gpg.rs:126), and "gpg's own exit code comes back as the return *)
(* value, not as an error" (lib.rs:69): no run in which gpg exited with a  *)
(* code ends in an error.                                                  *)
ExitCodeComesBack == gpg = "exited" => result # Error

(* "gpg's diagnostics come back on a pipe that a reader thread forwards to *)
(* this process's stderr, minus the line that carries the session key"     *)
(* (gpg.rs:119): an exit code comes back with every line of text gpg wrote *)
(* forwarded, whatever other lines it wrote before.                        *)
AllForwarded == HasCode => Only(forwarded, {"text"}) = Only(emitted, {"text"})
=============================================================================
