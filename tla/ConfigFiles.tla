---------------------------- MODULE ConfigFiles ----------------------------
(***************************************************************************)
(* One file of /config/esphome under the tools that create, overwrite,     *)
(* patch and read it (llm.py).  Each tool call is a client.  A call runs   *)
(* its file work as executor jobs, one after the other, and the jobs of    *)
(* different calls run in different threads: their system calls interleave.*)
(*                                                                         *)
(* A content is known by the call that wrote it whole and the calls that   *)
(* patched it since.  Directories, links and encodings are left out.       *)
(***************************************************************************)
EXTENDS FiniteSets

CONSTANTS
    Client,     \* tool calls
    Original,   \* who wrote the file before
    Absent,     \* there is no file
    Torn        \* a file that was truncated and only partly written

\* A whole content: who wrote it, and who patched it since.
Whole == [base : Client \cup {Original}, edits : SUBSET Client]

ASSUME OwnerIsNoCall == Original \notin Client
ASSUME ValuesDiffer  == Absent # Torn /\ Whole \cap {Absent, Torn} = {}

VARIABLES
    content,    \* the file's content, or Absent
    mode,       \* the file's permissions
    kind,       \* the tool of each call
    pc,         \* the next step of each call
    seen,       \* the content a patch or read call has read
    new,        \* the content the call is to write
    temp,       \* the call's temporary file: "none", "empty", "partial" or "whole"
    temp_mode,  \* its permissions
    outcome,    \* the tool's response
    landed      \* the calls whose content has been in the file

vars == <<content, mode, kind, pc, seen, new, temp, temp_mode, outcome, landed>>

Kinds    == {"create", "write", "patch", "read"}
Steps    == {"idle", "apply", "check", "mkstemp", "fill", "chmod", "replace",
             "reply", "over", "killed"}
Modes    == {"private", "shared"}   \* mkstemp's 0600, and 0644
Outcomes == {"pending", "success", "exists", "error"}
Version  == Whole \cup {Absent}

Init ==
    /\ content \in {Absent, [base |-> Original, edits |-> {}]}
    /\ mode \in Modes
    /\ kind \in [Client -> Kinds]
    /\ pc = [c \in Client |-> "idle"]
    /\ seen = [c \in Client |-> Absent]
    /\ new = [c \in Client |-> Absent]
    /\ temp = [c \in Client |-> "none"]
    /\ temp_mode = [c \in Client |-> "private"]
    /\ outcome = [c \in Client |-> "pending"]
    /\ landed = {}

Goto(c, from, to) == pc[c] = from /\ pc' = [pc EXCEPT ![c] = to]
Answer(c, o)      == outcome' = [outcome EXCEPT ![c] = o]
Fresh(c)          == [base |-> c, edits |-> {}]

file    == <<content, mode>>
temps   == <<temp, temp_mode>>

----------------------------------------------------------------------------
(* What comes before the write *)

\* Seeded fault: nobody looks.
NeverExists == FALSE
Exists == content # Absent

\* CreateConfigTool: the existence check is an executor job of its own.
CreateCheck(c) ==
    /\ kind[c] = "create"
    /\ \/ /\ ~Exists
          /\ Goto(c, "idle", "mkstemp")
          /\ new' = [new EXCEPT ![c] = Fresh(c)]
          /\ UNCHANGED outcome
       \/ /\ Exists
          /\ Goto(c, "idle", "over")
          /\ Answer(c, "exists")
          /\ UNCHANGED new
    /\ UNCHANGED <<file, kind, seen, temps, landed>>

\* WriteYamlTool.
WriteStart(c) ==
    /\ kind[c] = "write"
    /\ Goto(c, "idle", "mkstemp")
    /\ new' = [new EXCEPT ![c] = Fresh(c)]
    /\ UNCHANGED <<file, kind, seen, temps, outcome, landed>>

\* ReadYamlTool, and the first job of PatchYamlTool: open and read.  A reader
\* keeps the file it opened, so a replacement meanwhile does not show.  The file
\* is missing, or cannot be opened or read, or it is read.
Read(c) ==
    /\ kind[c] \in {"read", "patch"}
    /\ \/ /\ Goto(c, "idle", "over")
          /\ Answer(c, "error")
          /\ UNCHANGED seen
       \/ /\ content # Absent /\ kind[c] = "read"
          /\ Goto(c, "idle", "over")
          /\ Answer(c, "success")
          /\ seen' = [seen EXCEPT ![c] = content]
       \/ /\ content # Absent /\ kind[c] = "patch"
          /\ Goto(c, "idle", "apply")
          /\ seen' = [seen EXCEPT ![c] = content]
          /\ UNCHANGED outcome
    /\ UNCHANGED <<file, kind, new, temps, landed>>

\* _apply_patches in memory, on what was read: all of the patches, or an error
\* because one does not match exactly once.
Apply(c) ==
    /\ \/ /\ Goto(c, "apply", "mkstemp")
          /\ new' = [new EXCEPT ![c] = [seen[c] EXCEPT !.edits = @ \cup {c}]]
          /\ UNCHANGED outcome
       \/ /\ Goto(c, "apply", "over")
          /\ Answer(c, "error")
          /\ UNCHANGED new
    /\ UNCHANGED <<file, kind, seen, temps, landed>>

----------------------------------------------------------------------------
(* _write_file *)

Mkstemp(c) ==
    /\ Goto(c, "mkstemp", "fill")
    /\ temp' = [temp EXCEPT ![c] = "empty"]
    /\ temp_mode' = [temp_mode EXCEPT ![c] = "private"]
    /\ UNCHANGED <<file, kind, seen, new, outcome, landed>>

\* Seeded fault: the file itself is opened for writing.
FillInPlace(c) ==
    /\ Goto(c, "fill", "chmod")
    /\ content' = Torn
    /\ temp' = [temp EXCEPT ![c] = "whole"]
    /\ UNCHANGED <<mode, kind, seen, new, temp_mode, outcome, landed>>
\* Write the content into the temporary file and close it.
Fill(c) ==
    /\ Goto(c, "fill", "chmod")
    /\ temp' = [temp EXCEPT ![c] = "whole"]
    /\ UNCHANGED <<file, kind, seen, new, temp_mode, outcome, landed>>

\* Seeded fault: the temporary file keeps the mode mkstemp gave it.
PrivateMode == "private"
\* The mode of the file to be replaced, or 0o644 for a new one.
TargetMode == IF content = Absent THEN "shared" ELSE mode

\* stat of the target and chmod of the temporary file, which nobody else sees.
Chmod(c) ==
    /\ Goto(c, "chmod", "replace")
    /\ temp_mode' = [temp_mode EXCEPT ![c] = TargetMode]
    /\ UNCHANGED <<file, kind, seen, new, temp, outcome, landed>>

\* os.replace: the one step in which the file changes.
Replace(c) ==
    /\ Goto(c, "replace", "reply")
    /\ content' = IF temp[c] = "whole" THEN new[c] ELSE Torn
    /\ mode' = temp_mode[c]
    /\ temp' = [temp EXCEPT ![c] = "none"]
    /\ landed' = landed \cup {c}
    /\ UNCHANGED <<kind, seen, new, temp_mode, outcome>>

Reply(c) ==
    /\ Goto(c, "reply", "over")
    /\ Answer(c, "success")
    /\ UNCHANGED <<file, kind, seen, new, temps, landed>>

\* Seeded fault: a failed write leaves its temporary file.
LeaveTemp(c) == UNCHANGED temp
Unlink(c)    == temp' = [temp EXCEPT ![c] = "none"]

\* Seeded fault: the exception is swallowed, the tool reports success.
SwallowError(c) == Answer(c, "success")
ReportError(c)  == Answer(c, "error")

\* Any of the steps of _write_file raises: the temporary file is removed, the
\* exception goes on, and the tool returns it as an error.
WriteFails(c) ==
    /\ \E step \in {"mkstemp", "fill", "chmod", "replace"} : Goto(c, step, "over")
    /\ Unlink(c)
    /\ ReportError(c)
    /\ UNCHANGED <<file, kind, seen, new, temp_mode, landed>>

\* Home Assistant dies: every call in progress stops where it is.  A write cut
\* short leaves a partial temporary file.
Crash ==
    /\ \E c \in Client : pc[c] \notin {"idle", "over", "killed"}
    /\ pc' = [c \in Client |-> IF pc[c] \in {"idle", "over"} THEN pc[c] ELSE "killed"]
    /\ temp' \in {t \in [Client -> {"none", "empty", "partial", "whole"}] :
                    \A c \in Client :
                        t[c] = temp[c] \/ (pc[c] = "fill" /\ t[c] = "partial")}
    /\ UNCHANGED <<file, kind, seen, new, temp_mode, outcome, landed>>

Next ==
    \/ \E c \in Client : CreateCheck(c)
    \/ \E c \in Client : WriteStart(c)
    \/ \E c \in Client : Read(c)
    \/ \E c \in Client : Apply(c)
    \/ \E c \in Client : Mkstemp(c)
    \/ \E c \in Client : Fill(c)
    \/ \E c \in Client : Chmod(c)
    \/ \E c \in Client : Replace(c)
    \/ \E c \in Client : Reply(c)
    \/ \E c \in Client : WriteFails(c)
    \/ Crash

Spec == Init /\ [][Next]_vars

----------------------------------------------------------------------------
(* Properties *)

\* Every variable keeps the shape the code gives it.
TypeOK ==
    /\ content \in Version \cup {Torn}
    /\ mode \in Modes
    /\ kind \in [Client -> Kinds]
    /\ pc \in [Client -> Steps]
    /\ seen \in [Client -> Version \cup {Torn}]
    /\ new \in [Client -> Version]
    /\ temp \in [Client -> {"none", "empty", "partial", "whole"}]
    /\ temp_mode \in [Client -> Modes]
    /\ outcome \in [Client -> Outcomes]
    /\ landed \subseteq Client

\* Nobody ever finds half a configuration: not the file after any number of
\* failed writes and crashes, not a call that read it in between ("a failed
\* write can't truncate the original", _write_file).
NeverTorn == content # Torn /\ \A c \in Client : seen[c] # Torn

\* A call that reported an error has never been in the file; one that reported
\* success has.
OutcomeIsTrue ==
    \A c \in Client :
        /\ outcome[c] \in {"error", "exists"} => c \notin landed
        /\ outcome[c] = "success" /\ kind[c] # "read" => c \in landed

\* Only a crash leaves a temporary file behind: whichever step of a write fails,
\* and however the writes interleave, the directory is clean once all answered.
OnlyCrashesLitter ==
    \A c \in Client : pc[c] \in {"idle", "reply", "over"} => temp[c] = "none"

\* Replacing a file keeps its permissions, however many calls replace it.
ModeKept == [][content # Absent => mode' = mode]_vars

\* The versions a call may put into the file.
VersionOf(c) == {v \in Whole : v.base = c \/ c \in v.edits}

\* The calls that are over without having changed the file: refused, failed,
\* or read-only.
FailedCalls == {c \in Client : pc[c] = "over" /\ c \notin landed}

\* The tools implement atomic replacement.
Atomic == INSTANCE AtomicFile WITH file <- content, failed <- FailedCalls
ImplementsAtomicFile == Atomic!Spec

\* "Fails if it already exists" (CreateConfigTool): the test and the write are
\* two jobs, so a creation may replace what another call wrote in between; the
\* owner's file, or an edit of it, it never does.
CreateSparesOwner ==
    [][\A c \in landed' \ landed :
         kind[c] = "create" => content = Absent \/ content.base # Original]_vars
============================================================================
