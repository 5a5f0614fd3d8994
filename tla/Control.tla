------------------------------ MODULE Control -------------------------------
(***************************************************************************)
(* One command to the mica daemon: the checks of libmica/client.go before  *)
(* a socket is opened, and the connection of libmica/socket.go, read piece *)
(* by piece until a verdict, the deadline or the end of the stream.  The   *)
(* daemon is external: it may be slow, die, restart, or carry a command    *)
(* out and lose the answer.  Text is abstracted to pieces; a marker is two *)
(* pieces, since a read may end in the middle of one.                      *)
(***************************************************************************)
EXTENDS Sequences, Integers

CONSTANTS
    Quotes,     \* markers that a command's own output may contain: "ok", "fail"
    MaxSaid     \* bound: pieces micad writes on one connection

ASSUME QuotesAssumption == Quotes \subseteq {"ok", "fail"}
ASSUME MaxSaidAssumption == MaxSaid \in Nat

\* Stop sends rm as Remove does; on the wire a pause is a stop, a resume a start.
\* An update sets a value, pins to a cpuset, or lifts the capacity (sets it to 0); xl
\* has no words for the last two.
Updates == {"set", "pin", "uncap"}
Wordless == {"pin", "uncap"}
Commands == {"create", "start", "rm", "pause", "resume", "status"} \cup Updates

VARIABLES
    file,       \* sockets of micad's directory: "absent", "dead" (nobody listens), "live"
    cmd,        \* the command of the call, or "none"
    named,      \* the client's id is not empty and no longer than MaxNameLen
    stage,      \* where the call is
    target,     \* the socket the command goes to
    result,     \* what the call returned: "none" while it runs
    work,       \* what became of the command
    said,       \* the pieces micad wrote on the connection
    heard,      \* how many of them have been read: responseBuffer
    late,       \* the read deadline has passed
    peer,       \* micad's end: "none", "open", "answered" or "gone"
    quoted      \* the output of the command contained a marker

vars == <<file, cmd, named, stage, target, result, work, said, heard, late,
          peer, quoted>>

Stages == {"idle", "exists", "valid", "xl", "ped", "dial", "open", "sent"}

TypeOK ==
    /\ file \in [{"create", "client"} -> {"absent", "dead", "live"}]
    /\ cmd \in Commands \cup {"none"}
    /\ named \in BOOLEAN /\ late \in BOOLEAN /\ quoted \in BOOLEAN
    /\ stage \in Stages
    /\ target \in {"create", "client"}
    /\ result \in {"none", "nil", "error"}
    /\ work \in {"none", "done", "refused", "moot", "skipped"}
    /\ said \in Seq({"text", "ok1", "ok2", "fail1", "fail2"})
    /\ heard \in 0..Len(said)
    /\ peer \in {"none", "open", "answered", "gone"}

\* The two halves of a marker, and what the wire holds once it is written.
Half(m) == IF m = "ok" THEN "ok1" ELSE "fail1"
Rest(m) == IF m = "ok" THEN "ok2" ELSE "fail2"
Write(m) == Append(Append(said, Half(m)), Rest(m))

\* strings.Contains of the first n pieces read.
Contains(n, m) ==
    \E i \in 1..(n - 1) : said[i] = Half(m) /\ said[i + 1] = Rest(m)

Init ==
    /\ file \in [{"create", "client"} -> {"absent", "live"}]
    /\ cmd = "none" /\ named = TRUE /\ stage = "idle" /\ target = "client"
    /\ result = "none" /\ work = "none"
    /\ said = <<>> /\ heard = 0 /\ late = FALSE /\ peer = "none" /\ quoted = FALSE

connection == <<said, heard, late, peer, quoted>>

\* Status asks for the state of a client and hears only the verdict: the text is
\* dropped, and the empty answer cannot be parsed.
Outcome(r) == IF cmd = "status" /\ r = "nil" THEN "error" ELSE r

\* The call is over; an open connection is closed by the deferred close.
Return(r) == stage' = "idle" /\ result' = Outcome(r)

-----------------------------------------------------------------------------
\* The caller asks.  Stop and Remove look for the client's socket first, Create
\* dials at once, Pause and Resume go to the hypervisor when there is one.

AskFirst(c) ==
    CASE c = "create" -> {"dial"}
      [] c = "rm" -> {"exists"}
      [] c \in {"pause", "resume"} -> {"ped", "valid"}
      [] OTHER -> {"valid"}

Ask ==
    /\ cmd = "none"
    /\ cmd' \in Commands
    /\ named' \in BOOLEAN
    /\ stage' \in AskFirst(cmd')
    /\ target' = IF cmd' = "create" THEN "create" ELSE "client"
    /\ UNCHANGED <<file, result, work, connection>>

\* ClientNotExist: a client without a socket needs no removal.
ClientFile == IF named THEN file["client"] ELSE "absent"

ClientGone ==
    /\ stage = "exists" /\ ClientFile = "absent"
    /\ Return("nil") /\ work' = "moot"
    /\ UNCHANGED <<file, cmd, named, target, connection>>

ClientThere ==
    /\ stage = "exists" /\ ClientFile # "absent"
    /\ stage' = "valid"
    /\ UNCHANGED <<file, cmd, named, target, result, work, connection>>

\* micaCtlImpl: micad must have its socket, and the id must fit.
Refuse ==
    /\ stage = "valid"
    /\ file["create"] = "absent" \/ ~named
    /\ Return("error")
    /\ UNCHANGED <<file, cmd, named, target, work, connection>>

Accept ==
    /\ stage = "valid"
    /\ file["create"] # "absent" /\ named
    /\ stage' = IF cmd \in Updates THEN "xl" ELSE "dial"
    /\ target' = IF cmd = "status" THEN "create" ELSE target
    /\ UNCHANGED <<file, cmd, named, result, work, connection>>

\* An update tries xl before the daemon; Pause and Resume on Xen are xl's alone.
ToolDoes ==
    /\ stage \in {"xl", "ped"} /\ cmd \notin Wordless
    /\ Return("nil") /\ work' = "done"
    /\ UNCHANGED <<file, cmd, named, target, connection>>

\* A cpuset is passed over, a capacity of 0 runs sched-credit2 without -c; both are
\* a success that changed nothing.
ToolSkips ==
    /\ stage = "xl" /\ cmd \in Wordless
    /\ Return("nil") /\ work' = "skipped"
    /\ UNCHANGED <<file, cmd, named, target, connection>>

ToolFails ==
    /\ stage \in {"xl", "ped"}
    /\ \/ stage = "xl" /\ stage' = "dial" /\ UNCHANGED result
       \/ stage = "ped" /\ Return("error")
    /\ UNCHANGED <<file, cmd, named, target, work, connection>>

-----------------------------------------------------------------------------
\* socket.go: one connection per command.

\* newMicaSocket and connect: Dial succeeds while somebody listens.
Connect ==
    /\ stage = "dial" /\ file[target] = "live"
    /\ stage' = "open" /\ peer' = "open"
    /\ UNCHANGED <<file, cmd, named, target, result, work, said, heard, late, quoted>>

ConnectFails ==
    /\ stage = "dial" /\ file[target] # "live"
    /\ Return("error")
    /\ UNCHANGED <<file, cmd, named, target, work, connection>>

\* tx: the message is small enough for the socket's buffer.
Send ==
    /\ stage = "open" /\ peer # "gone"
    /\ stage' = "sent"
    /\ UNCHANGED <<file, cmd, named, target, result, work, connection>>

SendFails ==
    /\ stage = "open" /\ peer = "gone"
    /\ Return("error")
    /\ UNCHANGED <<file, cmd, named, target, work, connection>>

\* rx: a Read returns part of what is there, and the whole buffer is searched,
\* for the failure first.
Verdict_ofChunk(n) ==
    LET Has(m) == \E i \in (heard + 1)..(n - 1) :
                     said[i] = Half(m) /\ said[i + 1] = Rest(m)
    IN  IF Has("fail") THEN "error" ELSE IF Has("ok") THEN "nil" ELSE "none"

Verdict(n) ==
    CASE Contains(n, "fail") -> "error"
      [] ~Contains(n, "fail") /\ Contains(n, "ok") -> "nil"
      [] OTHER -> "none"

Read ==
    /\ stage = "sent" /\ ~late
    /\ \E n \in (heard + 1)..Len(said) :
          /\ heard' = n
          /\ result' = Outcome(Verdict(n))
          /\ stage' = IF Verdict(n) = "none" THEN "sent" ELSE "idle"
    /\ UNCHANGED <<file, cmd, named, target, work, said, late, peer, quoted>>

\* The deadline is set once, before the first Read: when it has passed every
\* Read fails, whatever is there to be read.
ReadTimesOut ==
    /\ stage = "sent" /\ late
    /\ Return("error")
    /\ UNCHANGED <<file, cmd, named, target, work, connection>>

\* The end of the stream is an error, once all of it has been read.
ReadEnds_early ==
    /\ stage = "sent" /\ ~late /\ peer = "gone"
    /\ Return("error")
    /\ UNCHANGED <<file, cmd, named, target, work, connection>>

ReadEnds_succeeds ==
    /\ stage = "sent" /\ ~late /\ peer = "gone" /\ heard = Len(said)
    /\ Return("nil")
    /\ UNCHANGED <<file, cmd, named, target, work, connection>>

ReadEnds ==
    /\ stage = "sent" /\ ~late /\ peer = "gone" /\ heard = Len(said)
    /\ Return("error")
    /\ UNCHANGED <<file, cmd, named, target, work, connection>>

Tick ==
    /\ stage = "sent" /\ ~late
    /\ late' = TRUE
    /\ UNCHANGED <<file, cmd, named, stage, target, result, work, said, heard, peer, quoted>>

\* The caller takes the answer; whatever is left of the connection is closed.
Again_keepsBuffer ==
    /\ result # "none"
    /\ cmd' = "none" /\ result' = "none" /\ work' = "none" /\ named' = TRUE
    /\ target' = "client"
    /\ said' = <<>> /\ late' = FALSE /\ peer' = "none" /\ quoted' = FALSE
    /\ UNCHANGED <<file, stage, heard>>

Again ==
    /\ result # "none"
    /\ cmd' = "none" /\ result' = "none" /\ work' = "none" /\ named' = TRUE
    /\ target' = "client"
    /\ said' = <<>> /\ heard' = 0 /\ late' = FALSE /\ peer' = "none" /\ quoted' = FALSE
    /\ UNCHANGED <<file, stage>>

-----------------------------------------------------------------------------
\* The daemon.

\* It has the command: sent, and perhaps given up by the caller since.
HasCommand ==
    /\ peer = "open"
    /\ stage = "sent" \/ (result = "error" /\ stage = "idle")

\* Carrying out a create makes the client's socket, a removal takes it away.  An
\* update arrives as a bare `set`, without its value: there is nothing to carry out.
Carry ==
    /\ HasCommand /\ work = "none"
    /\ work' = IF cmd \in Updates THEN "skipped" ELSE "done"
    /\ file' = CASE cmd = "create" /\ named -> [file EXCEPT !["client"] = "live"]
                 [] cmd = "rm" -> [file EXCEPT !["client"] = "absent"]
                 [] OTHER -> file
    /\ UNCHANGED <<cmd, named, stage, target, result, connection>>

Decline ==
    /\ HasCommand /\ work = "none"
    /\ work' = "refused"
    /\ UNCHANGED <<file, cmd, named, stage, target, result, connection>>

\* It writes the output of the command, which may quote a marker, ...
Talk ==
    /\ stage = "sent" /\ peer = "open"
    /\ \/ /\ Len(said) < MaxSaid
          /\ said' = Append(said, "text")
          /\ UNCHANGED quoted
       \/ \E q \in Quotes :
            /\ Len(said) + 2 <= MaxSaid
            /\ said' = Write(q)
            /\ quoted' = TRUE
    /\ UNCHANGED <<file, cmd, named, stage, target, result, work, heard, late, peer>>

\* ... and then the verdict.
Answer ==
    /\ stage = "sent" /\ peer = "open" /\ work \in {"done", "refused", "skipped"}
    /\ said' = Write(IF work = "refused" THEN "fail" ELSE "ok")
    /\ peer' = "answered"
    /\ UNCHANGED <<file, cmd, named, stage, target, result, work, heard, late, quoted>>

\* It closes the connection, or dies: its sockets stay behind or are unlinked.
HangUp ==
    /\ peer \in {"open", "answered"}
    /\ peer' = "gone"
    /\ UNCHANGED <<file, cmd, named, stage, target, result, work, said, heard, late, quoted>>

Die ==
    /\ file["create"] = "live"
    /\ file' \in {f \in [{"create", "client"} -> {"absent", "dead"}] :
                     file["client"] = "absent" => f["client"] = "absent"}
    /\ peer' = IF peer = "none" THEN "none" ELSE "gone"
    /\ UNCHANGED <<cmd, named, stage, target, result, work, said, heard, late, quoted>>

Restart ==
    /\ file["create"] # "live"
    /\ file' \in {[file EXCEPT !["create"] = "live", !["client"] = c] :
                     c \in {file["client"], "live"}}
    /\ UNCHANGED <<cmd, named, stage, target, result, work, connection>>

-----------------------------------------------------------------------------
Caller == ClientGone \/ ClientThere \/ Refuse \/ Accept \/ ToolDoes \/ ToolSkips
          \/ ToolFails \/ Connect \/ ConnectFails \/ Send \/ SendFails
          \/ Read \/ ReadTimesOut \/ ReadEnds
Micad == Carry \/ Decline \/ Talk \/ Answer \/ HangUp \/ Die \/ Restart

Next == Ask \/ Again \/ Caller \/ Tick \/ Micad

\* The caller's goroutine runs and its clock advances; micad owes nothing.
Spec == Init /\ [][Next]_vars /\ WF_vars(Caller) /\ WF_vars(Tick)

-----------------------------------------------------------------------------
\* Properties.

\* What the caller sees of all this (socket.go:112-137): see Exchange.tla.
Calling ==
    CASE result # "none" -> result
      [] result = "none" /\ cmd # "none" -> "waiting"
      [] OTHER -> "none"

\* What the caller needs to know when it gets nil: that the client is gone, that the
\* command has been carried out, or nothing, as for the updates.
Wished ==
    CASE cmd = "none" -> "none"
      [] cmd = "rm" -> "absence"
      [] cmd \in Updates -> "try"
      [] OTHER -> "deed"

Promise == INSTANCE Exchange WITH call <- Calling, work <- work, wish <- Wished

\* However slow, talkative or dead micad is, the call returns.  It returns nil for a
\* create, start, pause or resume only when that has been carried out, and for a
\* removal only when that has been carried out or there was no client; the nil of an
\* update says that xl or micad took it, and perhaps did nothing
\* (client.go:352-441, client_xl_workaround.go:13-69, socket.go:57-137).
KeepsPromise == Promise!Spec

\* A marker that has arrived is heeded at once, even when it came in two reads:
\* a call still reading has no whole marker in its buffer (socket.go:87-106).
HeardIsHeeded ==
    stage = "sent" => ~Contains(heard, "ok") /\ ~Contains(heard, "fail")

\* A success that micad reported before the deadline is not lost, neither to the
\* text around it nor to the end of the stream that follows it; only a failure
\* quoted by the command's own output hides it (socket.go:73-106).
SuccessIsHeeded ==
    (result = "error" /\ ~late /\ ~quoted /\ cmd # "status")
        => ~Contains(Len(said), "ok")
=============================================================================
