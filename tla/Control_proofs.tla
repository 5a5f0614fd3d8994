--------------------------- MODULE Control_proofs ---------------------------
(***************************************************************************)
(* Proofs about Control: the types, and that the call keeps the safety     *)
(* half of what Exchange promises, provided that no output of a command    *)
(* quotes the success marker.  That calls return is left to TLC.           *)
(***************************************************************************)
EXTENDS Control, TLAPS

Pieces == {"text", "ok1", "ok2", "fail1", "fail2"}

\* Where a call is tells what it has done so far.
StageInv ==
    /\ stage # "idle" => cmd # "none" /\ result = "none"
    /\ cmd = "none" => result = "none" /\ work = "none"
    /\ stage = "idle" /\ cmd # "none" => result # "none"
    /\ stage \notin {"idle", "sent"} => work = "none" /\ said = <<>> /\ heard = 0
    /\ stage \in {"exists", "valid", "xl", "ped", "dial"} => peer = "none"
    /\ stage = "exists" => cmd = "rm"
    /\ stage = "xl" => cmd \in Updates
    /\ stage = "ped" => cmd \in {"pause", "resume"}
    /\ work = "skipped" => cmd \in Updates
    /\ cmd = "none" => said = <<>> /\ heard = 0 /\ peer = "none"

\* A marker on the wire is micad's verdict or a quotation.
Honest ==
    /\ Contains(Len(said), "ok") => work \in {"done", "skipped"} \/ "ok" \in Quotes
    /\ Contains(Len(said), "ok") => work \in {"done", "skipped"} \/ quoted
    /\ Contains(Len(said), "fail") => work = "refused" \/ quoted

IInv == TypeOK /\ StageInv /\ Honest /\ HeardIsHeeded /\ SuccessIsHeeded

\* A piece that is appended completes no marker that was half there.
LEMMA AppendPiece ==
    ASSUME NEW s \in Seq(Pieces), NEW p \in Pieces \ {"ok2", "fail2"},
           NEW m \in {"ok", "fail"},
           NEW i \in 1..(Len(Append(s, p)) - 1),
           Append(s, p)[i] = Half(m), Append(s, p)[i + 1] = Rest(m)
    PROVE  i \in 1..(Len(s) - 1) /\ s[i] = Half(m) /\ s[i + 1] = Rest(m)
  <1>1. Len(Append(s, p)) = Len(s) + 1
    OBVIOUS
  <1>2. Append(s, p)[Len(s) + 1] = p
    OBVIOUS
  <1>3. i # Len(s)
    BY <1>1, <1>2 DEF Rest
  <1> QED BY <1>1, <1>3

\* A whole marker that is appended adds itself and nothing else.
LEMMA AppendMarker ==
    ASSUME NEW s \in Seq(Pieces), NEW q \in {"ok", "fail"},
           NEW m \in {"ok", "fail"}, m # q,
           NEW i \in 1..(Len(Append(Append(s, Half(q)), Rest(q))) - 1),
           Append(Append(s, Half(q)), Rest(q))[i] = Half(m),
           Append(Append(s, Half(q)), Rest(q))[i + 1] = Rest(m)
    PROVE  i \in 1..(Len(s) - 1) /\ s[i] = Half(m) /\ s[i + 1] = Rest(m)
  <1> DEFINE r == Append(s, Half(q))
             t == Append(r, Rest(q))
  <1>1. r \in Seq(Pieces) /\ Len(r) = Len(s) + 1 /\ r[Len(s) + 1] = Half(q)
    BY DEF Half, Pieces
  <1>2. Len(t) = Len(r) + 1 /\ t[Len(r) + 1] = Rest(q)
    BY <1>1 DEF Rest, Pieces
  <1>3. \A j \in 1..Len(r) : t[j] = r[j]
    BY <1>1 DEF Rest, Pieces
  <1>4. i # Len(r)
    BY <1>2 DEF Rest
  <1>5. i \in 1..(Len(r) - 1) /\ r[i] = Half(m) /\ r[i + 1] = Rest(m)
    BY <1>1, <1>2, <1>3, <1>4
  <1>6. Half(q) \in Pieces \ {"ok2", "fail2"}
    BY DEF Half, Pieces
  <1> QED BY <1>5, <1>6, AppendPiece

-----------------------------------------------------------------------------
LEMMA InitInv == Init => IInv
  <1> SUFFICES ASSUME Init PROVE IInv
    OBVIOUS
  <1>1. TypeOK
    <2>1. file \in [{"create", "client"} -> {"absent", "dead", "live"}]
      BY DEF Init
    <2>2. said \in Seq(Pieces) /\ heard \in 0..Len(said)
      BY DEF Init
    <2>3. named \in BOOLEAN /\ late \in BOOLEAN /\ quoted \in BOOLEAN
      BY DEF Init
    <2>4. cmd \in Commands \cup {"none"} /\ stage \in Stages
      BY DEF Init, Stages
    <2> QED BY <2>1, <2>2, <2>3, <2>4 DEF Init, TypeOK, Pieces
  <1>2. ~Contains(Len(said), "ok") /\ ~Contains(Len(said), "fail")
    BY DEF Init, Contains
  <1> QED BY <1>1, <1>2 DEF Init, IInv, StageInv, Honest, HeardIsHeeded, SuccessIsHeeded

\* Steps that neither write nor read the connection leave the markers alone; they
\* may end the call with an error only before anything has been sent, or late.
LEMMA QuietStep ==
    ASSUME IInv, TypeOK', StageInv', said' = said, quoted' = quoted, heard' = heard,
           work' = work \/ (~Contains(Len(said), "ok") /\ ~Contains(Len(said), "fail")),
           stage' = "sent" => stage = "sent" \/ said = <<>>,
           result' = "error" /\ ~late' /\ cmd' # "status"
               => \/ result = "error" /\ ~late /\ cmd # "status"
                  \/ said = <<>>
                  \/ stage = "sent" /\ heard = Len(said)
    PROVE  IInv'
  <1>1. said = <<>> => heard = 0
    BY DEF IInv, TypeOK
  <1>2. said = <<>> => ~Contains(Len(said), "ok")
    BY DEF Contains
  <1>3. Honest'
    BY DEF IInv, Honest, Contains
  <1>4. HeardIsHeeded'
    BY <1>1 DEF IInv, HeardIsHeeded, Contains
  <1>5. SuccessIsHeeded'
    BY <1>2 DEF IInv, SuccessIsHeeded, HeardIsHeeded, Contains
  <1> QED BY <1>3, <1>4, <1>5 DEF IInv

\* Before anything is written there is nothing to be found.
LEMMA NothingWritten ==
    ASSUME said = <<>>
    PROVE  ~Contains(Len(said), "ok") /\ ~Contains(Len(said), "fail")
  BY DEF Contains

LEMMA CallerStep == IInv /\ Caller => IInv'
  <1> SUFFICES ASSUME IInv, Caller PROVE IInv'
    OBVIOUS
  <1> USE DEF IInv
  <1>1. CASE ClientGone
    <2>1. TypeOK' /\ StageInv'
      BY <1>1 DEF ClientGone, Return, Outcome, TypeOK, StageInv, Stages, connection
    <2> QED BY <1>1, <2>1, NothingWritten, QuietStep
            DEF ClientGone, Return, Outcome, StageInv, connection
  <1>2. CASE ClientThere
    <2>1. TypeOK' /\ StageInv'
      BY <1>2 DEF ClientThere, TypeOK, StageInv, Stages, connection
    <2> QED BY <1>2, <2>1, NothingWritten, QuietStep DEF ClientThere, StageInv, connection
  <1>3. CASE Refuse
    <2>1. TypeOK' /\ StageInv'
      BY <1>3 DEF Refuse, Return, Outcome, TypeOK, StageInv, Stages, connection
    <2> QED BY <1>3, <2>1, NothingWritten, QuietStep DEF Refuse, Return, StageInv, connection
  <1>4. CASE Accept
    <2>1. TypeOK' /\ StageInv'
      BY <1>4 DEF Accept, TypeOK, StageInv, Stages, connection
    <2> QED BY <1>4, <2>1, NothingWritten, QuietStep DEF Accept, StageInv, connection
  <1>5. CASE ToolDoes
    <2>1. TypeOK' /\ StageInv'
      BY <1>5 DEF ToolDoes, Return, Outcome, TypeOK, StageInv, Stages, connection
    <2> QED BY <1>5, <2>1, NothingWritten, QuietStep
            DEF ToolDoes, Return, Outcome, StageInv, connection
  <1>14. CASE ToolSkips
    <2>1. TypeOK' /\ StageInv'
      BY <1>14 DEF ToolSkips, Return, Outcome, TypeOK, StageInv, Stages, Updates, Wordless,
          connection
    <2> QED BY <1>14, <2>1, NothingWritten, QuietStep
            DEF ToolSkips, Return, Outcome, StageInv, Updates, Wordless, connection
  <1>6. CASE ToolFails
    <2>1. TypeOK' /\ StageInv'
      BY <1>6 DEF ToolFails, Return, Outcome, TypeOK, StageInv, Stages, connection
    <2> QED BY <1>6, <2>1, NothingWritten, QuietStep
            DEF ToolFails, Return, StageInv, connection
  <1>7. CASE Connect
    <2>1. TypeOK' /\ StageInv'
      BY <1>7 DEF Connect, TypeOK, StageInv, Stages
    <2> QED BY <1>7, <2>1, NothingWritten, QuietStep DEF Connect, StageInv
  <1>8. CASE ConnectFails
    <2>1. TypeOK' /\ StageInv'
      BY <1>8 DEF ConnectFails, Return, Outcome, TypeOK, StageInv, Stages, connection
    <2> QED BY <1>8, <2>1, NothingWritten, QuietStep
            DEF ConnectFails, Return, StageInv, connection
  <1>9. CASE Send
    <2>1. TypeOK' /\ StageInv'
      BY <1>9 DEF Send, TypeOK, StageInv, Stages, connection
    <2> QED BY <1>9, <2>1, NothingWritten, QuietStep DEF Send, StageInv, connection
  <1>10. CASE SendFails
    <2>1. TypeOK' /\ StageInv'
      BY <1>10 DEF SendFails, Return, Outcome, TypeOK, StageInv, Stages, connection
    <2> QED BY <1>10, <2>1, NothingWritten, QuietStep
            DEF SendFails, Return, StageInv, connection
  <1>11. CASE Read
    <2> PICK n \in (heard + 1)..Len(said) :
          /\ heard' = n
          /\ result' = Outcome(Verdict(n))
          /\ stage' = IF Verdict(n) = "none" THEN "sent" ELSE "idle"
      BY <1>11 DEF Read
    <2>1. TypeOK' /\ StageInv'
      BY <1>11 DEF Read, Outcome, Verdict, TypeOK, StageInv, Stages
    <2>2. Honest'
      BY <1>11 DEF Read, Honest, Contains
    <2>3. HeardIsHeeded'
      BY <1>11 DEF Read, HeardIsHeeded, Verdict, Contains
    <2>4. SuccessIsHeeded'
      <3> SUFFICES ASSUME result' = "error", ~late', ~quoted', cmd' # "status"
                   PROVE  ~Contains(Len(said), "ok")'
        BY DEF SuccessIsHeeded
      <3>1. Contains(n, "fail")
        BY <1>11 DEF Read, Outcome, Verdict
      <3>2. Contains(Len(said), "fail")
        BY <3>1 DEF Contains, TypeOK
      <3>3. ~Contains(Len(said), "ok")
        BY <1>11, <3>2 DEF Read, Honest
      <3> QED BY <1>11, <3>3 DEF Read, Contains
    <2> QED BY <2>1, <2>2, <2>3, <2>4
  <1>12. CASE ReadTimesOut
    <2>1. TypeOK' /\ StageInv'
      BY <1>12 DEF ReadTimesOut, Return, Outcome, TypeOK, StageInv, Stages, connection
    <2>2. stage' # "sent"
      BY <1>12 DEF ReadTimesOut, Return
    <2>4. result' = "error" /\ ~late' /\ cmd' # "status"
             => \/ result = "error" /\ ~late /\ cmd # "status"
                \/ said = <<>>
                \/ stage = "sent" /\ heard = Len(said)
      BY <1>12 DEF ReadTimesOut, connection
    <2>3. said' = said /\ quoted' = quoted /\ heard' = heard /\ work' = work
      BY <1>12 DEF ReadTimesOut, connection
    <2>5. IInv
      OBVIOUS
    <2> HIDE DEF IInv
    <2> QED BY <2>1, <2>2, <2>3, <2>4, <2>5, QuietStep
  <1>13. CASE ReadEnds
    <2>1. TypeOK' /\ StageInv'
      BY <1>13 DEF ReadEnds, Return, Outcome, TypeOK, StageInv, Stages, connection
    <2>2. stage = "sent" /\ heard = Len(said) /\ stage' # "sent"
      BY <1>13 DEF ReadEnds, Return
    <2>3. said' = said /\ quoted' = quoted /\ heard' = heard /\ work' = work
      BY <1>13 DEF ReadEnds, connection
    <2> QED BY <2>1, <2>2, <2>3, QuietStep
  <1> QED BY <1>1, <1>2, <1>3, <1>4, <1>5, <1>6, <1>7, <1>8, <1>9, <1>10, <1>11,
             <1>12, <1>13, <1>14 DEF Caller

\* What micad does to the connection.
LEMMA MicadStep == IInv /\ (Micad \/ Tick) => IInv'
  <1> SUFFICES ASSUME IInv, Micad \/ Tick PROVE IInv'
    OBVIOUS
  <1> USE DEF IInv
  <1>1. CASE Carry \/ Decline
    <2>1. TypeOK' /\ StageInv'
      BY <1>1 DEF Carry, Decline, HasCommand, TypeOK, StageInv, Stages, connection
    <2>2. ~Contains(Len(said), "ok") \/ quoted
      BY <1>1 DEF Carry, Decline, Honest
    <2>3. Honest'
      BY <1>1 DEF Carry, Decline, Honest, Contains, connection
    <2>4. HeardIsHeeded' /\ SuccessIsHeeded'
      BY <1>1 DEF Carry, Decline, HeardIsHeeded, SuccessIsHeeded, Contains, connection
    <2> QED BY <2>1, <2>3, <2>4
  <1>2. CASE HangUp \/ Die \/ Restart
    <2>1. TypeOK' /\ StageInv'
      BY <1>2 DEF HangUp, Die, Restart, TypeOK, StageInv, Stages, connection
    <2> QED BY <1>2, <2>1, QuietStep DEF HangUp, Die, Restart, connection
  <1>3. CASE Tick
    <2>1. TypeOK' /\ StageInv'
      BY <1>3 DEF Tick, TypeOK, StageInv, Stages
    <2>2. Honest' /\ HeardIsHeeded' /\ SuccessIsHeeded'
      BY <1>3 DEF Tick, Honest, HeardIsHeeded, SuccessIsHeeded, Contains, StageInv
    <2> QED BY <2>1, <2>2
  <1>4. CASE Talk
    <2>0. \/ said' = Append(said, "text")
          \/ \E q \in {"ok", "fail"} : said' = Write(q)
      BY <1>4, QuotesAssumption DEF Talk
    <2>1. said' \in Seq(Pieces) /\ Len(said) <= Len(said') /\ Len(said') \in Nat
      <3>1. ASSUME NEW q \in {"ok", "fail"}, said' = Write(q)
            PROVE  said' \in Seq(Pieces) /\ Len(said) <= Len(said') /\ Len(said') \in Nat
        BY <3>1 DEF Write, Half, Rest, TypeOK, Pieces
      <3>2. CASE said' = Append(said, "text")
        BY <3>2 DEF TypeOK, Pieces
      <3> QED BY <2>0, <3>1, <3>2
    <2>2. \A j \in 1..Len(said) : said'[j] = said[j]
      <3>1. ASSUME NEW q \in {"ok", "fail"}, said' = Write(q)
            PROVE  \A j \in 1..Len(said) : said'[j] = said[j]
        BY <3>1 DEF Write, Half, Rest, TypeOK, Pieces
      <3>2. CASE said' = Append(said, "text")
        BY <3>2 DEF TypeOK
      <3> QED BY <2>0, <3>1, <3>2
    <2>3. TypeOK' /\ StageInv'
      <3>0. quoted' \in BOOLEAN
        BY <1>4 DEF Talk, TypeOK
      <3>5. heard' = heard
        BY <1>4 DEF Talk
      <3>1. quoted' \in BOOLEAN /\ heard' \in 0..Len(said')
        BY <2>1, <3>0, <3>5 DEF TypeOK
      <3>2. StageInv'
        BY <1>4 DEF Talk, StageInv
      <3>3. late' \in BOOLEAN /\ named' \in BOOLEAN
        BY <1>4 DEF Talk, TypeOK
      <3>4. UNCHANGED <<file, cmd, stage, target, result, work, peer>>
        BY <1>4 DEF Talk
      <3> QED BY <2>1, <3>1, <3>2, <3>3, <3>4 DEF TypeOK, Pieces
    <2>4. \A m \in {"ok", "fail"} :
            Contains(Len(said), m)' => Contains(Len(said), m) \/ (quoted' /\ m \in Quotes)
      <3> SUFFICES ASSUME NEW m \in {"ok", "fail"},
                          NEW i \in 1..(Len(said') - 1),
                          said'[i] = Half(m), said'[i + 1] = Rest(m),
                          ~(quoted' /\ m \in Quotes)
                   PROVE  Contains(Len(said), m)
        BY DEF Contains
      <3>1. CASE said' = Append(said, "text")
        BY <3>1, AppendPiece DEF TypeOK, Contains, Pieces
      <3>2. ASSUME NEW q \in Quotes, said' = Write(q), quoted' = TRUE
            PROVE  Contains(Len(said), m)
        BY <3>2, QuotesAssumption, AppendMarker DEF TypeOK, Contains, Pieces, Write
      <3> QED BY <1>4, <3>1, <3>2 DEF Talk
    <2>5. quoted => quoted'
      BY <1>4 DEF Talk
    <2>6. work' = work /\ heard' = heard /\ stage' = "sent" /\ stage = "sent" /\ result' = result
      BY <1>4 DEF Talk
    <2>7. Honest'
      BY <2>4, <2>5, <2>6 DEF Honest
    <2>8. HeardIsHeeded'
      <3> SUFFICES ASSUME NEW m \in {"ok", "fail"}, NEW i \in 1..(heard - 1),
                          said'[i] = Half(m), said'[i + 1] = Rest(m)
                   PROVE  FALSE
        BY <2>6 DEF HeardIsHeeded, Contains
      <3>1. i \in 1..Len(said) /\ i + 1 \in 1..Len(said)
        BY DEF TypeOK
      <3>2. said[i] = Half(m) /\ said[i + 1] = Rest(m)
        BY <2>2, <3>1
      <3> QED BY <2>6, <3>2 DEF HeardIsHeeded, Contains
    <2>9. SuccessIsHeeded'
      BY <2>6 DEF SuccessIsHeeded, StageInv
    <2> QED BY <2>3, <2>7, <2>8, <2>9
  <1>5. CASE Answer
    <2> DEFINE v == IF work = "refused" THEN "fail" ELSE "ok"
    <2>0. v \in {"ok", "fail"} /\ said' = Write(v)
      BY <1>5 DEF Answer
    <2>1. said' \in Seq(Pieces) /\ Len(said) <= Len(said') /\ Len(said') \in Nat
      BY <2>0 DEF Write, Half, Rest, TypeOK, Pieces
    <2>2. \A j \in 1..Len(said) : said'[j] = said[j]
      BY <2>0 DEF Write, Half, Rest, TypeOK, Pieces
    <2>3. TypeOK' /\ StageInv'
      BY <1>5, <2>1 DEF Answer, TypeOK, StageInv, Stages, Pieces
    <2>4. \A m \in {"ok", "fail"} :
            Contains(Len(said), m)' => Contains(Len(said), m) \/ m = v
      <3> SUFFICES ASSUME NEW m \in {"ok", "fail"}, m # v,
                          NEW i \in 1..(Len(said') - 1),
                          said'[i] = Half(m), said'[i + 1] = Rest(m)
                   PROVE  Contains(Len(said), m)
        BY DEF Contains
      <3> HIDE DEF v
      <3> QED BY <2>0, AppendMarker DEF TypeOK, Contains, Pieces, Write
    <2>6. work' = work /\ heard' = heard /\ stage' = "sent" /\ stage = "sent"
          /\ result' = result /\ quoted' = quoted /\ work \in {"done", "refused", "skipped"}
      BY <1>5 DEF Answer
    <2>7. Honest'
      BY <2>4, <2>6 DEF Honest
    <2>8. HeardIsHeeded'
      <3> SUFFICES ASSUME NEW m \in {"ok", "fail"}, NEW i \in 1..(heard - 1),
                          said'[i] = Half(m), said'[i + 1] = Rest(m)
                   PROVE  FALSE
        BY <2>6 DEF HeardIsHeeded, Contains
      <3>1. i \in 1..Len(said) /\ i + 1 \in 1..Len(said)
        BY DEF TypeOK
      <3>2. said[i] = Half(m) /\ said[i + 1] = Rest(m)
        BY <2>2, <3>1
      <3> QED BY <2>6, <3>2 DEF HeardIsHeeded, Contains
    <2>9. SuccessIsHeeded'
      BY <2>6 DEF SuccessIsHeeded, StageInv
    <2> QED BY <2>3, <2>7, <2>8, <2>9
  <1> QED BY <1>1, <1>2, <1>3, <1>4, <1>5 DEF Micad

LEMMA NextInv == IInv /\ [Next]_vars => IInv'
  <1> SUFFICES ASSUME IInv, [Next]_vars PROVE IInv'
    OBVIOUS
  <1>1. CASE Ask
    <2>1. TypeOK' /\ StageInv'
      BY <1>1 DEF Ask, AskFirst, IInv, TypeOK, StageInv, Stages, Commands, Updates, connection
    <2> QED BY <1>1, <2>1, NothingWritten, QuietStep DEF Ask, IInv, StageInv, connection
  <1>2. CASE Again
    <2>1. said' = <<>> /\ said' \in Seq(Pieces) /\ Len(said') = 0
      BY <1>2 DEF Again
    <2>2. TypeOK' /\ StageInv'
      <3>1. cmd' \in Commands \cup {"none"} /\ heard' \in 0..Len(said')
        BY <1>2, <2>1 DEF Again
      <3>2. stage = "idle"
        BY <1>2 DEF Again, IInv, StageInv
      <3> QED BY <1>2, <2>1, <3>1, <3>2 DEF Again, IInv, TypeOK, StageInv, Stages, Pieces
    <2>3. Honest' /\ HeardIsHeeded' /\ SuccessIsHeeded'
      BY <1>2, <2>1 DEF Again, IInv, StageInv, Honest, HeardIsHeeded, SuccessIsHeeded, Contains
    <2> QED BY <2>2, <2>3 DEF IInv
  <1>3. CASE UNCHANGED vars
    BY <1>3 DEF vars, IInv, TypeOK, StageInv, Honest, HeardIsHeeded, SuccessIsHeeded, Contains
  <1> QED BY <1>1, <1>2, <1>3, CallerStep, MicadStep DEF Next

LEMMA SpecIInv == Spec => []IInv
  <1> QED BY InitInv, NextInv, PTL DEF Spec

\* The types, for answers of any length.
THEOREM ControlTypes == Spec => []TypeOK
  <1>1. IInv => TypeOK
    BY DEF IInv
  <1> QED BY <1>1, SpecIInv, PTL

\* A marker that is heard whole is heeded at once, and the failure before the success,
\* however the reads cut the answer (socket.go:87-106).
THEOREM Heeded == Spec => []HeardIsHeeded
  <1>1. IInv => HeardIsHeeded
    BY DEF IInv
  <1> QED BY <1>1, SpecIInv, PTL

\* A success that micad reported in time is not turned into an error by the end of the
\* connection or the deadline (socket.go:73-106).
THEOREM SuccessKept == Spec => []SuccessIsHeeded
  <1>1. IInv => SuccessIsHeeded
    BY DEF IInv
  <1> QED BY <1>1, SpecIInv, PTL

\* One step of the call is a step of the promise, or none of it.
LEMMA StepSim ==
    ASSUME "ok" \notin Quotes, IInv, IInv', [Next]_vars
    PROVE  [Promise!Next]_(Promise!exchange)
  <1> USE DEF IInv, Calling, Wished, Promise!exchange
  <1> SUFFICES ASSUME Next PROVE [Promise!Next]_(Promise!exchange)
    BY DEF vars
  <1>1. CASE Ask
    BY <1>1 DEF Ask, TypeOK, StageInv, Commands, Updates, Promise!Next, Promise!Ask
  <1>2. CASE Again
    <2>1. Calling \in {"nil", "error"}
      BY <1>2 DEF Again, TypeOK
    <2>2. Calling' = "none" /\ work' = "none" /\ Wished' = "none"
      BY <1>2 DEF Again, Updates
    <2> HIDE DEF Calling, Wished
    <2> QED BY <2>1, <2>2 DEF Promise!Next, Promise!Forget
  <1>3. CASE ClientGone
    BY <1>3 DEF ClientGone, Return, Outcome, TypeOK, StageInv, Updates, Promise!Next,
        Promise!Return, Promise!ReturnMoot, Promise!ReturnError
  <1>4. CASE ClientThere \/ Accept \/ Connect \/ Send \/ Tick
    BY <1>4 DEF ClientThere, Accept, Connect, Send, Tick, StageInv, connection
  <1>5. CASE Refuse \/ ConnectFails \/ SendFails \/ ReadTimesOut \/ ReadEnds
    BY <1>5 DEF Refuse, ConnectFails, SendFails, ReadTimesOut, ReadEnds, Return, Outcome,
        StageInv, connection, Promise!Next, Promise!Return, Promise!ReturnError
  <1>6. CASE ToolDoes
    BY <1>6 DEF ToolDoes, Return, Outcome, StageInv, Updates, Promise!Next,
        Promise!DoAndReturn, Promise!Takes
  <1>11. CASE ToolSkips
    BY <1>11 DEF ToolSkips, Return, Outcome, StageInv, Updates, Wordless, Promise!Next,
        Promise!DoAndReturn, Promise!Takes
  <1>7. CASE ToolFails
    BY <1>7 DEF ToolFails, Return, Outcome, StageInv, Promise!Next,
        Promise!Return, Promise!ReturnError
  <1>8. CASE Read
    <2> PICK n \in (heard + 1)..Len(said) :
          /\ result' = Outcome(Verdict(n))
          /\ stage' = IF Verdict(n) = "none" THEN "sent" ELSE "idle"
      BY <1>8 DEF Read
    <2>1. CASE result' = "nil"
      <3>1. Contains(n, "ok")
        BY <2>1 DEF Outcome, Verdict
      <3>2. Contains(Len(said), "ok")
        BY <3>1 DEF Contains, TypeOK
      <3>3. work = "done" \/ (work = "skipped" /\ cmd \in Updates)
        BY <3>2 DEF Honest, StageInv
      <3>4. work \in Promise!Takes
        BY <3>3 DEF Promise!Takes, Updates
      <3> QED BY <1>8, <2>1, <3>4 DEF Read, StageInv, Promise!Next, Promise!Return,
              Promise!ReturnNil
    <2>2. CASE result' = "error"
      BY <1>8, <2>2 DEF Read, StageInv, Promise!Next, Promise!Return, Promise!ReturnError
    <2>3. CASE result' = "none"
      BY <1>8, <2>3 DEF Read, StageInv
    <2> QED BY <2>1, <2>2, <2>3 DEF TypeOK
  <1>9. CASE Carry \/ Decline
    BY <1>9 DEF Carry, Decline, HasCommand, TypeOK, StageInv, connection, Updates, Promise!Next,
        Promise!Settle, Promise!Takes
  <1>10. CASE Talk \/ Answer \/ HangUp \/ Die \/ Restart
    BY <1>10 DEF Talk, Answer, HangUp, Die, Restart, connection
  <1> QED BY <1>1, <1>2, <1>3, <1>4, <1>5, <1>6, <1>7, <1>8, <1>9, <1>10, <1>11
          DEF Next, Caller, Micad

\* The safety half of the promise, for every daemon that may be slow, die, restart
\* or quote a failure, but never prints the success marker for another reason:
\* nil is returned for a create, start, pause or resume only when it was carried out, for
\* a removal also when there was no client; for an update it says less (Exchange.tla).
THEOREM Promised ==
    ASSUME "ok" \notin Quotes
    PROVE  Spec => Promise!SafeSpec
  <1>1. Init => Promise!Init
    BY DEF Init, Calling, Wished, Updates, Promise!Init
  <1>2. IInv /\ IInv' /\ [Next]_vars => [Promise!Next]_(Promise!exchange)
    BY StepSim
  <1> QED BY <1>1, <1>2, InitInv, NextInv, PTL DEF Spec, Promise!SafeSpec
=============================================================================
