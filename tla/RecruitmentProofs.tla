--------------------------- MODULE RecruitmentProofs ---------------------------
(***************************************************************************)
(* The version of an application is what makes its operations safe: a      *)
(* request commits only if the version it has read is still current, and   *)
(* then everything it has checked of the application is current too.  An   *)
(* account of the hired lives as long as one phone number leads to it.     *)
(***************************************************************************)
EXTENDS Recruitment, TLAPS

USE RecruitmentAssumption

\* The parts of HistoryIsPath, HiredIsEvaluated for one application.
Path(a) ==
  apps[a].status # "NONE" =>
    /\ Len(transitions[a]) = apps[a].version + 1
    /\ transitions[a][1].from = "PRE_INTERVIEW_FORM"
    /\ transitions[a][Len(transitions[a])].to = apps[a].stage
    /\ \A i \in 1 .. Len(transitions[a]) - 1 : transitions[a][i].to = transitions[a][i + 1].from

\* What a row alone says of the stages behind it.
Interviewed(row) ==
  /\ row.status # "NONE" => row.phone \in Phones /\ "PRE_INTERVIEW_FORM" \in row.forms
  /\ row.stage \in {"TECHNICAL_INTERVIEW_ASSIGNMENT", "TECHNICAL_INTERVIEW",
                    "SUPERADMIN_APPROVAL", "PROFILE_COMPLETION"} => "INITIAL_INTERVIEW" \in row.forms
  /\ row.stage \in {"SUPERADMIN_APPROVAL", "PROFILE_COMPLETION"} =>
       /\ "TECHNICAL_INTERVIEW" \in row.forms
       /\ row.evaluator # NoOne /\ row.evaluator = row.assignee
  /\ row.status = "HIRED" => row.stage = "PROFILE_COMPLETION"

Unborn(a) == applying[a].pc # "done" => apps[a].status = "NONE"
Typing(a) == applying[a].pc = "create" => applying[a].phone \in Phones

\* What a request has checked holds as long as the version it has read is current.
Bound(u) ==
  desk[u] # Idle =>
    LET row == apps[desk[u].app] IN
    /\ row.status # "NONE" /\ desk[u].version < MaxVersion /\ desk[u].version <= row.version
    /\ desk[u].version = row.version =>
         /\ row.stage = Expected[desk[u].pc]
         /\ desk[u].pc = "submitTechnical" => row.assignee = u

\* Only the hired have an account, and one phone number leads to it.
Numbered ==
  \A a \in Applications :
    /\ apps[a].finalUser # 0 => apps[a].status = "HIRED"
    /\ \A phone \in Phones : holder[phone].of = a => holder[phone].number # 0
    /\ \A p, q \in Phones : holder[p].of = a /\ holder[q].of = a => p = q

RecInv ==
  /\ TypeOK
  /\ \A a \in Applications : Path(a) /\ Interviewed(apps[a]) /\ Unborn(a) /\ Typing(a)
  /\ \A u \in Staff : Bound(u)
  /\ Numbered /\ OneAccountPerHire

LEMMA ExpectedType == Expected \in [Operation -> Stage]
BY DEF Expected, Operation, Stage

LEMMA InitRec == Init => RecInv
<1> SUFFICES ASSUME Init PROVE RecInv
  OBVIOUS
<1>1. TypeOK
  BY DEF Init, TypeOK, Application, Absent, Stage, Request, Transition, Account, Nobody, Colleague
<1>2. \A a \in Applications : Path(a) /\ Interviewed(apps[a]) /\ Unborn(a) /\ Typing(a)
  BY DEF Init, Path, Interviewed, Unborn, Typing, Absent
<1>3. \A u \in Staff : Bound(u)
  BY DEF Init, Bound
<1>4. Numbered /\ OneAccountPerHire
  BY DEF Init, Numbered, OneAccountPerHire, Absent, Nobody, Colleague
<1> QED BY <1>1, <1>2, <1>3, <1>4 DEF RecInv

-----------------------------------------------------------------------------

LEMMA AppendLast ==
  ASSUME NEW S, NEW s \in Seq(S), NEW e \in S, NEW n \in Nat, Len(s) = n + 1
  PROVE  /\ Len(Append(s, e)) = Len(s) + 1 /\ Len(s) \in Nat /\ Len(s) >= 1
         /\ Append(s, e)[Len(s) + 1] = e /\ \A i \in 1 .. Len(s) : Append(s, e)[i] = s[i]
OBVIOUS

\* A commit under a current version keeps everything except what depends on the
\* fields the operation itself writes.
LEMMA CommitKeeps ==
  ASSUME RecInv, NEW u \in Staff, desk[u] # Idle, IsCurrent(u),
         NEW row \in Application, NEW to \in Stage, Commit(u, row, to), Leave(u),
         row.version = Row(u).version, row.status # "NONE",
         Interviewed([row EXCEPT !.stage = to, !.version = @ + 1]),
         UNCHANGED applying,
         holder' \in [Phones -> Account], made' \in [Applications -> Nat], changes' \in Nat
  PROVE  /\ TypeOK'
         /\ \A a \in Applications : (Path(a) /\ Interviewed(apps[a]) /\ Unborn(a) /\ Typing(a))'
         /\ \A v \in Staff : Bound(v)'
<1> DEFINE b == desk[u].app
           next == [row EXCEPT !.stage = to, !.version = @ + 1]
           entry == [from |-> Expected[desk[u].pc], to |-> to, action |-> desk[u].pc]
<1>1. /\ b \in Applications /\ desk[u].pc \in Operation /\ desk[u].version \in Nat
      /\ apps[b] \in Application /\ transitions[b] \in Seq(Transition)
  BY DEF RecInv, TypeOK, Request, Idle
<1>2. /\ apps' = [apps EXCEPT ![b] = next]
      /\ transitions' = [transitions EXCEPT ![b] = Append(@, entry)]
      /\ desk' = [desk EXCEPT ![u] = Idle]
  BY DEF Commit, Leave
<1>3. /\ apps[b].status # "NONE" /\ apps[b].version = desk[u].version
      /\ apps[b].version < MaxVersion /\ apps[b].stage = Expected[desk[u].pc]
      /\ row.version = apps[b].version
  BY <1>1 DEF RecInv, Bound, IsCurrent, Row
<1>4. entry \in Transition
  BY <1>1, ExpectedType DEF Transition
<1>5. next \in Application /\ next.version = apps[b].version + 1 /\ next.stage = to
      /\ next.status = row.status
  <2>1. row.version \in Nat /\ row.version + 1 \in 0 .. MaxVersion /\ apps[b].version \in Nat
    BY <1>1, <1>3, RecruitmentAssumption DEF Application
  <2>2. next.version = row.version + 1 /\ next.stage = to /\ next.status = row.status
    BY DEF Application
  <2>3. next \in Application
    BY <2>1, <2>2 DEF Application
  <2> QED BY <1>3, <2>2, <2>3
<1>6. TypeOK'
  <2>1. apps' \in [Applications -> Application]
    BY <1>1, <1>2, <1>5 DEF RecInv, TypeOK
  <2>2. transitions' \in [Applications -> Seq(Transition)]
    BY <1>1, <1>2, <1>4 DEF RecInv, TypeOK
  <2>3. desk' \in [Staff -> Request]
    BY <1>2 DEF RecInv, TypeOK, Request
  <2> QED BY <2>1, <2>2, <2>3 DEF RecInv, TypeOK
<1>7. ASSUME NEW a \in Applications
      PROVE  (Path(a) /\ Interviewed(apps[a]) /\ Unborn(a) /\ Typing(a))'
  <2>1. CASE a # b
    BY <1>1, <1>2, <2>1 DEF RecInv, TypeOK, Path, Interviewed, Unborn, Typing
  <2>2. CASE a = b
    <3>1. apps'[a] = next /\ transitions'[a] = Append(transitions[a], entry)
      BY <1>1, <1>2, <2>2 DEF RecInv, TypeOK
    <3>2. Path(a)
      BY DEF RecInv
    <3>3. Path(a)'
      <4>1. /\ transitions[a] \in Seq(Transition) /\ Len(transitions[a]) = apps[a].version + 1
            /\ apps[a].version \in Nat
            /\ transitions[a][1].from = "PRE_INTERVIEW_FORM"
            /\ transitions[a][Len(transitions[a])].to = apps[a].stage
            /\ \A i \in 1 .. Len(transitions[a]) - 1 :
                 transitions[a][i].to = transitions[a][i + 1].from
        BY <1>1, <1>3, <2>2, <3>2 DEF Path, Application
      <4>2. entry.from = apps[a].stage /\ entry.to = to
        BY <1>3, <2>2
      <4> DEFINE old == transitions[a]
                 new == Append(old, entry)
      <4> HIDE DEF entry
      <4>3. /\ Len(new) = Len(old) + 1 /\ Len(old) \in Nat /\ Len(old) >= 1
            /\ new[Len(old) + 1] = entry /\ \A i \in 1 .. Len(old) : new[i] = old[i]
        <5>1. /\ old \in Seq(Transition) /\ entry \in Transition /\ apps[a].version \in Nat
              /\ Len(old) = apps[a].version + 1
          BY <4>1, <1>4
        <5>2. PICK s \in Seq(Transition) : s = old
          BY <5>1
        <5>3. PICK e \in Transition : e = entry
          BY <5>1
        <5>4. PICK n \in Nat : Len(s) = n + 1
          BY <5>1, <5>2
        <5> HIDE DEF old
        <5>5. /\ Len(Append(s, e)) = Len(s) + 1 /\ Len(s) \in Nat /\ Len(s) >= 1
              /\ Append(s, e)[Len(s) + 1] = e /\ \A i \in 1 .. Len(s) : Append(s, e)[i] = s[i]
          BY <5>4, AppendLast
        <5>6. new = Append(s, e)
          BY <5>2, <5>3
        <5> HIDE DEF new
        <5> QED BY <5>2, <5>3, <5>5, <5>6
      <4>4. \A i \in 1 .. Len(new) - 1 : new[i].to = new[i + 1].from
        <5> SUFFICES ASSUME NEW i \in 1 .. Len(old) PROVE new[i].to = new[i + 1].from
          BY <4>3
        <5>1. CASE i = Len(old)
          BY <4>1, <4>2, <4>3, <5>1
        <5>2. CASE i # Len(old)
          <6>1. i \in 1 .. Len(old) - 1 /\ i + 1 \in 1 .. Len(old)
            BY <4>3, <5>2
          <6> QED BY <6>1, <4>1, <4>3
        <5> QED BY <5>1, <5>2
      <4>5. /\ Len(new) = next.version + 1 /\ new[1].from = "PRE_INTERVIEW_FORM"
            /\ new[Len(new)].to = next.stage
        <5>1. 1 \in 1 .. Len(old) /\ new[1] = old[1] /\ new[Len(new)] = entry
          BY <4>3
        <5>2. next.version = apps[a].version + 1 /\ next.stage = to
          BY <1>5, <2>2
        <5> HIDE DEF new, old, entry, next
        <5> QED BY <4>1, <4>2, <4>3, <5>1, <5>2 DEF old
      <4> QED BY <3>1, <4>4, <4>5 DEF Path
    <3>4. Interviewed(apps[a])'
      BY <3>1 DEF Interviewed
    <3>5. Unborn(a)' /\ Typing(a)'
      BY <1>3, <2>2, <3>1 DEF RecInv, Unborn, Typing
    <3> QED BY <3>3, <3>4, <3>5
  <2> QED BY <2>1, <2>2
<1>8. ASSUME NEW v \in Staff PROVE Bound(v)'
  <2>1. CASE v = u
    BY <1>2, <2>1 DEF RecInv, TypeOK, Bound
  <2>2. CASE v # u
    <3>1. desk'[v] = desk[v]
      BY <1>2, <2>2 DEF RecInv, TypeOK
    <3>2. CASE desk[v] = Idle
      BY <3>1, <3>2 DEF Bound
    <3>3. CASE desk[v] # Idle
      <4>1. desk[v].app \in Applications /\ desk[v].version \in Nat
        BY <3>3 DEF RecInv, TypeOK, Request, Idle
      <4>2. CASE desk[v].app = b
        <5>1. apps'[b] = next
          BY <1>1, <1>2 DEF RecInv, TypeOK
        <5>2. apps[b].version \in Nat
          BY <1>1 DEF Application
        <5>3. desk[v].version < MaxVersion /\ desk[v].version <= apps[b].version
          BY <3>3, <4>2 DEF RecInv, Bound
        <5> HIDE DEF next
        <5> QED BY <1>3, <1>5, <3>1, <4>1, <4>2, <5>1, <5>2, <5>3 DEF Bound
      <4>3. CASE desk[v].app # b
        BY <1>1, <1>2, <3>1, <4>1, <4>3 DEF RecInv, TypeOK, Bound
      <4> QED BY <4>2, <4>3
    <3> QED BY <3>2, <3>3
  <2> QED BY <2>1, <2>2
<1> QED BY <1>6, <1>7, <1>8

-----------------------------------------------------------------------------

\* A request that leaves without a commit changes nothing else.
LEMMA LeaveKeeps ==
  ASSUME RecInv, NEW u \in Staff, Leave(u), UNCHANGED <<apps, transitions, userVars, applying>>
  PROVE  RecInv'
<1>1. TypeOK'
  BY DEF RecInv, TypeOK, Leave, Request, userVars
<1>2. \A a \in Applications : (Path(a) /\ Interviewed(apps[a]) /\ Unborn(a) /\ Typing(a))'
  BY DEF RecInv, Path, Interviewed, Unborn, Typing
<1>3. \A v \in Staff : Bound(v)'
  BY DEF RecInv, TypeOK, Leave, Bound
<1>4. Numbered' /\ OneAccountPerHire'
  BY DEF RecInv, Numbered, OneAccountPerHire, userVars
<1> QED BY <1>1, <1>2, <1>3, <1>4 DEF RecInv

\* An operation that hires nobody leaves who is hired as it was.
LEMMA CommitHiresNobody ==
  ASSUME RecInv, NEW u \in Staff, desk[u] # Idle, NEW row, NEW to \in Stage, Commit(u, row, to),
         row.status # "HIRED", Row(u).status # "HIRED", row.finalUser = Row(u).finalUser,
         row \in Application, UNCHANGED userVars
  PROVE  Numbered' /\ OneAccountPerHire'
<1>1. desk[u].app \in Applications
  BY DEF RecInv, TypeOK, Request, Idle
<1>2. \A a \in Applications : /\ apps'[a].finalUser = apps[a].finalUser
                              /\ apps'[a].status = "HIRED" <=> apps[a].status = "HIRED"
  BY <1>1 DEF RecInv, TypeOK, Commit, Row, Application
<1> QED BY <1>2 DEF RecInv, Numbered, OneAccountPerHire, userVars

\* What a request knows when the version it has read is still current.
LEMMA CurrentFacts ==
  ASSUME RecInv, NEW u \in Staff, desk[u] # Idle, IsCurrent(u)
  PROVE  /\ Row(u) \in Application /\ Row(u).status # "NONE" /\ Row(u).stage = Expected[desk[u].pc]
         /\ Interviewed(Row(u)) /\ desk[u].interviewer \in Staff /\ Row(u).status # "HIRED"
         /\ desk[u].pc = "submitTechnical" => Row(u).assignee = u
<1>1. desk[u].app \in Applications /\ desk[u].interviewer \in Staff
  BY DEF RecInv, TypeOK, Request, Idle
<1>2. /\ Row(u) \in Application /\ Row(u).status # "NONE" /\ Row(u).stage = Expected[desk[u].pc]
      /\ Interviewed(Row(u)) /\ (desk[u].pc = "submitTechnical" => Row(u).assignee = u)
  BY <1>1 DEF RecInv, TypeOK, Bound, IsCurrent, Row
<1>3. Expected[desk[u].pc] # "PROFILE_COMPLETION"
  BY DEF RecInv, TypeOK, Request, Idle, Expected, Operation
<1> QED BY <1>1, <1>2, <1>3 DEF Interviewed

\* The operations before the last one: whatever they write, they hire nobody.
LEMMA OperationKeeps ==
  ASSUME RecInv, NEW u \in Staff, desk[u] # Idle, NEW row \in Application, NEW to \in Stage,
         Leave(u), UNCHANGED <<userVars, applying>>,
         \/ IsCurrent(u) /\ Commit(u, row, to)
         \/ ~IsCurrent(u) /\ Refuse,
         IsCurrent(u) =>
           /\ row.version = Row(u).version /\ row.status \notin {"NONE", "HIRED"}
           /\ row.finalUser = Row(u).finalUser
           /\ Interviewed([row EXCEPT !.stage = to, !.version = @ + 1])
  PROVE  RecInv'
<1>1. CASE ~IsCurrent(u)
  BY <1>1, LeaveKeeps DEF Refuse
<1>2. CASE IsCurrent(u)
  <2>1. holder' \in [Phones -> Account] /\ made' \in [Applications -> Nat] /\ changes' \in Nat
    BY DEF RecInv, TypeOK, userVars
  <2>2. Row(u).status # "HIRED"
    BY <1>2, CurrentFacts
  <2>3. Numbered' /\ OneAccountPerHire'
    BY <1>2, <2>2, CommitHiresNobody
  <2>4. /\ TypeOK'
        /\ \A a \in Applications : (Path(a) /\ Interviewed(apps[a]) /\ Unborn(a) /\ Typing(a))'
        /\ \A v \in Staff : Bound(v)'
    BY <1>2, <2>1, CommitKeeps
  <2> QED BY <2>3, <2>4 DEF RecInv
<1> QED BY <1>1, <1>2

LEMMA ApproveInitialSafe ==
  ASSUME RecInv, NEW u \in Staff, ApproveInitial(u) PROVE RecInv'
<1>1. CASE ~IsCurrent(u)
  BY <1>1, LeaveKeeps DEF ApproveInitial, Refuse
<1>2. CASE IsCurrent(u)
  <2>1. desk[u] # Idle /\ desk[u].pc = "approveInitial"
    BY DEF ApproveInitial, Idle
  <2>2. /\ Row(u) \in Application /\ Row(u).status # "NONE" /\ Interviewed(Row(u))
        /\ Row(u).stage = "INITIAL_REVIEW"
    BY <1>2, <2>1, CurrentFacts DEF Expected, Operation
  <2>3. Row(u).status \notin {"NONE", "HIRED"}
    BY <2>2 DEF Interviewed
  <2>4. Interviewed([Row(u) EXCEPT !.stage = "INITIAL_INTERVIEW", !.version = @ + 1])
    BY <2>2, <2>3 DEF Interviewed, Application
  <2> QED BY <1>2, <2>1, <2>2, <2>3, <2>4, OperationKeeps DEF ApproveInitial, Stage
<1> QED BY <1>1, <1>2

LEMMA RejectSafe ==
  ASSUME RecInv, NEW u \in Staff, Reject(u) PROVE RecInv'
<1>1. CASE ~IsCurrent(u)
  BY <1>1, LeaveKeeps DEF Reject, Refuse
<1>2. CASE IsCurrent(u)
  <2> DEFINE row == [Row(u) EXCEPT !.status = "REJECTED"]
  <2>1. desk[u] # Idle /\ desk[u].pc = "reject"
    BY DEF Reject, Idle
  <2>2. /\ Row(u) \in Application /\ Row(u).status # "NONE" /\ Interviewed(Row(u))
        /\ Row(u).stage = "INITIAL_REVIEW"
    BY <1>2, <2>1, CurrentFacts DEF Expected, Operation
  <2>3. row \in Application /\ row.version = Row(u).version /\ row.status \notin {"NONE", "HIRED"}
       /\ row.finalUser = Row(u).finalUser
    BY <2>2 DEF Application
  <2>4. Interviewed([row EXCEPT !.stage = "INITIAL_REVIEW", !.version = @ + 1])
    BY <2>2 DEF Interviewed, Application
  <2> HIDE DEF row
  <2>5. Leave(u) /\ UNCHANGED <<userVars, applying>> /\ Commit(u, row, "INITIAL_REVIEW")
    BY <1>2 DEF Reject, row
  <2> QED BY <1>2, <2>1, <2>3, <2>4, <2>5, OperationKeeps DEF Stage
<1> QED BY <1>1, <1>2

LEMMA SubmitInitialSafe ==
  ASSUME RecInv, NEW u \in Staff, SubmitInitial(u) PROVE RecInv'
<1>1. CASE ~IsCurrent(u)
  BY <1>1, LeaveKeeps DEF SubmitInitial, Refuse
<1>2. CASE IsCurrent(u)
  <2> DEFINE row == [Row(u) EXCEPT !.forms = @ \cup {"INITIAL_INTERVIEW"}]
  <2>1. desk[u] # Idle /\ desk[u].pc = "submitInitial"
    BY DEF SubmitInitial, Idle
  <2>2. /\ Row(u) \in Application /\ Row(u).status # "NONE" /\ Interviewed(Row(u))
        /\ Row(u).stage = "INITIAL_INTERVIEW"
    BY <1>2, <2>1, CurrentFacts DEF Expected, Operation
  <2>3. row \in Application /\ row.version = Row(u).version /\ row.status \notin {"NONE", "HIRED"}
       /\ row.finalUser = Row(u).finalUser
    BY <2>2 DEF Application, Interviewed, Stage
  <2>4. Interviewed([row EXCEPT !.stage = "TECHNICAL_INTERVIEW_ASSIGNMENT", !.version = @ + 1])
    BY <2>2, <2>3 DEF Interviewed, Application
  <2> HIDE DEF row
  <2>5. /\ Leave(u) /\ UNCHANGED <<userVars, applying>>
        /\ Commit(u, row, "TECHNICAL_INTERVIEW_ASSIGNMENT")
    BY <1>2 DEF SubmitInitial, row
  <2> QED BY <1>2, <2>1, <2>3, <2>4, <2>5, OperationKeeps DEF Stage
<1> QED BY <1>1, <1>2

LEMMA AssignInterviewerSafe ==
  ASSUME RecInv, NEW u \in Staff, AssignInterviewer(u) PROVE RecInv'
<1>1. CASE ~IsCurrent(u)
  BY <1>1, LeaveKeeps DEF AssignInterviewer, Refuse
<1>2. CASE IsCurrent(u)
  <2> DEFINE row == [Row(u) EXCEPT !.assignee = desk[u].interviewer]
  <2>1. desk[u] # Idle /\ desk[u].pc = "assignInterviewer"
    BY DEF AssignInterviewer, Idle
  <2>2. /\ Row(u) \in Application /\ Row(u).status # "NONE" /\ Interviewed(Row(u))
        /\ Row(u).stage = "TECHNICAL_INTERVIEW_ASSIGNMENT" /\ desk[u].interviewer \in Staff
    BY <1>2, <2>1, CurrentFacts DEF Expected, Operation
  <2>3. row \in Application /\ row.version = Row(u).version /\ row.status \notin {"NONE", "HIRED"}
       /\ row.finalUser = Row(u).finalUser
    BY <2>2 DEF Application, Interviewed
  <2>4. Interviewed([row EXCEPT !.stage = "TECHNICAL_INTERVIEW", !.version = @ + 1])
    BY <2>2, <2>3 DEF Interviewed, Application
  <2> HIDE DEF row
  <2>5. Leave(u) /\ UNCHANGED <<userVars, applying>> /\ Commit(u, row, "TECHNICAL_INTERVIEW")
    BY <1>2 DEF AssignInterviewer, row
  <2> QED BY <1>2, <2>1, <2>3, <2>4, <2>5, OperationKeeps DEF Stage
<1> QED BY <1>1, <1>2

LEMMA SubmitTechnicalSafe ==
  ASSUME RecInv, NEW u \in Staff, SubmitTechnical(u) PROVE RecInv'
<1>1. CASE ~IsCurrent(u)
  BY <1>1, LeaveKeeps DEF SubmitTechnical, Refuse
<1>2. CASE IsCurrent(u)
  <2> DEFINE row == [Row(u) EXCEPT !.forms = @ \cup {"TECHNICAL_INTERVIEW"}, !.evaluator = u]
  <2>1. desk[u] # Idle /\ desk[u].pc = "submitTechnical"
    BY DEF SubmitTechnical, Idle
  <2>2. /\ Row(u) \in Application /\ Row(u).status # "NONE" /\ Interviewed(Row(u))
        /\ Row(u).stage = "TECHNICAL_INTERVIEW" /\ Row(u).assignee = u
    BY <1>2, <2>1, CurrentFacts DEF Expected, Operation
  <2>3. row \in Application /\ row.version = Row(u).version /\ row.status \notin {"NONE", "HIRED"}
       /\ row.finalUser = Row(u).finalUser
    BY <2>2 DEF Application, Interviewed, Stage
  <2>4. Interviewed([row EXCEPT !.stage = "SUPERADMIN_APPROVAL", !.version = @ + 1])
    <3>1. u # NoOne
      BY RecruitmentAssumption
    <3> QED BY <2>2, <2>3, <3>1 DEF Interviewed, Application
  <2> HIDE DEF row
  <2>5. Leave(u) /\ UNCHANGED <<userVars, applying>> /\ Commit(u, row, "SUPERADMIN_APPROVAL")
    BY <1>2 DEF SubmitTechnical, row
  <2> QED BY <1>2, <2>1, <2>3, <2>4, <2>5, OperationKeeps DEF Stage
<1> QED BY <1>1, <1>2

\* An application at this stage has not been hired, so that it has no account yet, and
\* no phone number leads to one.
LEMMA FinalApproveSafe ==
  ASSUME RecInv, NEW u \in Staff, FinalApprove(u) PROVE RecInv'
<1> DEFINE free == holder[Row(u).phone] = Nobody
<1>1. desk[u] # Idle /\ desk[u].pc = "finalApprove" /\ Leave(u) /\ UNCHANGED <<changes, applying>>
  BY DEF FinalApprove, Idle
<1>2. CASE ~(IsCurrent(u) /\ free)
  <2>1. UNCHANGED <<apps, transitions, userVars, applying>>
    BY <1>1, <1>2 DEF FinalApprove, Refuse
  <2> QED BY <1>1, <2>1, LeaveKeeps
<1>3. CASE IsCurrent(u) /\ free
  <2>1. PICK a \in Applications : a = desk[u].app
    BY <1>1 DEF RecInv, TypeOK, Request, Idle
  <2>2. /\ Row(u) \in Application /\ Row(u).status \notin {"NONE", "HIRED"} /\ Interviewed(Row(u))
        /\ Row(u).stage = "SUPERADMIN_APPROVAL" /\ Row(u) = apps[a] /\ Row(u).phone \in Phones
    BY <1>1, <1>3, <2>1, CurrentFacts DEF Expected, Operation, Row, Interviewed
  <2>3. made[a] = 0 /\ apps[a].finalUser = 0 /\ \A phone \in Phones : holder[phone].of # a
    BY <2>2 DEF RecInv, Numbered, OneAccountPerHire
  <2> DEFINE row == [Row(u) EXCEPT !.status = "HIRED", !.finalUser = 1]
             account == [of |-> a, number |-> 1]
  <2>4. /\ Commit(u, row, "PROFILE_COMPLETION")
        /\ holder' = [holder EXCEPT ![Row(u).phone] = account]
        /\ made' = [made EXCEPT ![a] = 1]
    BY <1>3, <2>1, <2>3 DEF FinalApprove, Hire
  <2>5. /\ row \in Application /\ row.version = Row(u).version /\ row.status = "HIRED"
        /\ row.finalUser = 1
    BY <2>2 DEF Application
  <2>6. Interviewed([row EXCEPT !.stage = "PROFILE_COMPLETION", !.version = @ + 1])
    BY <2>2 DEF Interviewed, Application
  <2>7. /\ holder' \in [Phones -> Account] /\ made' \in [Applications -> Nat] /\ changes' \in Nat
    BY <1>1, <2>4 DEF RecInv, TypeOK, Account
  <2>8. /\ \A b \in Applications : b # a => apps'[b] = apps[b] /\ made'[b] = made[b]
        /\ made'[a] = 1
    BY <2>1, <2>4 DEF RecInv, TypeOK, Commit
  <2>9. apps'[a].status = "HIRED" /\ apps'[a].finalUser = 1
    <3> HIDE DEF row
    <3> QED BY <2>1, <2>4, <2>5 DEF RecInv, TypeOK, Commit, Application
  <2>10. /\ \A phone \in Phones : phone # Row(u).phone => holder'[phone] = holder[phone]
         /\ holder'[Row(u).phone] = account
    BY <2>2, <2>4 DEF RecInv, TypeOK
  <2>11. Numbered' /\ OneAccountPerHire'
    <3> SUFFICES ASSUME NEW b \in Applications
        PROVE  /\ apps'[b].finalUser # 0 => apps'[b].status = "HIRED"
               /\ \A phone \in Phones : holder'[phone].of = b => holder'[phone].number # 0
               /\ \A p, q \in Phones : holder'[p].of = b /\ holder'[q].of = b => p = q
               /\ made'[b] = IF apps'[b].status = "HIRED" THEN 1 ELSE 0
               /\ \A phone \in Phones :
                    holder'[phone].of = b => holder'[phone].number = apps'[b].finalUser
               /\ apps'[b].finalUser # 0 =>
                    \E phone \in Phones : holder'[phone] = [of |-> b, number |-> apps'[b].finalUser]
      BY DEF Numbered, OneAccountPerHire
    <3>1. CASE b = a
      BY <2>2, <2>3, <2>8, <2>9, <2>10, <3>1
    <3>2. CASE b # a
      <4>1. holder'[Row(u).phone].of # b
        BY <2>10, <3>2
      <4>2. holder[Row(u).phone].of # b
        BY <1>3, RecruitmentAssumption DEF Nobody
      <4>3. \A phone \in Phones : holder'[phone].of = b \/ holder[phone].of = b =>
              holder'[phone] = holder[phone]
        BY <2>10, <4>1, <4>2
      <4>4. apps'[b] = apps[b] /\ made'[b] = made[b]
        BY <2>8, <3>2
      <4> QED BY <4>3, <4>4 DEF RecInv, Numbered, OneAccountPerHire
    <3> QED BY <3>1, <3>2
  <2> HIDE DEF row
  <2>12. /\ TypeOK'
         /\ \A b \in Applications : (Path(b) /\ Interviewed(apps[b]) /\ Unborn(b) /\ Typing(b))'
         /\ \A v \in Staff : Bound(v)'
    BY <1>1, <1>3, <2>4, <2>5, <2>6, <2>7, CommitKeeps DEF Stage
  <2> QED BY <2>11, <2>12 DEF RecInv
<1> QED BY <1>2, <1>3

-----------------------------------------------------------------------------

\* What becomes of the accounts leaves the applications as they are, except that a
\* deleted account is no longer named.
LEMMA UsersKeep ==
  ASSUME RecInv, UNCHANGED <<transitions, made, applying, desk>>,
         holder' \in [Phones -> Account], changes' \in Nat, apps' \in [Applications -> Application],
         \A a \in Applications : apps'[a] \in {apps[a], [apps[a] EXCEPT !.finalUser = 0]}
  PROVE  /\ TypeOK'
         /\ \A a \in Applications : (Path(a) /\ Interviewed(apps[a]) /\ Unborn(a) /\ Typing(a))'
         /\ \A u \in Staff : Bound(u)'
         /\ \A a \in Applications : apps'[a].status = apps[a].status
<1>1. TypeOK'
  BY DEF RecInv, TypeOK
<1>2. \A a \in Applications :
        /\ apps'[a].status = apps[a].status /\ apps'[a].stage = apps[a].stage
        /\ apps'[a].version = apps[a].version /\ apps'[a].phone = apps[a].phone
        /\ apps'[a].forms = apps[a].forms /\ apps'[a].assignee = apps[a].assignee
        /\ apps'[a].evaluator = apps[a].evaluator
  <2> TAKE a \in Applications
  <2>1. apps[a] \in Application
    BY DEF RecInv, TypeOK
  <2>2. CASE apps'[a] = apps[a]
    BY <2>2
  <2>3. CASE apps'[a] = [apps[a] EXCEPT !.finalUser = 0]
    BY <2>1, <2>3 DEF Application
  <2> QED BY <2>2, <2>3
<1>3. \A a \in Applications : (Path(a) /\ Interviewed(apps[a]) /\ Unborn(a) /\ Typing(a))'
  BY <1>2 DEF RecInv, Path, Interviewed, Unborn, Typing
<1>4. \A u \in Staff : Bound(u)'
  <2> SUFFICES ASSUME NEW u \in Staff, desk[u] # Idle PROVE Bound(u)'
    BY DEF Bound
  <2>1. desk[u].app \in Applications /\ desk' = desk
    BY DEF RecInv, TypeOK, Request, Idle
  <2> QED BY <1>2, <2>1 DEF RecInv, Bound
<1> QED BY <1>1, <1>2, <1>3, <1>4

LEMMA CreateUserSafe == ASSUME RecInv, NEW phone \in Phones, CreateUser(phone) PROVE RecInv'
<1>1. /\ UNCHANGED <<apps, transitions, made, applying, desk>> /\ changes' \in Nat
      /\ holder' = [holder EXCEPT ![phone] = Colleague] /\ holder[phone] = Nobody
  BY DEF CreateUser, ChangeOfUsers, RecInv, TypeOK
<1>2. holder' \in [Phones -> Account]
  BY <1>1 DEF RecInv, TypeOK, Account, Colleague
<1>3. /\ holder[phone].of = NoOne /\ holder'[phone].of = NoOne
      /\ \A p \in Phones : p # phone => holder'[p] = holder[p]
  BY <1>1 DEF RecInv, TypeOK, Nobody, Colleague
<1>4. Numbered' /\ OneAccountPerHire'
  <2>1. \A a \in Applications, p \in Phones :
          holder'[p].of = a \/ holder[p].of = a => holder'[p] = holder[p]
    BY <1>3, RecruitmentAssumption
  <2> QED BY <1>1, <2>1 DEF RecInv, Numbered, OneAccountPerHire
<1> QED BY <1>1, <1>2, <1>4, UsersKeep DEF RecInv, TypeOK

\* The account moves to another number.
LEMMA ChangePhoneSafe ==
  ASSUME RecInv, NEW old \in Phones, NEW new \in Phones, ChangePhone(old, new) PROVE RecInv'
<1>1. /\ UNCHANGED <<apps, transitions, made, applying, desk>> /\ changes' \in Nat
      /\ holder' = [holder EXCEPT ![old] = Nobody, ![new] = holder[old]]
      /\ holder[new] = Nobody /\ holder[old] # Nobody
  BY DEF ChangePhone, ChangeOfUsers, RecInv, TypeOK
<1>2. holder' \in [Phones -> Account]
  BY <1>1 DEF RecInv, TypeOK, Account, Nobody
<1>3. /\ old # new /\ holder'[old] = Nobody /\ holder'[new] = holder[old]
      /\ \A p \in Phones : p \notin {old, new} => holder'[p] = holder[p]
  BY <1>1 DEF RecInv, TypeOK
<1>4. holder'[old].of = NoOne /\ holder[new].of = NoOne
  BY <1>1, <1>3 DEF Nobody
<1>5. Numbered' /\ OneAccountPerHire'
  <2> SUFFICES ASSUME NEW b \in Applications
      PROVE  /\ apps'[b].finalUser # 0 => apps'[b].status = "HIRED"
             /\ \A phone \in Phones : holder'[phone].of = b => holder'[phone].number # 0
             /\ \A p, q \in Phones : holder'[p].of = b /\ holder'[q].of = b => p = q
             /\ made'[b] = IF apps'[b].status = "HIRED" THEN 1 ELSE 0
             /\ \A phone \in Phones :
                  holder'[phone].of = b => holder'[phone].number = apps'[b].finalUser
             /\ apps'[b].finalUser # 0 =>
                  \E phone \in Phones : holder'[phone] = [of |-> b, number |-> apps'[b].finalUser]
    BY DEF Numbered, OneAccountPerHire
  <2>1. b # NoOne
    BY RecruitmentAssumption
  <2>2. \A p \in Phones : holder'[p].of = b =>
          p # old /\ (p = new => holder[old].of = b /\ holder'[p] = holder[old])
                 /\ (p # new => holder'[p] = holder[p])
    BY <1>3, <1>4, <2>1
  <2>3. apps[b].finalUser # 0 =>
          \E phone \in Phones : holder'[phone] = [of |-> b, number |-> apps[b].finalUser]
    <3> SUFFICES ASSUME apps[b].finalUser # 0
        PROVE  \E phone \in Phones : holder'[phone] = [of |-> b, number |-> apps[b].finalUser]
      OBVIOUS
    <3>1. PICK p \in Phones : holder[p] = [of |-> b, number |-> apps[b].finalUser]
      BY DEF RecInv, OneAccountPerHire
    <3>2. p # new
      BY <1>4, <2>1, <3>1
    <3> QED BY <1>3, <3>1, <3>2
  <2>4. \A p, q \in Phones : holder'[p].of = b /\ holder'[q].of = b => p = q
    <3> SUFFICES ASSUME NEW p \in Phones, NEW q \in Phones, holder'[p].of = b, holder'[q].of = b
        PROVE  p = q
      OBVIOUS
    <3>1. \A x, y \in Phones : holder[x].of = b /\ holder[y].of = b => x = y
      BY DEF RecInv, Numbered
    <3>2. p # old /\ q # old
      BY <2>2
    <3>3. CASE p = new
      BY <2>2, <3>1, <3>2, <3>3
    <3>4. CASE p # new
      BY <2>2, <3>1, <3>2, <3>4
    <3> QED BY <3>3, <3>4
  <2>5. \A phone \in Phones : holder'[phone].of = b =>
          holder'[phone].number # 0 /\ holder'[phone].number = apps[b].finalUser
    <3> SUFFICES ASSUME NEW phone \in Phones, holder'[phone].of = b
        PROVE  holder'[phone].number # 0 /\ holder'[phone].number = apps[b].finalUser
      OBVIOUS
    <3>1. PICK p \in Phones : holder'[phone] = holder[p] /\ holder[p].of = b
      BY <2>2
    <3>2. holder[p].number # 0 /\ holder[p].number = apps[b].finalUser
      BY <3>1 DEF RecInv, Numbered, OneAccountPerHire
    <3> QED BY <3>1, <3>2
  <2>6. /\ apps[b].finalUser # 0 => apps[b].status = "HIRED"
        /\ made[b] = IF apps[b].status = "HIRED" THEN 1 ELSE 0
    BY DEF RecInv, Numbered, OneAccountPerHire
  <2> QED BY <1>1, <2>3, <2>4, <2>5, <2>6
<1> QED BY <1>1, <1>2, <1>5, UsersKeep DEF RecInv, TypeOK

\* The only number that leads to the account is taken from it, and the application
\* names it no more.
LEMMA RemoveUserSafe == ASSUME RecInv, NEW phone \in Phones, RemoveUser(phone) PROVE RecInv'
<1>1. /\ UNCHANGED <<transitions, made, applying, desk>> /\ changes' \in Nat
      /\ holder' = [holder EXCEPT ![phone] = Nobody]
      /\ apps' = [a \in Applications |->
           IF holder[phone] = [of |-> a, number |-> apps[a].finalUser]
             THEN [apps[a] EXCEPT !.finalUser = 0] ELSE apps[a]]
  BY DEF RemoveUser, ChangeOfUsers, RecInv, TypeOK
<1>2. holder' \in [Phones -> Account]
  BY <1>1 DEF RecInv, TypeOK, Account, Nobody
<1>3. /\ apps' \in [Applications -> Application]
      /\ \A a \in Applications : apps'[a] \in {apps[a], [apps[a] EXCEPT !.finalUser = 0]}
  <2>1. \A row \in Application : [row EXCEPT !.finalUser = 0] \in Application
    BY DEF Application
  <2>2. \A a \in Applications : apps[a] \in Application
    BY DEF RecInv, TypeOK
  <2> QED BY <1>1, <2>1, <2>2
<1>4. \A a \in Applications : apps'[a].status = apps[a].status
  BY <1>1, <1>2, <1>3, UsersKeep
<1>5. /\ holder'[phone].of = NoOne
      /\ \A p \in Phones : p # phone => holder'[p] = holder[p]
  BY <1>1 DEF RecInv, TypeOK, Nobody
<1>6. Numbered' /\ OneAccountPerHire'
  <2> SUFFICES ASSUME NEW b \in Applications
      PROVE  /\ apps'[b].finalUser # 0 => apps'[b].status = "HIRED"
             /\ \A p \in Phones : holder'[p].of = b => holder'[p].number # 0
             /\ \A p, q \in Phones : holder'[p].of = b /\ holder'[q].of = b => p = q
             /\ made[b] = IF apps'[b].status = "HIRED" THEN 1 ELSE 0
             /\ \A p \in Phones : holder'[p].of = b => holder'[p].number = apps'[b].finalUser
             /\ apps'[b].finalUser # 0 =>
                  \E p \in Phones : holder'[p] = [of |-> b, number |-> apps'[b].finalUser]
    BY <1>1 DEF Numbered, OneAccountPerHire
  <2>1. \A p \in Phones : holder'[p].of = b => p # phone /\ holder'[p] = holder[p]
    BY <1>5, RecruitmentAssumption
  <2>2. /\ \A p, q \in Phones : holder'[p].of = b /\ holder'[q].of = b => p = q
        /\ \A p \in Phones : holder'[p].of = b => holder'[p].number # 0
        /\ made[b] = IF apps'[b].status = "HIRED" THEN 1 ELSE 0
    <3>1. /\ \A p, q \in Phones : holder[p].of = b /\ holder[q].of = b => p = q
          /\ \A p \in Phones : holder[p].of = b => holder[p].number # 0
          /\ made[b] = IF apps[b].status = "HIRED" THEN 1 ELSE 0
      BY DEF RecInv, Numbered, OneAccountPerHire
    <3> QED BY <1>4, <2>1, <3>1
  <2>3. CASE holder[phone].of = b
    <3>1. holder[phone] = [of |-> b, number |-> apps[b].finalUser]
      BY <2>3 DEF RecInv, TypeOK, Account, OneAccountPerHire
    <3>2. apps'[b].finalUser = 0
      BY <1>1, <3>1 DEF RecInv, TypeOK, Application
    <3>3. \A p \in Phones : holder'[p].of # b
      BY <2>1, <2>3 DEF RecInv, Numbered
    <3> QED BY <2>2, <3>2, <3>3
  <2>4. CASE holder[phone].of # b
    <3>1. apps'[b] = apps[b]
      BY <1>1, <2>4
    <3>2. \A p \in Phones : holder[p].of = b => holder'[p] = holder[p]
      BY <1>5, <2>4
    <3>3. apps'[b].finalUser # 0 =>
            \E p \in Phones : holder'[p] = [of |-> b, number |-> apps'[b].finalUser]
      BY <3>1, <3>2 DEF RecInv, OneAccountPerHire
    <3>4. \A p \in Phones : holder'[p].of = b => holder'[p].number = apps'[b].finalUser
      <4>1. \A p \in Phones : holder[p].of = b => holder[p].number = apps[b].finalUser
        BY DEF RecInv, OneAccountPerHire
      <4> QED BY <2>1, <3>1, <4>1
    <3>5. apps'[b].finalUser # 0 => apps'[b].status = "HIRED"
      BY <3>1 DEF RecInv, Numbered
    <3> QED BY <2>2, <3>3, <3>4, <3>5
  <2> QED BY <2>3, <2>4
<1> QED BY <1>1, <1>2, <1>3, <1>6, UsersKeep DEF RecInv

-----------------------------------------------------------------------------

LEMMA CheckDuplicateSafe ==
  ASSUME RecInv, NEW a \in Applications, NEW phone \in Phones, CheckDuplicate(a, phone)
  PROVE  RecInv'
<1>1. TypeOK'
  BY DEF RecInv, TypeOK, CheckDuplicate, userVars
<1>2. \A b \in Applications : (Path(b) /\ Interviewed(apps[b]) /\ Unborn(b) /\ Typing(b))'
  BY DEF RecInv, TypeOK, CheckDuplicate, Path, Interviewed, Unborn, Typing
<1>3. \A v \in Staff : Bound(v)'
  BY DEF RecInv, CheckDuplicate, Bound
<1>4. Numbered' /\ OneAccountPerHire'
  BY DEF RecInv, CheckDuplicate, Numbered, OneAccountPerHire, userVars
<1> QED BY <1>1, <1>2, <1>3, <1>4 DEF RecInv

\* The new application was not there before, so no request can have read it.
LEMMA CreateApplicationSafe ==
  ASSUME RecInv, NEW a \in Applications, CreateApplication(a) PROVE RecInv'
<1> DEFINE row == [status |-> "IN_PROGRESS", stage |-> "INITIAL_REVIEW", version |-> 0,
                   phone |-> applying[a].phone, forms |-> {"PRE_INTERVIEW_FORM"},
                   assignee |-> NoOne, evaluator |-> NoOne, finalUser |-> 0]
           first == [from |-> "PRE_INTERVIEW_FORM", to |-> "INITIAL_REVIEW", action |-> "apply"]
<1>1. apps[a].status = "NONE" /\ applying[a].phone \in Phones
  BY DEF RecInv, CreateApplication, Unborn, Typing
<1>2. /\ apps' = [apps EXCEPT ![a] = row] /\ transitions' = [transitions EXCEPT ![a] = <<first>>]
      /\ applying' = [applying EXCEPT ![a].pc = "done"] /\ UNCHANGED <<userVars, desk>>
  BY DEF CreateApplication
<1>3. row \in Application /\ row.version = 0 /\ row.status = "IN_PROGRESS"
      /\ row.stage = "INITIAL_REVIEW"
  <2>1. 0 \in 0 .. MaxVersion /\ {"PRE_INTERVIEW_FORM"} \in SUBSET Stage
        /\ "INITIAL_REVIEW" \in Stage
    BY RecruitmentAssumption DEF Stage
  <2> QED BY <1>1, <2>1 DEF Application
<1>4. first \in Transition
  BY DEF Transition, Stage
<1>5. apps'[a] = row /\ transitions'[a] = <<first>>
  BY <1>2 DEF RecInv, TypeOK
<1>6. \A b \in Applications : b # a => /\ apps'[b] = apps[b] /\ transitions'[b] = transitions[b]
                                       /\ applying'[b] = applying[b]
  BY <1>2 DEF RecInv, TypeOK
<1>7. TypeOK'
  <2>1. <<first>> \in Seq(Transition)
    BY <1>4
  <2> HIDE DEF row, first
  <2>2. /\ apps' \in [Applications -> Application]
        /\ transitions' \in [Applications -> Seq(Transition)]
    BY <1>2, <1>3, <2>1 DEF RecInv, TypeOK
  <2>3. applying' \in [Applications -> [pc : {"new", "create", "done"}, phone : Phones \cup {NoPhone}]]
    BY <1>2 DEF RecInv, TypeOK
  <2> QED BY <1>2, <2>2, <2>3 DEF RecInv, TypeOK, userVars
<1>8. ASSUME NEW b \in Applications
      PROVE  (Path(b) /\ Interviewed(apps[b]) /\ Unborn(b) /\ Typing(b))'
  <2>1. CASE b # a
    BY <1>6, <2>1 DEF RecInv, Path, Interviewed, Unborn, Typing
  <2>2. CASE b = a
    <3>1. Path(b)'
      <4>1. Len(<<first>>) = 1 /\ <<first>>[1] = first
        OBVIOUS
      <4>2. first.from = "PRE_INTERVIEW_FORM" /\ first.to = "INITIAL_REVIEW"
        OBVIOUS
      <4> DEFINE history == transitions'[b]
      <4>3. Len(history) = 1 /\ history[1] = first
        BY <1>5, <2>2, <4>1
      <4>4. 1 .. Len(history) - 1 = {}
        BY <4>3
      <4> HIDE DEF row, first
      <4>5. \A i \in 1 .. Len(history) - 1 : history[i].to = history[i + 1].from
        BY <4>4
      <4> QED BY <1>3, <1>5, <2>2, <4>2, <4>3, <4>5 DEF Path
    <3>2. Interviewed(row)
      BY <1>1 DEF Interviewed
    <3>3. applying'[a].pc = "done"
      BY <1>2 DEF RecInv, TypeOK
    <3> QED BY <1>5, <2>2, <3>1, <3>2, <3>3 DEF Interviewed, Unborn, Typing
  <2> QED BY <2>1, <2>2
<1>9. \A v \in Staff : Bound(v)'
  <2> SUFFICES ASSUME NEW v \in Staff, desk[v] # Idle PROVE Bound(v)'
    BY <1>2 DEF Bound
  <2>1. desk[v].app \in Applications /\ desk[v].app # a
    BY <1>1 DEF RecInv, TypeOK, Request, Idle, Bound
  <2> QED BY <1>2, <1>6, <2>1 DEF RecInv, Bound
<1>10. Numbered' /\ OneAccountPerHire'
  BY <1>1, <1>2, <1>3, <1>5, <1>6 DEF RecInv, Numbered, OneAccountPerHire, userVars
<1> QED BY <1>7, <1>8, <1>9, <1>10 DEF RecInv

LEMMA ReadApplicationSafe ==
  ASSUME RecInv, NEW u \in Staff, NEW a \in Applications, NEW op \in Operation,
         NEW interviewer \in Staff, ReadApplication(u, a, op, interviewer)
  PROVE  RecInv'
<1> DEFINE request == [pc |-> op, app |-> a, version |-> apps[a].version,
                       interviewer |-> interviewer]
<1>1. apps[a].version \in Nat
  BY DEF RecInv, TypeOK, Application
<1>2. request \in Request
  BY <1>1 DEF Request
<1>3. desk' = [desk EXCEPT ![u] = request] /\ UNCHANGED <<apps, transitions, userVars, applying>>
  BY DEF ReadApplication
<1>4. TypeOK'
  BY <1>2, <1>3 DEF RecInv, TypeOK, userVars
<1>5. \A b \in Applications : (Path(b) /\ Interviewed(apps[b]) /\ Unborn(b) /\ Typing(b))'
  BY <1>3 DEF RecInv, Path, Interviewed, Unborn, Typing
<1>6. \A v \in Staff : Bound(v)'
  <2> SUFFICES ASSUME NEW v \in Staff PROVE Bound(v)'
    OBVIOUS
  <2>1. CASE v # u
    BY <1>3, <2>1 DEF RecInv, TypeOK, Bound
  <2>2. CASE v = u
    <3>1. desk'[u] = request
      BY <1>3 DEF RecInv, TypeOK
    <3> QED BY <1>1, <1>3, <2>2, <3>1 DEF ReadApplication, MayStart, Bound
  <2> QED BY <2>1, <2>2
<1>7. Numbered' /\ OneAccountPerHire'
  BY <1>3 DEF RecInv, Numbered, OneAccountPerHire, userVars
<1> QED BY <1>4, <1>5, <1>6, <1>7 DEF RecInv

LEMMA StutterRec == ASSUME RecInv, UNCHANGED vars PROVE RecInv'
<1>1. TypeOK' /\ Numbered' /\ OneAccountPerHire'
  BY DEF vars, userVars, RecInv, TypeOK, Numbered, OneAccountPerHire
<1>2. \A a \in Applications : (Path(a) /\ Interviewed(apps[a]) /\ Unborn(a) /\ Typing(a))'
  BY DEF vars, RecInv, Path, Interviewed, Unborn, Typing
<1>3. \A v \in Staff : Bound(v)'
  BY DEF vars, RecInv, Bound
<1> QED BY <1>1, <1>2, <1>3 DEF RecInv

LEMMA NextRec == RecInv /\ [Next]_vars => RecInv'
<1> SUFFICES ASSUME RecInv, [Next]_vars PROVE RecInv'
  OBVIOUS
<1>1. ASSUME NEW a \in Applications,
             (\E phone \in Phones : CheckDuplicate(a, phone)) \/ CreateApplication(a)
      PROVE  RecInv'
  BY <1>1, CheckDuplicateSafe, CreateApplicationSafe
<1>2. ASSUME NEW u \in Staff, NEW a \in Applications, NEW op \in Operation,
             NEW interviewer \in Staff, ReadApplication(u, a, op, interviewer)
      PROVE  RecInv'
  BY <1>2, ReadApplicationSafe
<1>3. ASSUME NEW u \in Staff,
             \/ ApproveInitial(u) \/ Reject(u) \/ SubmitInitial(u) \/ AssignInterviewer(u)
             \/ SubmitTechnical(u) \/ FinalApprove(u)
      PROVE  RecInv'
  BY <1>3, ApproveInitialSafe, RejectSafe, SubmitInitialSafe, AssignInterviewerSafe,
     SubmitTechnicalSafe, FinalApproveSafe
<1>4. ASSUME NEW phone \in Mobiles,
             CreateUser(phone) \/ \E old \in Phones : ChangePhone(old, phone)
      PROVE  RecInv'
  <2>1. phone \in Phones
    BY RecruitmentAssumption
  <2> QED BY <1>4, <2>1, CreateUserSafe, ChangePhoneSafe
<1>5. ASSUME NEW phone \in Phones, RemoveUser(phone) PROVE RecInv'
  BY <1>5, RemoveUserSafe
<1> QED BY <1>1, <1>2, <1>3, <1>4, <1>5, StutterRec DEF Next

\* Whatever the interleaving, the history of an application is one unbroken path
\* of stages that ends in its current stage, one step for each version.
THEOREM HistoryIsAPath == Spec => []HistoryIsPath
<1>1. RecInv => HistoryIsPath
  BY DEF RecInv, Path, HistoryIsPath
<1> QED BY <1>1, InitRec, NextRec, PTL DEF Spec

\* Nobody is hired without both interviews, the second one by the interviewer
\* assigned last.
THEOREM HiringNeedsInterviews == Spec => []HiredIsEvaluated
<1>1. RecInv => HiredIsEvaluated
  BY DEF RecInv, Interviewed, HiredIsEvaluated
<1> QED BY <1>1, InitRec, NextRec, PTL DEF Spec

\* An application makes one account, however many final approvals race and whatever
\* becomes of that account and its number, and names it as long as it exists.
THEOREM HiringMakesOneAccount == Spec => []OneAccountPerHire
<1>1. RecInv => OneAccountPerHire
  BY DEF RecInv
<1> QED BY <1>1, InitRec, NextRec, PTL DEF Spec
=============================================================================
