------------------------ MODULE GroupService_proofs ------------------------
(* Theorems about GroupService, for any number of requests, users, groups   *)
(* and member ids.                                                          *)
EXTENDS GroupService, FiniteSetTheorems, TLAPS

-----------------------------------------------------------------------------
(* The tables and the requests have their types.                            *)

Active ==
  [op : Ops, group : Groups, by : Users, user : Users,
   row : RowIds \cup {None}, step : Steps \ {"idle"}]
Requests == Active \cup {NoRequest}

\* GroupTypeOK needs that the ids of all rows were taken from usedIds.
TypeInv ==
  /\ groups \subseteq Groups
  /\ owner \in [Groups -> Users \cup {None}]
  /\ name \in [Groups -> Users \cup {None}]
  /\ members \subseteq Rows
  /\ usedIds \subseteq RowIds
  /\ req \in [Callers -> Requests]
  /\ raced \subseteq Groups \X Users /\ unseen \subseteq Groups \X Users
  /\ \A r \in members : r.id \in usedIds
  /\ \A r, s \in members : r.id = s.id => r = s

\* A request that is under way has its arguments.
LEMMA ActiveRequest ==
  ASSUME TypeInv, NEW p \in Callers, req[p].step # "idle"
  PROVE  /\ req[p] \in Active
         /\ req[p].op \in Ops /\ req[p].group \in Groups
         /\ req[p].by \in Users /\ req[p].user \in Users
         /\ req[p].row \in RowIds \cup {None} /\ req[p].step \in Steps
<1>1. req[p] \in Requests
  BY DEF TypeInv
<1>2. req[p] # NoRequest
  BY DEF NoRequest
<1>. QED
  BY <1>1, <1>2 DEF Requests, Active, Steps

\* Moving on to another query, and returning, keep the requests' type.
LEMMA GotoType ==
  ASSUME TypeInv, NEW p \in Callers, req[p].step # "idle", NEW step \in Steps \ {"idle"},
         Goto(p, step) \/ Return(p)
  PROVE  req' \in [Callers -> Requests]
<1>1. CASE Goto(p, step)
  <2>1. req[p] \in Active
    BY ActiveRequest
  <2>2. [req[p] EXCEPT !.step = step] \in Active
    BY <2>1 DEF Active
  <2>3. req' = [req EXCEPT ![p] = [req[p] EXCEPT !.step = step]]
    BY <1>1 DEF Goto
  <2>. QED
    BY <2>2, <2>3 DEF TypeInv, Requests
<1>2. CASE Return(p)
  BY <1>2 DEF TypeInv, Return, Requests
<1>. QED
  BY <1>1, <1>2

\* The tables and the requests keep their types, and member ids stay unique.
THEOREM GroupTyped == Spec => []TypeInv
<1>1. Init => TypeInv
  BY DEF Init, TypeInv, Requests
<1>2. TypeInv /\ [Next]_vars => TypeInv'
  <2> SUFFICES ASSUME TypeInv, [Next]_vars PROVE TypeInv'
    OBVIOUS
  <2>1. ASSUME NEW g \in Groups, NEW u \in Users, NEW i \in RowIds, CreateGroup(g, u, i)
        PROVE  TypeInv'
    BY <2>1 DEF CreateGroup, TypeInv, Rows, Member, Admin
  <2>2. ASSUME NEW p \in Callers, NEW op \in Ops, NEW g \in Groups, NEW by \in Users,
               NEW u \in Users, Ask(p, op, g, by, u)
        PROVE  TypeInv'
    <3>1. FirstStep(op) \in Steps \ {"idle"}
      BY DEF FirstStep, Steps
    <3>2. req' \in [Callers -> Requests]
      BY <2>2, <3>1 DEF Ask, TypeInv, Requests, Active
    <3>. QED
      BY <2>2, <3>2 DEF Ask, TypeInv, tableVars
  <2>3. ASSUME NEW p \in Callers, FindGroup(p) PROVE TypeInv'
    <3>1. req' \in [Callers -> Requests]
      BY <2>3, GotoType DEF FindGroup, Steps
    <3>. QED
      BY <2>3, <3>1 DEF FindGroup, TypeInv, tableVars
  <2>4. ASSUME NEW p \in Callers, FindMember(p) PROVE TypeInv'
    <3>1. req[p].step # "idle"
      BY <2>4 DEF FindMember
    <3>2. ASSUME Return(p) \/ Goto(p, "existing") \/ Goto(p, "apply")
          PROVE  req' \in [Callers -> Requests]
      <4>1. \E step \in Steps \ {"idle"} : Return(p) \/ Goto(p, step)
        BY <3>2 DEF Steps
      <4>. QED
        BY <3>1, <4>1, GotoType
    <3>3. ASSUME NEW row \in RowsOf(req[p].group, req[p].by),
                 req' = [req EXCEPT ![p] = [@ EXCEPT !.row = row.id, !.step = "group"]]
          PROVE  req' \in [Callers -> Requests]
      <4>1. row.id \in RowIds
        BY DEF RowsOf, TypeInv, Rows
      <4>2. req[p] \in Active
        BY <3>1, ActiveRequest
      <4>3. [req[p] EXCEPT !.row = row.id, !.step = "group"] \in Active
        BY <4>1, <4>2 DEF Active, Steps
      <4>. QED
        BY <3>3, <4>3 DEF TypeInv, Requests
    <3>4. req' \in [Callers -> Requests]
      BY <2>4, <3>1, <3>2, <3>3, GotoType DEF FindMember, Steps
    <3>. QED
      BY <2>4, <3>4 DEF FindMember, TypeInv, tableVars
  <2>5. ASSUME NEW p \in Callers, FindExisting(p) PROVE TypeInv'
    <3>1. req' \in [Callers -> Requests]
      BY <2>5, GotoType DEF FindExisting, Steps
    <3>. QED
      BY <2>5, <3>1 DEF FindExisting, TypeInv, tableVars
  <2>6. ASSUME NEW p \in Callers, req[p].step = "apply", Return(p) PROVE req' \in [Callers -> Requests]
    BY <2>6, GotoType DEF Steps
  <2>7. ASSUME NEW p \in Callers, NEW i \in RowIds, AddMember(p, i) PROVE TypeInv'
    BY <2>6, <2>7, ActiveRequest DEF AddMember, Applying, TypeInv, Rows, Member
  <2>8. ASSUME NEW p \in Callers, RemoveMember(p) PROVE TypeInv'
    BY <2>6, <2>8 DEF RemoveMember, Applying, TypeInv
  <2>9. ASSUME NEW p \in Callers, UpdateName(p) PROVE TypeInv'
    BY <2>6, <2>9, ActiveRequest DEF UpdateName, Applying, TypeInv
  <2>10. ASSUME NEW p \in Callers, Dissolve(p) PROVE TypeInv'
    <3>1. \A q \in Callers : Inviting(q, req[p].group) => req[q].user \in Users
      BY ActiveRequest DEF Inviting
    <3>2. req[p].group \in Groups
      BY <2>10, ActiveRequest DEF Dissolve, Applying
    <3>3. raced' \subseteq Groups \X Users
      BY <2>10, <3>1, <3>2 DEF Dissolve, TypeInv
    <3>. QED
      BY <2>6, <2>10, <3>2, <3>3 DEF Dissolve, Applying, TypeInv
  <2>11. ASSUME NEW p \in Callers, QueryFails(p) PROVE TypeInv'
    <3>1. req[p].step # "idle"
      BY <2>11 DEF QueryFails
    <3>2. req' \in [Callers -> Requests]
      BY <2>11, <3>1, GotoType DEF QueryFails, Steps
    <3>3. unseen' \subseteq Groups \X Users
      BY <2>11, <3>1, ActiveRequest DEF QueryFails, TypeInv
    <3>. QED
      BY <2>11, <3>2, <3>3 DEF QueryFails, TypeInv, tableVars
  <2>12. CASE UNCHANGED vars
    BY <2>12 DEF vars, TypeInv
  <2>. QED
    BY <2>1, <2>2, <2>3, <2>4, <2>5, <2>7, <2>8, <2>9, <2>10, <2>11, <2>12 DEF Next
<1>. QED
  BY <1>1, <1>2, PTL DEF Spec

\* The type invariant the runs check follows.
THEOREM GroupTypeTheorem == Spec => []GroupTypeOK
<1>1. TypeInv => GroupTypeOK
  BY DEF TypeInv, GroupTypeOK, Requests, Active
<1>. QED
  BY <1>1, GroupTyped, PTL

-----------------------------------------------------------------------------
(* Owners and admins.                                                       *)

\* What a request has found out and relies on when it writes.  An invitation or a
\* renaming that has passed its checks was asked for by the owner.  A request to
\* leave holds the id of a row which, if it is still there, is its caller's, and
\* once it has looked at the group its caller is not the owner.
RequestHolds(p) ==
  LET r == req[p]
  IN  /\ r.step = "group" => r.op # "rename"
      /\ r.step = "existing" => r.op = "invite"
      /\ r.op \in {"invite", "rename"} /\ r.step \in {"existing", "apply"} => r.by = owner[r.group]
      /\ r.op = "exit" /\ r.step \in {"group", "apply"} =>
           /\ r.row \in usedIds
           /\ \A row \in members : row.id = r.row => row.group = r.group /\ row.user = r.by
      /\ r.op = "exit" /\ r.step = "apply" => owner[r.group] \notin {r.by, None}

\* Only groups that were created have members, and only owners are admins.
RolesHold ==
  /\ \A g \in groups : owner[g] # None
  /\ \A r \in members : owner[r.group] # None /\ (r.role # Member => r.user = owner[r.group])

OwnerInv == RolesHold /\ OwnerStaysAdmin /\ \A p \in Callers : RequestHolds(p)

\* A step that leaves the tables alone and changes the request of p only keeps the
\* invariant if it keeps what that request relies on.
LEMMA OnlyRequest ==
  ASSUME TypeInv, OwnerInv, NEW p \in Callers, UNCHANGED tableVars,
         \A q \in Callers \ {p} : req'[q] = req[q], RequestHolds(p)'
  PROVE  OwnerInv'
<1>1. RolesHold' /\ OwnerStaysAdmin'
  BY DEF tableVars, OwnerInv, RolesHold, OwnerStaysAdmin, RowsOf
<1>2. \A q \in Callers \ {p} : RequestHolds(q)'
  BY DEF tableVars, OwnerInv, RequestHolds
<1>. QED
  BY <1>1, <1>2 DEF OwnerInv

\* A request that has returned relies on nothing, and the others are as before.
LEMMA ReturnHolds ==
  ASSUME TypeInv, NEW p \in Callers, Return(p)
  PROVE  RequestHolds(p)' /\ \A q \in Callers \ {p} : req'[q] = req[q]
BY DEF TypeInv, Return, NoRequest, RequestHolds

\* A request that moves on keeps its arguments, and the others are as before.
LEMMA GotoKeeps ==
  ASSUME TypeInv, NEW p \in Callers, req[p].step # "idle", NEW step, Goto(p, step)
  PROVE  /\ req'[p].op = req[p].op /\ req'[p].group = req[p].group /\ req'[p].by = req[p].by
         /\ req'[p].user = req[p].user /\ req'[p].row = req[p].row /\ req'[p].step = step
         /\ \A q \in Callers \ {p} : req'[q] = req[q]
<1>1. req[p] \in Active
  BY ActiveRequest
<1>2. req' = [req EXCEPT ![p] = [req[p] EXCEPT !.step = step]]
  BY DEF Goto
<1>. QED
  BY <1>1, <1>2 DEF TypeInv, Active

\* The owner's invariant is an invariant.
THEOREM OwnerInvariant == Spec => []OwnerInv
<1>1. Init => OwnerInv
  BY DEF Init, OwnerInv, RolesHold, OwnerStaysAdmin, RequestHolds, NoRequest
<1>2. TypeInv /\ OwnerInv /\ [Next]_vars => OwnerInv'
  <2> SUFFICES ASSUME TypeInv, OwnerInv, [Next]_vars PROVE OwnerInv'
    OBVIOUS
  <2>. USE NoneAssumption
  <2>1. ASSUME NEW g \in Groups, NEW u \in Users, NEW i \in RowIds, CreateGroup(g, u, i)
        PROVE  OwnerInv'
    <3>1. RolesHold'
      BY <2>1 DEF CreateGroup, OwnerInv, RolesHold, TypeInv, Rows
    <3>2. OwnerStaysAdmin'
      <4>1. ASSUME NEW h \in groups, h # g
            PROVE  \E r \in RowsOf(h, owner[h])' : r.role = Admin
        <5>1. owner'[h] = owner[h] /\ members \subseteq members'
          BY <2>1, <4>1 DEF CreateGroup, TypeInv
        <5>2. PICK r \in RowsOf(h, owner[h]) : r.role = Admin
          BY DEF OwnerInv, OwnerStaysAdmin
        <5>. QED
          BY <5>1, <5>2 DEF RowsOf
      <4>2. \E r \in RowsOf(g, owner[g])' : r.role = Admin
        <5>1. owner'[g] = u /\ [id |-> i, group |-> g, user |-> u, role |-> Admin] \in members'
          BY <2>1 DEF CreateGroup, TypeInv
        <5>. QED
          BY <5>1 DEF RowsOf
      <4>. QED
        BY <2>1, <4>1, <4>2 DEF CreateGroup, OwnerStaysAdmin
    <3>3. ASSUME NEW p \in Callers PROVE RequestHolds(p)'
      <4>1. CASE req[p].step = "idle"
        BY <2>1, <4>1 DEF CreateGroup, RequestHolds
      <4>2. CASE req[p].step # "idle"
        <5>1. req[p].group \in Groups /\ req[p].by \in Users
          BY <4>2, ActiveRequest
        <5>2. owner'[req[p].group] = IF req[p].group = g THEN u ELSE owner[req[p].group]
          BY <2>1, <5>1 DEF CreateGroup, TypeInv
        <5>. QED
          BY <2>1, <5>1, <5>2 DEF CreateGroup, OwnerInv, RequestHolds, TypeInv
      <4>. QED
        BY <4>1, <4>2
    <3>. QED
      BY <3>1, <3>2, <3>3 DEF OwnerInv
  <2>2. ASSUME NEW p \in Callers, NEW op \in Ops, NEW g \in Groups, NEW by \in Users,
               NEW u \in Users, Ask(p, op, g, by, u)
        PROVE  OwnerInv'
    <3>1. RequestHolds(p)'
      BY <2>2 DEF Ask, TypeInv, RequestHolds, FirstStep
    <3>. QED
      BY <2>2, <3>1, OnlyRequest DEF Ask, TypeInv
  <2>3. ASSUME NEW p \in Callers, FindGroup(p) PROVE OwnerInv'
    <3>1. CASE Return(p)
      BY <2>3, <3>1, ReturnHolds, OnlyRequest DEF FindGroup
    <3>2. CASE ~Return(p)
      <4>1. req[p].op \in Ops
        BY <2>3, ActiveRequest DEF FindGroup
      <4>2. PICK step \in {"member", "apply"} :
              /\ Goto(p, step) /\ step = (IF req[p].op = "invite" THEN "member" ELSE "apply")
              /\ req[p].group \in groups
              /\ req[p].op = "exit" => owner[req[p].group] # req[p].by
        BY <2>3, <3>2 DEF FindGroup
      <4>3. RequestHolds(p)'
        BY <2>3, <4>1, <4>2, GotoKeeps DEF FindGroup, tableVars, OwnerInv, RequestHolds, RolesHold, Ops
      <4>. QED
        BY <2>3, <4>2, <4>3, GotoKeeps, OnlyRequest DEF FindGroup
    <3>. QED
      BY <3>1, <3>2
  <2>4. ASSUME NEW p \in Callers, FindMember(p) PROVE OwnerInv'
    <3>0. req[p] \in Active
      BY <2>4, ActiveRequest DEF FindMember
    <3>1. CASE Return(p)
      BY <2>4, <3>1, ReturnHolds, OnlyRequest DEF FindMember
    <3>2. ASSUME req[p].op # "exit", NEW row \in RowsOf(req[p].group, req[p].by), row.role # Member,
                 NEW step, step = (IF req[p].op = "invite" THEN "existing" ELSE "apply"), Goto(p, step)
          PROVE  OwnerInv'
      <4>1. req[p].by = owner[req[p].group]
        BY <3>2 DEF RowsOf, OwnerInv, RolesHold
      <4>2. /\ req'[p].op = req[p].op /\ req'[p].step = step
            /\ req'[p].group = req[p].group /\ req'[p].by = req[p].by
        BY <2>4, <3>2, GotoKeeps DEF FindMember
      <4>3. owner' = owner /\ step \in {"existing", "apply"}
        BY <2>4, <3>2 DEF FindMember, tableVars
      <4>4. RequestHolds(p)'
        BY <3>2, <4>1, <4>2, <4>3 DEF RequestHolds
      <4>. QED
        BY <2>4, <3>2, <4>4, GotoKeeps, OnlyRequest DEF FindMember
    <3>3. ASSUME req[p].op = "exit", NEW row \in RowsOf(req[p].group, req[p].by),
                 req' = [req EXCEPT ![p] = [@ EXCEPT !.row = row.id, !.step = "group"]]
          PROVE  OwnerInv'
      <4>1. row.id \in usedIds /\ \A r \in members : r.id = row.id => r = row
        BY DEF RowsOf, TypeInv
      <4>2. row.group = req[p].group /\ row.user = req[p].by
        BY DEF RowsOf
      <4>3. /\ req'[p].op = req[p].op /\ req'[p].step = "group" /\ req'[p].row = row.id
            /\ req'[p].group = req[p].group /\ req'[p].by = req[p].by
        <5>1. req' = [req EXCEPT ![p] = [req[p] EXCEPT !.row = row.id, !.step = "group"]]
          BY <3>3
        <5>. QED
          BY <3>0, <5>1 DEF TypeInv, Active
      <4>4. members' = members /\ usedIds' = usedIds
        BY <2>4 DEF FindMember, tableVars
      <4>5. \A r \in members : r.id = row.id => r.group = req[p].group /\ r.user = req[p].by
        BY <4>1, <4>2
      <4>6. RequestHolds(p)'
        BY <3>3, <4>1, <4>3, <4>4, <4>5 DEF RequestHolds
      <4>7. \A q \in Callers \ {p} : req'[q] = req[q]
        BY <3>3 DEF TypeInv
      <4>. QED
        BY <2>4, <4>6, <4>7, OnlyRequest DEF FindMember
    <3>. QED
      BY <2>4, <3>1, <3>2, <3>3 DEF FindMember
  <2>5. ASSUME NEW p \in Callers, FindExisting(p) PROVE OwnerInv'
    <3>1. CASE Return(p)
      BY <2>5, <3>1, ReturnHolds, OnlyRequest DEF FindExisting
    <3>2. CASE Goto(p, "apply")
      <4>1. RequestHolds(p)'
        BY <2>5, <3>2 DEF FindExisting, Goto, TypeInv, tableVars, OwnerInv, RequestHolds
      <4>. QED
        BY <2>5, <3>2, <4>1, OnlyRequest DEF FindExisting, Goto, TypeInv
    <3>. QED
      BY <2>5, <3>1, <3>2 DEF FindExisting
  <2>6. ASSUME NEW p \in Callers, NEW i \in RowIds, AddMember(p, i) PROVE OwnerInv'
    <3>1. req[p].by \in Users /\ req[p].by = owner[req[p].group]
      BY <2>6, ActiveRequest DEF AddMember, Applying, OwnerInv, RequestHolds
    <3>2. RolesHold'
      BY <2>6, <3>1 DEF AddMember, OwnerInv, RolesHold, Member
    <3>3. OwnerStaysAdmin'
      BY <2>6 DEF AddMember, OwnerInv, OwnerStaysAdmin, RowsOf
    <3>4. \A q \in Callers : RequestHolds(q)'
      BY <2>6, ReturnHolds DEF AddMember, OwnerInv, RequestHolds
    <3>. QED
      BY <3>2, <3>3, <3>4 DEF OwnerInv
  <2>7. ASSUME NEW p \in Callers, RemoveMember(p) PROVE OwnerInv'
    <3>1. owner[req[p].group] # req[p].by
      BY <2>7 DEF RemoveMember, Applying, OwnerInv, RequestHolds
    <3>2. \A row \in members : row.id = req[p].row => row.group = req[p].group /\ row.user = req[p].by
      BY <2>7 DEF RemoveMember, Applying, OwnerInv, RequestHolds
    <3>3. OwnerStaysAdmin'
      <4>1. SUFFICES ASSUME NEW g \in groups, NEW r \in RowsOf(g, owner[g]), r.role = Admin
                     PROVE  r \in members'
        BY <2>7, <4>1 DEF RemoveMember, OwnerInv, OwnerStaysAdmin, RowsOf
      <4>. QED
        BY <2>7, <3>1, <3>2 DEF RemoveMember, RowsOf
    <3>4. RolesHold'
      BY <2>7 DEF RemoveMember, OwnerInv, RolesHold
    <3>5. \A q \in Callers : RequestHolds(q)'
      BY <2>7, ReturnHolds DEF RemoveMember, OwnerInv, RequestHolds
    <3>. QED
      BY <3>3, <3>4, <3>5 DEF OwnerInv
  <2>8. ASSUME NEW p \in Callers, UpdateName(p) PROVE OwnerInv'
    BY <2>8, ReturnHolds DEF UpdateName, OwnerInv, RolesHold, OwnerStaysAdmin, RowsOf, RequestHolds
  <2>9. ASSUME NEW p \in Callers, Dissolve(p) PROVE OwnerInv'
    <3>1. \A q \in Callers : RequestHolds(q)'
      BY <2>9, ReturnHolds DEF Dissolve, OwnerInv, RequestHolds
    <3>2. RolesHold' /\ OwnerStaysAdmin'
      BY <2>9 DEF Dissolve, OwnerInv, RolesHold, OwnerStaysAdmin, RowsOf
    <3>. QED
      BY <3>1, <3>2 DEF OwnerInv
  <2>10. ASSUME NEW p \in Callers, QueryFails(p) PROVE OwnerInv'
    <3>1. CASE Return(p)
      BY <2>10, <3>1, ReturnHolds, OnlyRequest DEF QueryFails
    <3>2. CASE req[p].step = "existing" /\ Goto(p, "apply")
      <4>1. RequestHolds(p)'
        BY <2>10, <3>2 DEF QueryFails, Goto, TypeInv, tableVars, OwnerInv, RequestHolds
      <4>. QED
        BY <2>10, <3>2, <4>1, OnlyRequest DEF QueryFails, Goto, TypeInv
    <3>. QED
      BY <2>10, <3>1, <3>2 DEF QueryFails
  <2>11. CASE UNCHANGED vars
    BY <2>11 DEF vars, OwnerInv, RolesHold, OwnerStaysAdmin, RowsOf, RequestHolds
  <2>. QED
    BY <2>1, <2>2, <2>3, <2>4, <2>5, <2>6, <2>7, <2>8, <2>9, <2>10, <2>11 DEF Next
<1>. QED
  BY <1>1, <1>2, GroupTyped, PTL DEF Spec

\* As long as a group exists its owner is a member and an admin of it.
THEOREM OwnerStaysAdminTheorem == Spec => []OwnerStaysAdmin
<1>1. OwnerInv => OwnerStaysAdmin
  BY DEF OwnerInv
<1>. QED
  BY <1>1, OwnerInvariant, PTL

\* Only the owner of a group adds a member to it or renames it: whoever passed the
\* check for an admin's row was the owner (RequestHolds), and ownership never moves.
THEOREM OnlyOwnerActsTheorem == Spec => OnlyOwnerActs
<1> DEFINE Acts == \A p \in Callers :
                     UpdateName(p) \/ (\E i \in RowIds : AddMember(p, i))
                       => req[p].by = owner[req[p].group]
<1>1. OwnerInv => Acts
  BY DEF OwnerInv, RequestHolds, UpdateName, AddMember, Applying
<1>2. OwnerInv => [Acts]_vars
  BY <1>1
<1>. QED
  BY <1>2, OwnerInvariant, PTL DEF OnlyOwnerActs

-----------------------------------------------------------------------------
(* What only races do.                                                      *)

\* An invitation that writes into a group that has gone meanwhile was overtaken by
\* somebody who left a trace, and so was one for a user that has become a member
\* meanwhile, unless it has not seen the member for an error.
Overtaken(p) ==
  LET r == req[p]
  IN  /\ Inviting(p, r.group) /\ r.group \notin groups => <<r.group, r.user>> \in raced
      /\ Applying(p, "invite") /\ RowsOf(r.group, r.user) # {}
           => <<r.group, r.user>> \in raced \cup unseen

\* No two rows for one user and group, but after a race or an error.
NoDouble ==
  \A r, s \in members :
    r # s /\ r.group = s.group /\ r.user = s.user => <<r.group, r.user>> \in raced \cup unseen

RaceInv == OrphanOnlyByRace /\ NoDouble /\ \A p \in Callers : Overtaken(p)

\* The trace of races is an invariant.
THEOREM RaceInvariant == Spec => []RaceInv
<1>1. Init => RaceInv
  BY DEF Init, RaceInv, OrphanOnlyByRace, NoDouble, Overtaken, Inviting, Applying, NoRequest
<1>2. TypeInv /\ OwnerInv /\ RaceInv /\ [Next]_vars => RaceInv'
  <2> SUFFICES ASSUME TypeInv, OwnerInv, RaceInv, [Next]_vars PROVE RaceInv'
    OBVIOUS
  <2>. USE NoneAssumption
  <2>0. ASSUME NEW p \in Callers, UNCHANGED <<tableVars, raced>>, unseen \subseteq unseen',
               Overtaken(p)',
               \A q \in Callers \ {p} : req'[q] = req[q]
        PROVE  RaceInv'
    <3>1. OrphanOnlyByRace' /\ NoDouble'
      BY <2>0 DEF tableVars, RaceInv, OrphanOnlyByRace, NoDouble
    <3>2. \A q \in Callers \ {p} : Overtaken(q)'
      BY <2>0 DEF tableVars, RaceInv, Overtaken, Inviting, Applying, RowsOf
    <3>. QED
      BY <2>0, <3>1, <3>2 DEF RaceInv
  <2>00. ASSUME NEW p \in Callers, Return(p)
         PROVE  Overtaken(p)' /\ \A q \in Callers \ {p} : req'[q] = req[q]
    BY <2>00 DEF TypeInv, Return, NoRequest, Overtaken, Inviting, Applying
  <2>1. ASSUME NEW g \in Groups, NEW u \in Users, NEW i \in RowIds, CreateGroup(g, u, i)
        PROVE  RaceInv'
    <3>1. \A r \in members : r.group # g
      BY <2>1 DEF CreateGroup, OwnerInv, RolesHold
    <3>2. OrphanOnlyByRace' /\ NoDouble'
      BY <2>1, <3>1 DEF CreateGroup, RaceInv, OrphanOnlyByRace, NoDouble
    <3>3. ASSUME NEW p \in Callers PROVE Overtaken(p)'
      <4>1. Applying(p, "invite") => req[p].group # g
        <5>1. Applying(p, "invite") => req[p].by \in Users /\ req[p].by = owner[req[p].group]
          BY ActiveRequest DEF Applying, OwnerInv, RequestHolds
        <5>. QED
          BY <2>1, <5>1 DEF CreateGroup
      <4>2. RowsOf(req[p].group, req[p].user)' # {} /\ Applying(p, "invite")
              => RowsOf(req[p].group, req[p].user) # {}
        BY <2>1, <4>1 DEF CreateGroup, RowsOf
      <4>. QED
        BY <2>1, <4>2 DEF CreateGroup, RaceInv, Overtaken, Inviting, Applying
    <3>. QED
      BY <3>2, <3>3 DEF RaceInv
  <2>2. ASSUME NEW p \in Callers, NEW op \in Ops, NEW g \in Groups, NEW by \in Users,
               NEW u \in Users, Ask(p, op, g, by, u)
        PROVE  RaceInv'
    <3>1. Overtaken(p)'
      BY <2>2 DEF Ask, TypeInv, Overtaken, Inviting, Applying, FirstStep
    <3>. QED
      BY <2>0, <2>2, <3>1 DEF Ask, TypeInv
  <2>3. ASSUME NEW p \in Callers, FindGroup(p) PROVE RaceInv'
    <3>1. CASE Return(p)
      BY <2>0, <2>00, <2>3, <3>1 DEF FindGroup
    <3>2. CASE ~Return(p)
      <4>1. PICK step \in {"member", "apply"} :
              /\ Goto(p, step) /\ step = (IF req[p].op = "invite" THEN "member" ELSE "apply")
              /\ req[p].group \in groups
        BY <2>3, <3>2 DEF FindGroup
      <4>2. Overtaken(p)'
        BY <2>3, <4>1, GotoKeeps DEF FindGroup, tableVars, Overtaken, Inviting, Applying
      <4>. QED
        BY <2>0, <2>3, <4>1, <4>2, GotoKeeps DEF FindGroup
    <3>. QED
      BY <3>1, <3>2
  <2>4. ASSUME NEW p \in Callers, FindMember(p) PROVE RaceInv'
    <3>1. CASE Return(p)
      BY <2>0, <2>00, <2>4, <3>1 DEF FindMember
    <3>2. ASSUME NEW step, step = (IF req[p].op = "invite" THEN "existing" ELSE "apply"), Goto(p, step)
          PROVE  RaceInv'
      <4>1. /\ req'[p].op = req[p].op /\ req'[p].step = step
            /\ req'[p].group = req[p].group /\ req'[p].user = req[p].user
        BY <2>4, <3>2, GotoKeeps DEF FindMember
      <4>2. Inviting(p, req[p].group)' => Inviting(p, req[p].group)
        BY <2>4, <4>1 DEF FindMember, Inviting
      <4>3. ~Applying(p, "invite")'
        BY <3>2, <4>1 DEF Applying
      <4>4. Overtaken(p)'
        BY <2>4, <4>1, <4>2, <4>3 DEF FindMember, tableVars, RaceInv, Overtaken, Inviting
      <4>. QED
        BY <2>0, <2>4, <3>2, <4>4, GotoKeeps DEF FindMember
    <3>3. ASSUME req[p].op = "exit", NEW row \in RowsOf(req[p].group, req[p].by),
                 req' = [req EXCEPT ![p] = [@ EXCEPT !.row = row.id, !.step = "group"]]
          PROVE  RaceInv'
      <4>1. req'[p].op = "exit"
        <5>1. req[p] \in Active
          BY <2>4, ActiveRequest DEF FindMember
        <5>2. req' = [req EXCEPT ![p] = [req[p] EXCEPT !.row = row.id, !.step = "group"]]
          BY <3>3
        <5>. QED
          BY <3>3, <5>1, <5>2 DEF TypeInv, Active
      <4>2. Overtaken(p)'
        BY <4>1 DEF Overtaken, Inviting, Applying
      <4>. QED
        BY <2>0, <2>4, <3>3, <4>2 DEF FindMember, TypeInv
    <3>. QED
      BY <2>4, <3>1, <3>2, <3>3 DEF FindMember
  <2>5. ASSUME NEW p \in Callers, FindExisting(p) PROVE RaceInv'
    <3>1. CASE Return(p)
      BY <2>0, <2>00, <2>5, <3>1 DEF FindExisting
    <3>2. CASE Goto(p, "apply") /\ RowsOf(req[p].group, req[p].user) = {}
      <4>1. /\ req'[p].op = req[p].op /\ req'[p].step = "apply"
            /\ req'[p].group = req[p].group /\ req'[p].user = req[p].user
        BY <2>5, <3>2, GotoKeeps DEF FindExisting
      <4>2. Inviting(p, req[p].group)' => Inviting(p, req[p].group)
        BY <2>5, <4>1 DEF FindExisting, Inviting
      <4>3. RowsOf(req[p].group, req[p].user)' = {}
        BY <2>5, <3>2, <4>1 DEF FindExisting, RowsOf, tableVars
      <4>4. Overtaken(p)'
        BY <2>5, <4>1, <4>2, <4>3 DEF FindExisting, tableVars, RaceInv, Overtaken, Inviting
      <4>. QED
        BY <2>0, <2>5, <3>2, <4>4, GotoKeeps DEF FindExisting
    <3>. QED
      BY <2>5, <3>1, <3>2 DEF FindExisting
  <2>6. ASSUME NEW p \in Callers, NEW i \in RowIds, AddMember(p, i) PROVE RaceInv'
    <3> DEFINE g == req[p].group
               u == req[p].user
               new == [id |-> i, group |-> g, user |-> u, role |-> Member]
    <3>1. /\ groups' = groups /\ raced \subseteq raced' /\ unseen' = unseen /\ members' = members \cup {new}
          /\ Applying(p, "invite") /\ Return(p)
      BY <2>6 DEF AddMember
    <3>2. OrphanOnlyByRace'
      BY <3>1 DEF RaceInv, OrphanOnlyByRace, Overtaken, Inviting, Applying
    <3>3. NoDouble'
      BY <3>1 DEF RaceInv, NoDouble, Overtaken, RowsOf
    <3>4. ASSUME NEW q \in Callers \ {p} PROVE Overtaken(q)'
      <4>1. req'[q] = req[q]
        BY <2>00, <3>1
      <4>2. Inviting(q, g) /\ req[q].user = u => <<g, u>> \in raced'
        BY <2>6 DEF AddMember
      <4>3. RowsOf(req[q].group, req[q].user)' # {} /\ Applying(q, "invite")
              => \/ RowsOf(req[q].group, req[q].user) # {}
                 \/ req[q].group = g /\ req[q].user = u /\ Inviting(q, g)
        BY <3>1, <4>1 DEF RowsOf, Applying, Inviting
      <4>. QED
        BY <3>1, <4>1, <4>2, <4>3 DEF RaceInv, Overtaken, Inviting, Applying
    <3>. QED
      BY <2>00, <3>1, <3>2, <3>3, <3>4 DEF RaceInv
  <2>7. ASSUME NEW p \in Callers, RemoveMember(p) PROVE RaceInv'
    <3>1. OrphanOnlyByRace' /\ NoDouble'
      BY <2>7 DEF RemoveMember, RaceInv, OrphanOnlyByRace, NoDouble
    <3>2. ASSUME NEW q \in Callers \ {p} PROVE Overtaken(q)'
      <4>1. req'[q] = req[q] /\ groups' = groups /\ raced' = raced /\ unseen' = unseen /\ members' \subseteq members
        BY <2>00, <2>7 DEF RemoveMember
      <4>2. RowsOf(req[q].group, req[q].user)' \subseteq RowsOf(req[q].group, req[q].user)
        BY <4>1 DEF RowsOf
      <4>. QED
        BY <4>1, <4>2 DEF RaceInv, Overtaken, Inviting, Applying
    <3>. QED
      BY <2>00, <2>7, <3>1, <3>2 DEF RemoveMember, RaceInv
  <2>8. ASSUME NEW p \in Callers, UpdateName(p) PROVE RaceInv'
    <3>1. OrphanOnlyByRace' /\ NoDouble'
      BY <2>8 DEF UpdateName, RaceInv, OrphanOnlyByRace, NoDouble
    <3>2. ASSUME NEW q \in Callers \ {p} PROVE Overtaken(q)'
      <4>1. req'[q] = req[q] /\ groups' = groups /\ raced' = raced /\ unseen' = unseen /\ members' = members
        BY <2>00, <2>8 DEF UpdateName
      <4>. QED
        BY <4>1 DEF RaceInv, Overtaken, Inviting, Applying, RowsOf
    <3>. QED
      BY <2>00, <2>8, <3>1, <3>2 DEF UpdateName, RaceInv
  <2>9. ASSUME NEW p \in Callers, Dissolve(p) PROVE RaceInv'
    <3>1. /\ members' = {r \in members : r.group # req[p].group} /\ groups' = groups \ {req[p].group}
          /\ raced \subseteq raced' /\ unseen' = unseen /\ Return(p)
      BY <2>9 DEF Dissolve
    <3>2. OrphanOnlyByRace' /\ NoDouble'
      BY <3>1 DEF RaceInv, OrphanOnlyByRace, NoDouble
    <3>3. ASSUME NEW q \in Callers \ {p} PROVE Overtaken(q)'
      <4>1. req'[q] = req[q]
        BY <2>00, <3>1
      <4>2. Inviting(q, req[p].group) => <<req[p].group, req[q].user>> \in raced'
        BY <2>9 DEF Dissolve
      <4>. QED
        BY <3>1, <4>1, <4>2 DEF RaceInv, Overtaken, Inviting, Applying, RowsOf
    <3>. QED
      BY <2>00, <3>1, <3>2, <3>3 DEF RaceInv
  <2>10. ASSUME NEW p \in Callers, QueryFails(p) PROVE RaceInv'
    <3>1. CASE Return(p) /\ UNCHANGED unseen
      BY <2>0, <2>00, <2>10, <3>1 DEF QueryFails
    <3>2. CASE /\ req[p].step = "existing" /\ Goto(p, "apply")
               /\ unseen' = IF RowsOf(req[p].group, req[p].user) # {}
                              THEN unseen \cup {<<req[p].group, req[p].user>>} ELSE unseen
      <4>1. /\ req'[p].op = req[p].op /\ req'[p].step = "apply"
            /\ req'[p].group = req[p].group /\ req'[p].user = req[p].user
        BY <3>2, GotoKeeps
      <4>2. Inviting(p, req[p].group)' => Inviting(p, req[p].group)
        BY <3>2, <4>1 DEF Inviting
      <4>3. RowsOf(req[p].group, req[p].user)' = RowsOf(req[p].group, req[p].user)
        BY <2>10, <4>1 DEF QueryFails, RowsOf, tableVars
      <4>4. Overtaken(p)'
        BY <2>10, <3>2, <4>1, <4>2, <4>3 DEF QueryFails, tableVars, RaceInv, Overtaken, Inviting
      <4>. QED
        BY <2>0, <2>10, <3>2, <4>4, GotoKeeps DEF QueryFails
    <3>. QED
      BY <2>10, <3>1, <3>2 DEF QueryFails
  <2>11. CASE UNCHANGED vars
    BY <2>11 DEF vars, RaceInv, OrphanOnlyByRace, NoDouble, Overtaken, Inviting, Applying, RowsOf
  <2>. QED
    BY <2>1, <2>2, <2>3, <2>4, <2>5, <2>6, <2>7, <2>8, <2>9, <2>10, <2>11 DEF Next
<1>. QED
  BY <1>1, <1>2, GroupTyped, OwnerInvariant, PTL DEF Spec

\* A membership outlives its group only if an invitation was under way when the
\* group was dissolved.
THEOREM OrphanOnlyByRaceTheorem == Spec => []OrphanOnlyByRace
<1>1. RaceInv => OrphanOnlyByRace
  BY DEF RaceInv
<1>. QED
  BY <1>1, RaceInvariant, PTL

\* A set with more than one element has two that differ.
LEMMA TwoElements ==
  ASSUME NEW S, Cardinality(S) > 1
  PROVE  \E x, y \in S : x # y
<1>1. SUFFICES ASSUME \A x, y \in S : x = y PROVE FALSE
  OBVIOUS
<1>2. CASE S = {}
  BY <1>2, FS_EmptySet
<1>3. CASE S # {}
  <2>1. PICK x \in S : TRUE
    BY <1>3
  <2>2. S = {x}
    BY <1>1, <2>1
  <2>. QED
    BY <2>2, FS_Singleton
<1>. QED
  BY <1>2, <1>3

\* A user is twice in a group only if two invitations of that user were under way
\* at the same time, or one of them met a failing query.
THEOREM DoubleExplainedTheorem == Spec => []DoubleExplained
<1>1. RaceInv => DoubleExplained
  <2> SUFFICES ASSUME RaceInv, NEW g \in Groups, NEW u \in Users, Cardinality(RowsOf(g, u)) > 1
               PROVE  <<g, u>> \in raced \cup unseen
    BY DEF DoubleExplained
  <2>1. PICK r, s \in RowsOf(g, u) : r # s
    BY TwoElements
  <2>. QED
    BY <2>1 DEF RaceInv, NoDouble, RowsOf
<1>. QED
  BY <1>1, RaceInvariant, PTL
=============================================================================
