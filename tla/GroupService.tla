---------------------------- MODULE GroupService ----------------------------
(***************************************************************************)
(* The group service: the tables groups and group_members, and requests    *)
(* that look at them in one query after the other before they write.  Only *)
(* the creation and the dissolution of a group are transactions; every     *)
(* other request may find that what it has checked is no longer so.        *)
(***************************************************************************)
EXTENDS Naturals, FiniteSets

CONSTANTS
  Callers,  \* requests that are handled at the same time
  Users,    \* user ids
  Groups,   \* the group ids that are ever generated
  RowIds,   \* the member ids that are ever generated
  None,     \* no user, no group, no member id
  DbMayFail \* a query may fail

ASSUME NoneAssumption == None \notin Users \cup Groups \cup RowIds
ASSUME DbAssumption == DbMayFail \in BOOLEAN

VARIABLES
  groups,   \* the ids in the table groups
  owner,    \* owner_id of every group that was created
  name,     \* its name: who gave it
  members,  \* the table group_members
  usedIds,  \* member ids generated so far
  req,      \* what every caller is doing
  raced,    \* history: the <<group, user>> pairs of which an invitation was under
            \* way while another one ended or the group was dissolved
  unseen    \* history: those of which a failed query has hidden a membership

tableVars == <<groups, owner, name, members, usedIds>>
vars == <<groups, owner, name, members, usedIds, req, raced, unseen>>

Admin == 1
Member == 0
Rows == [id : RowIds, group : Groups, user : Users, role : {Member, Admin}]
Ops == {"invite", "exit", "rename", "dissolve"}
Steps == {"idle", "group", "member", "existing", "apply"}

RowsOf(g, u) == {r \in members : r.group = g /\ r.user = u}

\* The first query of every operation.
FirstStep(op) == IF op \in {"invite", "dissolve"} THEN "group" ELSE "member"

NoRequest ==
  [op |-> "exit", group |-> None, by |-> None, user |-> None, row |-> None, step |-> "idle"]

Init ==
  /\ groups = {} /\ members = {} /\ usedIds = {} /\ raced = {} /\ unseen = {}
  /\ owner = [g \in Groups |-> None]
  /\ name = [g \in Groups |-> None]
  /\ req = [p \in Callers |-> NoRequest]

\* CreateGroup: the group and its owner's membership, in one transaction.
CreateGroup(g, u, i) ==
  /\ owner[g] = None
  /\ i \notin usedIds
  /\ groups' = groups \cup {g}
  /\ owner' = [owner EXCEPT ![g] = u]
  /\ name' = [name EXCEPT ![g] = u]
  /\ members' = members \cup {[id |-> i, group |-> g, user |-> u, role |-> Admin]}
  /\ usedIds' = usedIds \cup {i}
  /\ UNCHANGED <<req, raced, unseen>>

\* A request arrives: "by" asks for an operation on a group, an invitation for a
\* user, who may be anybody.
Ask(p, op, g, by, u) ==
  /\ req[p].step = "idle"
  /\ op # "invite" => u = by
  /\ req' = [req EXCEPT ![p] = [op |-> op, group |-> g, by |-> by, user |-> u,
                                row |-> None, step |-> FirstStep(op)]]
  /\ UNCHANGED <<tableVars, raced, unseen>>

Goto(p, step) == req' = [req EXCEPT ![p].step = step]
Return(p) == req' = [req EXCEPT ![p] = NoRequest]

\* Slip: the owner may leave.
FindGroupOnly(p) ==
  LET r == req[p]
      allowed == r.group \in groups /\ (r.op = "dissolve" => owner[r.group] = r.by)
  IN  /\ r.step = "group"
      /\ \/ ~allowed /\ Return(p)
         \/ allowed /\ Goto(p, IF r.op = "invite" THEN "member" ELSE "apply")
      /\ UNCHANGED <<tableVars, raced, unseen>>

\* SELECT from groups: a missing group ends the request; the owner may not
\* leave, and nobody else may dissolve.
FindGroup(p) ==
  LET r == req[p]
      allowed == /\ r.group \in groups
                 /\ r.op = "exit" => owner[r.group] # r.by
                 /\ r.op = "dissolve" => owner[r.group] = r.by
  IN  /\ r.step = "group"
      /\ \/ ~allowed /\ Return(p)
         \/ allowed /\ Goto(p, IF r.op = "invite" THEN "member" ELSE "apply")
      /\ UNCHANGED <<tableVars, raced, unseen>>

\* Slip: the role is not looked at.
FindAnyMember(p) ==
  LET r == req[p]
      found == RowsOf(r.group, r.by)
      After == CASE r.op = "invite" -> "existing" [] r.op = "exit" -> "group" [] OTHER -> "apply"
  IN  /\ r.step = "member"
      /\ \/ found = {} /\ Return(p)
         \/ \E row \in found : req' = [req EXCEPT ![p] = [@ EXCEPT !.row = row.id, !.step = After]]
      /\ UNCHANGED <<tableVars, raced, unseen>>

\* SELECT the caller's membership: one of its rows, if there is any.  Inviting
\* and renaming take an admin's.
FindMember(p) ==
  LET r == req[p]
      found == RowsOf(r.group, r.by)
  IN  /\ r.step = "member"
      /\ \/ /\ found = {} \/ (r.op # "exit" /\ \E row \in found : row.role = Member)
            /\ Return(p)
         \/ /\ r.op # "exit"
            /\ \E row \in found : row.role # Member
            /\ Goto(p, IF r.op = "invite" THEN "existing" ELSE "apply")
         \/ /\ r.op = "exit"
            /\ \E row \in found : req' = [req EXCEPT ![p] = [@ EXCEPT !.row = row.id, !.step = "group"]]
      /\ UNCHANGED <<tableVars, raced, unseen>>

\* Slip: nobody asks whether the user is a member already.
SkipExisting(p) ==
  /\ req[p].step = "existing"
  /\ Goto(p, "apply")
  /\ UNCHANGED <<tableVars, raced, unseen>>

\* SELECT the membership of the user who is invited.
FindExisting(p) ==
  LET found == RowsOf(req[p].group, req[p].user)
  IN  /\ req[p].step = "existing"
      /\ \/ found = {} /\ Goto(p, "apply")
         \/ found # {} /\ Return(p)
      /\ UNCHANGED <<tableVars, raced, unseen>>

\* The end of every operation: its write.
Applying(p, op) == req[p].step = "apply" /\ req[p].op = op

\* Another caller is inviting u to g: it has seen the group, and writes later.
Inviting(q, g) == req[q].op = "invite" /\ req[q].group = g
                  /\ req[q].step \in {"member", "existing", "apply"}

\* Slip: the generated id may come again.
AddMemberUnkeyed(p, i) ==
  /\ Applying(p, "invite")
  /\ members' = members \cup {[id |-> i, group |-> req[p].group, user |-> req[p].user,
                               role |-> Member]}
  /\ Return(p)
  /\ UNCHANGED <<groups, owner, name, usedIds, raced, unseen>>

AddMember(p, i) ==
  LET g == req[p].group
      u == req[p].user
  IN  /\ Applying(p, "invite")
      /\ i \notin usedIds
      /\ members' = members \cup {[id |-> i, group |-> g, user |-> u, role |-> Member]}
      /\ usedIds' = usedIds \cup {i}
      /\ raced' = IF \E q \in Callers \ {p} : Inviting(q, g) /\ req[q].user = u
                    THEN raced \cup {<<g, u>>} ELSE raced
      /\ Return(p)
      /\ UNCHANGED <<groups, owner, name, unseen>>

\* DELETE of the row that was found, by its id.
RemoveMember(p) ==
  /\ Applying(p, "exit")
  /\ members' = {r \in members : r.id # req[p].row}
  /\ Return(p)
  /\ UNCHANGED <<groups, owner, name, usedIds, raced, unseen>>

\* UPDATE of the group's name, if it is still there.
UpdateName(p) ==
  /\ Applying(p, "rename")
  /\ name' = IF req[p].group \in groups THEN [name EXCEPT ![req[p].group] = req[p].by] ELSE name
  /\ Return(p)
  /\ UNCHANGED <<groups, owner, members, usedIds, raced, unseen>>

\* Slip: the members are left behind.
DissolveGroupOnly(p) ==
  /\ Applying(p, "dissolve")
  /\ groups' = groups \ {req[p].group}
  /\ Return(p)
  /\ UNCHANGED <<owner, name, members, usedIds, raced, unseen>>

\* DeleteGroup: all members and the group, in one transaction.
Dissolve(p) ==
  LET g == req[p].group
  IN  /\ Applying(p, "dissolve")
      /\ members' = {r \in members : r.group # g}
      /\ groups' = groups \ {g}
      /\ raced' = raced \cup {<<g, req[q].user>> : q \in {q \in Callers : Inviting(q, g)}}
      /\ Return(p)
      /\ UNCHANGED <<owner, name, usedIds, unseen>>

\* A query or a write fails, and the request ends; but an invitation takes an
\* error of its last query for the answer that the user is no member.
QueryFails(p) ==
  LET g == req[p].group
      u == req[p].user
  IN  /\ DbMayFail
      /\ \/ /\ req[p].step = "existing"
            /\ unseen' = IF RowsOf(g, u) # {} THEN unseen \cup {<<g, u>>} ELSE unseen
            /\ Goto(p, "apply")
         \/ /\ req[p].step \notin {"idle", "existing"}
            /\ Return(p)
            /\ UNCHANGED unseen
      /\ UNCHANGED <<tableVars, raced>>

Next ==
  \/ \E g \in Groups, u \in Users, i \in RowIds : CreateGroup(g, u, i)
  \/ \E p \in Callers, op \in Ops, g \in Groups, by \in Users, u \in Users : Ask(p, op, g, by, u)
  \/ \E p \in Callers :
       \/ FindGroup(p) \/ FindMember(p) \/ FindExisting(p)
       \/ \E i \in RowIds : AddMember(p, i)
       \/ RemoveMember(p) \/ UpdateName(p) \/ Dissolve(p) \/ QueryFails(p)

Spec == Init /\ [][Next]_vars

-----------------------------------------------------------------------------
(* Properties.                                                             *)

\* The tables have their types, and the id of a member row is its key.
GroupTypeOK ==
  /\ groups \subseteq Groups
  /\ owner \in [Groups -> Users \cup {None}]
  /\ name \in [Groups -> Users \cup {None}]
  /\ members \subseteq Rows
  /\ usedIds \subseteq RowIds
  /\ req \in [Callers -> [op : Ops, group : Groups, by : Users, user : Users,
                          row : RowIds \cup {None}, step : Steps \ {"idle"}] \cup {NoRequest}]
  /\ raced \subseteq Groups \X Users /\ unseen \subseteq Groups \X Users
  /\ \A r, s \in members : r.id = s.id => r = s

\* As long as a group exists its owner is a member and an admin of it: no
\* request to leave, however old the checks it made, takes the owner's row.
OwnerStaysAdmin ==
  \A g \in groups : \E r \in RowsOf(g, owner[g]) : r.role = Admin

\* Nobody else ever is, so that only the owner changes a group or its members.
OnlyOwnerActs ==
  [][\A p \in Callers :
       (UpdateName(p) \/ \E i \in RowIds : AddMember(p, i))
         => req[p].by = owner[req[p].group]]_vars

\* A user is twice in a group only if two invitations of that user were under
\* way at the same time, or one of them met a failing query: one after the other,
\* and after requests to leave, they never do that.
DoubleExplained ==
  \A g \in Groups, u \in Users :
    Cardinality(RowsOf(g, u)) > 1 => <<g, u>> \in raced \cup unseen

\* A membership outlives its group only if an invitation was under way when the
\* group was dissolved.
OrphanOnlyByRace ==
  \A r \in members : r.group \notin groups => <<r.group, r.user>> \in raced
=============================================================================
