----------------------------- MODULE AgentsProofs -----------------------------
(***************************************************************************)
(* The two kinds of agents.  Integrations: their two files agree at every  *)
(* start, for any numbers of requests and limits.  Authority without a     *)
(* routing row cannot come about, because the row is written first; a      *)
(* selection without authority can, but only where the lifecycle has       *)
(* retired something, and then the start prunes.  The OpenClaw client, at  *)
(* the end: nothing waits for a connection that is gone.                   *)
(***************************************************************************)
EXTENDS Integrations, TLAPS

\* What holds of every snapshot of authz.json: enabled credentials were issued, and so was that
\* of a request that has one; a completed request has one.
Sound(x) ==
    /\ x.enabled \subseteq x.issued
    /\ \A i \in Ids : /\ x.row[i].state = "completed" => x.row[i].credential
                      /\ x.row[i].credential => <<i, "enrolled">> \in x.issued

\* Authority has a routing row, that of the agent under way excepted.
Covered(x, f, but) == \A i \in Ids \ {but} : Valid(x, i) => i \in f.rows

\* The selection has authority, unless something was retired since.
Selected(x, f) == ~x.lifecycle /\ f.active # None => Available(x, f.active)

\* What an enrollment that is over stays: its request is kept, and is not under way again.
Done == Ended \cup {"completed"}
Lasts(x, y) ==
    \A i \in Ids : x.row[i].credential /\ x.row[i].state \in Done
                  => y.row[i].credential /\ y.row[i].state \in Done

\* The credential of i was handed out and is not yet acknowledged, and the owner and the origin
\* it was asked for under are those of now.
Deserves(x, i, o) ==
    /\ x.row[i].state = "delivered" /\ x.row[i].credential
    /\ x.row[i].owner = x.owner /\ x.row[i].origin = o
    /\ <<i, "enrolled">> \in x.issued \ x.blocked

\* What a call may be about to commit.
Pending(x, y, o) == Lasts(x, y) /\ \A i \in Ids : Valid(y, i) => Valid(x, i) \/ Deserves(x, i, o)

Files(x, f) == Sound(x) /\ Covered(x, f, None) /\ Selected(x, f) /\ f.active \in f.rows \cup {None}

IntegrationInv ==
    /\ TypeOK
    /\ Files(authz, agents)
    /\ call.at \in {"register", "reregister"} => call.agent \in Ids
    /\ call.at = "register" => Sound(call.to) /\ Covered(call.to, agents, call.agent) /\ Selected(call.to, agents)
    /\ call.at = "commit" => Sound(call.to) /\ Covered(call.to, agents, None) /\ Selected(call.to, agents)
    /\ call.at \in {"register", "commit"} => Pending(authz, call.to, origin)
    /\ call.at = "sweep" => ~authz.lifecycle
    /\ StartsAgain

-----------------------------------------------------------------------------
\* Snapshots.  What a call commits: no agent gains authority, and none loses it unnoticed.
Change(x, y) ==
    /\ y \in AuthzType /\ Sound(y) /\ Lasts(x, y)
    /\ \A i \in Ids : Valid(y, i) => Valid(x, i)
    /\ y.lifecycle \/ (~x.lifecycle /\ \A i \in Ids : Valid(x, i) => Valid(y, i))

LEMMA CredTyped ==
  ASSUME NEW i \in Ids, NEW k \in {"enrolled", "rotated"}
  PROVE  <<i, k>> \in Creds /\ <<i, k>>[1] = i /\ <<i, k>>[2] = k
BY DEF Creds

\* An agent has two credentials at most: what it enrolled with, and what replaced that.
Live(x, i, k) == <<i, k>> \in x.issued /\ <<i, k>> \in x.enabled /\ <<i, k>> \notin x.blocked

LEMMA ValidIs ==
  ASSUME NEW x, NEW i \in Ids
  PROVE  Valid(x, i) <=> x.row[i].state = "completed" /\ (Live(x, i, "enrolled") \/ Live(x, i, "rotated"))
<1>1. ASSUME Valid(x, i)
      PROVE  x.row[i].state = "completed" /\ (Live(x, i, "enrolled") \/ Live(x, i, "rotated"))
  <2>1. x.row[i].state = "completed"
    BY <1>1 DEF Valid
  <2>2. PICK c \in Creds : c[1] = i /\ c \in x.issued /\ c \in x.enabled \ x.blocked
    BY <1>1 DEF Valid, Usable
  <2>3. c = <<i, "enrolled">> \/ c = <<i, "rotated">>
    BY <2>2 DEF Creds
  <2> QED
    BY <2>1, <2>2, <2>3 DEF Live
<1>2. ASSUME NEW k \in {"enrolled", "rotated"}, x.row[i].state = "completed", Live(x, i, k)
      PROVE  Valid(x, i)
  <2> DEFINE c == <<i, k>>
  <2>1. c \in Creds /\ c[1] = i /\ c[2] = k
    BY CredTyped
  <2>2. c \in x.issued /\ c \in x.enabled \ x.blocked
    BY <1>2 DEF Live
  <2> HIDE DEF c
  <2>3. Usable(x, c)
    BY <1>2, <2>1, <2>2 DEF Usable
  <2> QED
    BY <1>2, <2>1, <2>2, <2>3 DEF Valid
<1> QED
  BY <1>1, <1>2

LEMMA SameValid ==
  ASSUME NEW x, NEW y, NEW i \in Ids, y.row[i].state = x.row[i].state,
         Live(y, i, "enrolled") <=> Live(x, i, "enrolled"), Live(y, i, "rotated") <=> Live(x, i, "rotated")
  PROVE  Valid(y, i) <=> Valid(x, i)
BY ValidIs, Zenon

LEMMA RetiredIs ==
  ASSUME NEW x \in AuthzType, NEW cs \in SUBSET Creds
  PROVE  /\ Retired(x, cs) \in AuthzType
         /\ Retired(x, cs).row = x.row /\ Retired(x, cs).issued = x.issued
         /\ Retired(x, cs).enabled = x.enabled \ cs /\ Retired(x, cs).blocked = x.blocked \cup cs
         /\ cs # {} => Retired(x, cs).lifecycle
         /\ cs = {} => Retired(x, cs).lifecycle = x.lifecycle
<1> DEFINE b == x.lifecycle \/ cs # {}
<1>1. b \in BOOLEAN /\ (cs # {} => b) /\ (cs = {} => b = x.lifecycle)
  BY DEF AuthzType
<1>2. Retired(x, cs) = [x EXCEPT !.blocked = x.blocked \cup cs, !.enabled = x.enabled \ cs, !.lifecycle = b]
  BY DEF Retired
<1> HIDE DEF b
<1> QED
  BY <1>1, <1>2 DEF AuthzType

\* What a sweep does to a row.
LEMMA DueIs ==
  ASSUME NEW x \in AuthzType, NEW i \in Ids
  PROVE  /\ Due(x, i) \in {"none", "completed"} \cup Open \cup Ended
         /\ Due(x, i) = "completed" => x.row[i].state = "completed"
         /\ Valid(x, i) => Due(x, i) = "completed"
         /\ x.row[i].state \in Done => Due(x, i) \in Done
<1>1. x.row[i].state \in {"none", "completed"} \cup Open \cup Ended
  BY DEF AuthzType, RowType
<1> QED
  BY <1>1 DEF Due, Valid, Usable, Open, Ended, Done

LEMMA SweptIs ==
  ASSUME NEW x \in AuthzType, Sound(x)
  PROVE  Swept(x) \in AuthzType /\ Change(x, Swept(x))
<1> DEFINE ended == {i \in Ids : x.row[i].state \in Open /\ Due(x, i) \notin Open}
           cs == {c \in x.issued : c[1] \in ended}
           z == Retired(x, cs)
           rows == [i \in Ids |-> [z.row[i] EXCEPT !.state = Due(x, i)]]
           y == [z EXCEPT !.row = rows]
<1>1. cs \in SUBSET Creds
  BY DEF AuthzType
<1>2. /\ z \in AuthzType /\ z.row = x.row /\ z.issued = x.issued
      /\ z.enabled = x.enabled \ cs /\ z.blocked = x.blocked \cup cs
      /\ cs # {} => z.lifecycle
      /\ cs = {} => z.lifecycle = x.lifecycle
  BY <1>1, RetiredIs
<1>3. Swept(x) = y
  BY DEF Swept
<1>4. ASSUME NEW i \in Ids
      PROVE  /\ rows[i] \in RowType /\ rows[i].state = Due(x, i)
             /\ rows[i].credential = x.row[i].credential
  <2>1. x.row[i] \in RowType
    BY DEF AuthzType
  <2>2. rows[i] = [x.row[i] EXCEPT !.state = Due(x, i)]
    BY <1>2
  <2> QED
    BY <2>1, <2>2, DueIs DEF RowType
<1>5. rows \in [Ids -> RowType]
  BY <1>4
<1>6. ASSUME NEW c \in cs PROVE c[1] \in Ids /\ x.row[c[1]].state \in Open
  OBVIOUS
<1> HIDE DEF z, rows, cs
<1>7. /\ y \in AuthzType /\ y.row = rows /\ y.issued = x.issued
      /\ y.enabled = x.enabled \ cs /\ y.blocked = x.blocked \cup cs /\ y.lifecycle = z.lifecycle
  BY <1>2, <1>5 DEF AuthzType
<1> HIDE DEF y
<1>8. Sound(y)
  BY <1>4, <1>7, DueIs DEF Sound
<1>9. ASSUME NEW i \in Ids PROVE Valid(y, i) <=> Valid(x, i)
  <2>1. CASE x.row[i].state = "completed" /\ Due(x, i) = "completed"
    <3>1. ASSUME NEW k \in {"enrolled", "rotated"} PROVE <<i, k>> \notin cs
      BY <1>6, <2>1, CredTyped DEF Open
    <3>2. y.row[i].state = x.row[i].state
      BY <1>4, <1>7, <2>1
    <3>3. ASSUME NEW k \in {"enrolled", "rotated"} PROVE Live(y, i, k) <=> Live(x, i, k)
      BY <1>7, <3>1 DEF Live
    <3> QED
      BY <3>2, <3>3, SameValid
  <2>2. CASE ~(x.row[i].state = "completed" /\ Due(x, i) = "completed")
    BY <1>4, <1>7, <2>2, DueIs DEF Valid
  <2> QED
    BY <2>1, <2>2
<1>10. y.lifecycle \/ ~x.lifecycle
  <2>1. x.lifecycle \in BOOLEAN
    BY DEF AuthzType
  <2> QED
    BY <1>2, <1>7, <2>1
<1>11. Lasts(x, y)
  BY <1>4, <1>7, DueIs DEF Lasts
<1> QED
  BY <1>3, <1>7, <1>8, <1>9, <1>10, <1>11 DEF Change

LEMMA SweptRow ==
  ASSUME NEW x \in AuthzType, Swept(x) = x, NEW i \in Ids
  PROVE  Due(x, i) = x.row[i].state
<1> DEFINE cs == {c \in x.issued : c[1] \in {j \in Ids : x.row[j].state \in Open /\ Due(x, j) \notin Open}}
           z == Retired(x, cs)
           rows == [j \in Ids |-> [z.row[j] EXCEPT !.state = Due(x, j)]]
<1>1. z \in AuthzType /\ z.row = x.row
  <2>1. cs \in SUBSET Creds
    BY DEF AuthzType
  <2> HIDE DEF cs
  <2> QED
    BY <2>1, RetiredIs
<1>2. x = [z EXCEPT !.row = rows]
  BY DEF Swept
<1>3. rows[i].state = Due(x, i)
  <2>1. x.row[i] \in RowType
    BY DEF AuthzType
  <2>2. rows[i] = [x.row[i] EXCEPT !.state = Due(x, i)]
    BY <1>1
  <2> QED
    BY <2>1, <2>2 DEF RowType
<1> HIDE DEF z, rows
<1>4. x.row = rows
  BY <1>1, <1>2 DEF AuthzType
<1> QED
  BY <1>3, <1>4

\* Dropping old requests and filing a new one.
LEMMA RequestIs ==
  ASSUME NEW x \in AuthzType, Sound(x), NEW i \in Ids, origin \in Origins, ~Kept(x, i)
  PROVE  Change(x, Requested(Pruned(x), i))
<1> DEFINE new == [NoRow EXCEPT !.state = "pending", !.owner = Pruned(x).owner, !.origin = origin]
           rows == [j \in Ids |-> IF Kept(x, j) THEN x.row[j] ELSE NoRow]
           all == [rows EXCEPT ![i] = new]
           y == [x EXCEPT !.row = all]
<1>1. NoRow \in RowType /\ NoRow.state = "none" /\ NoRow.credential = FALSE
  BY DEF NoRow, RowType
<1>2. Pruned(x) = [x EXCEPT !.row = rows] /\ Pruned(x).owner = x.owner /\ Pruned(x).row = rows
  BY DEF Pruned, AuthzType
<1>3. new \in RowType /\ new.state = "pending" /\ new.credential = FALSE
  BY <1>1, <1>2 DEF NoRow, RowType, AuthzType, Open
<1>4. Requested(Pruned(x), i) = y
  <2> HIDE DEF rows
  <2>1. Requested(Pruned(x), i) = [Pruned(x) EXCEPT !.row = [Pruned(x).row EXCEPT ![i] = new]]
    BY <1>2 DEF Requested, AuthzType
  <2> QED
    BY <1>2, <2>1 DEF AuthzType
<1>5. rows \in [Ids -> RowType]
  BY <1>1 DEF AuthzType
<1>6. ASSUME NEW j \in Ids PROVE Kept(x, j) \/ x.row[j].state # "completed"
  BY DEF Kept, Sound
<1>7. ASSUME NEW j \in Ids PROVE all[j] = IF j = i THEN new ELSE IF Kept(x, j) THEN x.row[j] ELSE NoRow
  BY DEF AuthzType
<1> HIDE DEF new, rows, all
<1>8. all \in [Ids -> RowType]
  BY <1>3, <1>5 DEF all
<1>9. /\ y \in AuthzType /\ y.row = all /\ y.issued = x.issued /\ y.enabled = x.enabled
      /\ y.blocked = x.blocked /\ y.lifecycle = x.lifecycle
  BY <1>8 DEF AuthzType
<1> HIDE DEF y
<1>10. ASSUME NEW j \in Ids
       PROVE  /\ y.row[j].state = "completed" <=> x.row[j].state = "completed"
              /\ y.row[j].state = "completed" => y.row[j].credential
              /\ y.row[j].credential => x.row[j].credential
  <2>1. CASE j = i
    BY <1>3, <1>6, <1>7, <1>9, <2>1
  <2>2. CASE j # i /\ Kept(x, j)
    BY <1>7, <1>9, <2>2 DEF Sound
  <2>3. CASE j # i /\ ~Kept(x, j)
    BY <1>1, <1>6, <1>7, <1>9, <2>3
  <2> QED
    BY <2>1, <2>2, <2>3
<1>11. Sound(y)
  BY <1>9, <1>10 DEF Sound
<1>12. ASSUME NEW j \in Ids PROVE Valid(y, j) <=> Valid(x, j)
  BY <1>9, <1>10, ValidIs DEF Live
<1>13. x.lifecycle \in BOOLEAN
  BY DEF AuthzType
<1>14. ASSUME NEW j \in Ids, x.row[j].credential, x.row[j].state \in Done PROVE y.row[j] = x.row[j]
  <2>1. Kept(x, j)
    BY <1>14 DEF Kept, Done, Ended
  <2> QED
    BY <1>7, <1>9, <2>1
<1> QED
  BY <1>4, <1>9, <1>11, <1>12, <1>13, <1>14 DEF Change, Lasts

\* A row in another state, with its credential issued or not.
LEMMA StateIs ==
  ASSUME NEW x \in AuthzType, Sound(x), NEW i \in Ids, NEW r \in RowType,
         x.row[i].state \in Open, r.state # "completed", r.credential => x.row[i].credential,
         NEW y, y = [x EXCEPT !.row = [x.row EXCEPT ![i] = r]]
  PROVE  Change(x, y)
<1>0. x.row[i].state \notin Done
  BY DEF Open, Ended, Done
<1>1. [x.row EXCEPT ![i] = r] \in [Ids -> RowType]
  BY DEF AuthzType
<1>2. /\ y \in AuthzType /\ y.row = [x.row EXCEPT ![i] = r]
      /\ y.issued = x.issued /\ y.enabled = x.enabled /\ y.blocked = x.blocked /\ y.lifecycle = x.lifecycle
  BY <1>1 DEF AuthzType
<1>3. y.row[i] = r /\ \A j \in Ids \ {i} : y.row[j] = x.row[j]
  BY <1>2 DEF AuthzType
<1>4. Sound(y)
  BY <1>2, <1>3 DEF Sound
<1>5. ASSUME NEW j \in Ids PROVE Valid(y, j) <=> Valid(x, j)
  <2>1. CASE j = i
    BY <1>0, <1>3, <2>1 DEF Valid, Done
  <2>2. CASE j # i
    <3>1. y.row[j].state = x.row[j].state
      BY <1>3, <2>2
    <3>2. ASSUME NEW k \in {"enrolled", "rotated"} PROVE Live(y, j, k) <=> Live(x, j, k)
      BY <1>2, Zenon DEF Live
    <3> QED
      BY <3>1, <3>2, SameValid, Zenon
  <2> QED
    BY <2>1, <2>2
<1>6. x.lifecycle \in BOOLEAN
  BY DEF AuthzType
<1>7. Lasts(x, y)
  BY <1>0, <1>3 DEF Lasts
<1> QED
  BY <1>2, <1>4, <1>5, <1>6, <1>7 DEF Change

LEMMA DeliveredIs ==
  ASSUME NEW x \in AuthzType, Sound(x), NEW i \in Ids, x.row[i].state = "approved"
  PROVE  Change(x, [x EXCEPT !.row[i] = [x.row[i] EXCEPT !.state = "delivered", !.credential = TRUE],
                             !.issued = @ \cup {<<i, "enrolled">>}])
<1> DEFINE r == [x.row[i] EXCEPT !.state = "delivered", !.credential = TRUE]
           new == x.issued \cup {<<i, "enrolled">>}
           rows == [x.row EXCEPT ![i] = r]
           y == [x EXCEPT !.row[i] = r, !.issued = new]
<1>1. x.row[i] \in RowType
  BY DEF AuthzType
<1>2. r \in RowType /\ r.state = "delivered"
  BY <1>1 DEF RowType, Open
<1>3. <<i, "enrolled">> \in Creds
  BY DEF Creds
<1>4. new \in SUBSET Creds
  BY <1>3 DEF AuthzType
<1>5. rows \in [Ids -> RowType]
  BY <1>2 DEF AuthzType
<1>6. ASSUME NEW j \in Ids, j # i, NEW k \in {"enrolled", "rotated"} PROVE <<j, k>> \in new <=> <<j, k>> \in x.issued
  BY <1>6
<1> HIDE DEF r, new
<1>7. /\ y \in AuthzType /\ y.row = rows
      /\ y.issued = new /\ y.enabled = x.enabled /\ y.blocked = x.blocked /\ y.lifecycle = x.lifecycle
  BY <1>4, <1>5 DEF AuthzType
<1> HIDE DEF y
<1>8. y.row[i].state = "delivered" /\ \A j \in Ids \ {i} : y.row[j] = x.row[j]
  BY <1>2, <1>7 DEF AuthzType
<1>9. Sound(y)
  BY <1>7, <1>8 DEF Sound, new
<1>10. ASSUME NEW j \in Ids PROVE Valid(y, j) <=> Valid(x, j)
  <2>1. CASE j = i
    BY <1>8, <2>1 DEF Valid
  <2>2. CASE j # i
    BY <1>6, <1>7, <1>8, <2>2, SameValid DEF Live
  <2> QED
    BY <2>1, <2>2
<1>11. x.lifecycle \in BOOLEAN
  BY DEF AuthzType
<1>12. Lasts(x, y)
  BY <1>8 DEF Lasts, Done, Ended
<1> QED
  BY <1>7, <1>9, <1>10, <1>11, <1>12 DEF Change, y, r, new

LEMMA WithdrawnIs ==
  ASSUME NEW x \in AuthzType, Sound(x), NEW i \in Ids, x.row[i].state \in Open, NEW target \in Ended
  PROVE  Change(x, [Retired(x, {c \in x.issued : c[1] = i}) EXCEPT !.row[i].state = target])
<1> DEFINE cs == {c \in x.issued : c[1] = i}
           z == Retired(x, cs)
           r == [x.row[i] EXCEPT !.state = target]
           y == [z EXCEPT !.row[i].state = target]
<1>1. cs \in SUBSET Creds
  BY DEF AuthzType
<1>2. /\ z \in AuthzType /\ z.row = x.row /\ z.issued = x.issued
      /\ z.enabled = x.enabled \ cs /\ z.blocked = x.blocked \cup cs
      /\ cs # {} => z.lifecycle
      /\ cs = {} => z.lifecycle = x.lifecycle
  BY <1>1, RetiredIs
<1>3. ASSUME NEW j \in Ids, j # i, NEW k \in {"enrolled", "rotated"} PROVE <<j, k>> \notin cs
  BY <1>3, CredTyped
<1>4. x.row[i] \in RowType
  BY DEF AuthzType
<1>5. r \in RowType /\ r.state = target /\ r.credential = x.row[i].credential
  BY <1>4 DEF RowType
<1>6. target # "completed" /\ x.row[i].state # "completed"
  BY DEF Open, Ended
<1> HIDE DEF z, cs
<1>7. y = [z EXCEPT !.row = [x.row EXCEPT ![i] = r]]
  BY <1>2
<1> HIDE DEF y, r
<1>8. [x.row EXCEPT ![i] = r] \in [Ids -> RowType]
  BY <1>5 DEF AuthzType
<1>9. /\ y \in AuthzType /\ y.row = [x.row EXCEPT ![i] = r] /\ y.issued = x.issued
      /\ y.enabled = x.enabled \ cs /\ y.blocked = x.blocked \cup cs /\ y.lifecycle = z.lifecycle
  BY <1>2, <1>7, <1>8 DEF AuthzType
<1>10. y.row[i] = r /\ \A j \in Ids \ {i} : y.row[j] = x.row[j]
  BY <1>9 DEF AuthzType
<1>11. Sound(y)
  BY <1>5, <1>6, <1>9, <1>10 DEF Sound
<1>12. ASSUME NEW j \in Ids PROVE Valid(y, j) <=> Valid(x, j)
  <2>1. CASE j = i
    BY <1>5, <1>6, <1>10, <2>1 DEF Valid
  <2>2. CASE j # i
    BY <1>3, <1>9, <1>10, <2>2, SameValid DEF Live
  <2> QED
    BY <2>1, <2>2
<1>13. y.lifecycle \/ ~x.lifecycle
  <2>1. x.lifecycle \in BOOLEAN
    BY DEF AuthzType
  <2> QED
    BY <1>2, <1>9, <2>1
<1>14. Lasts(x, y)
  BY <1>5, <1>10 DEF Lasts, Done
<1> QED
  BY <1>9, <1>11, <1>12, <1>13, <1>14 DEF Change, y, z, cs

LEMMA RevokedIs ==
  ASSUME NEW x \in AuthzType, Sound(x), NEW cs \in SUBSET Creds, cs # {}
  PROVE  Change(x, Retired(x, cs))
<1> DEFINE y == Retired(x, cs)
<1>1. /\ y \in AuthzType /\ y.row = x.row /\ y.issued = x.issued
      /\ y.enabled = x.enabled \ cs /\ y.blocked = x.blocked \cup cs /\ y.lifecycle
  BY RetiredIs
<1> HIDE DEF y
<1>2. Sound(y)
  BY <1>1 DEF Sound
<1>3. ASSUME NEW j \in Ids PROVE Valid(y, j) => Valid(x, j)
  BY <1>1, ValidIs DEF Live
<1> QED
  BY <1>1, <1>2, <1>3 DEF Change, Lasts, y

LEMMA RotatedIs ==
  ASSUME NEW x \in AuthzType, Sound(x), NEW i \in Ids, Usable(x, <<i, "enrolled">>)
  PROVE  Change(x, [Retired(x, {<<i, "enrolled">>}) EXCEPT
                      !.issued = @ \cup {<<i, "rotated">>},
                      !.enabled = (@ \ {<<i, "enrolled">>}) \cup {<<i, "rotated">>}])
<1> DEFINE old == <<i, "enrolled">>
           new == <<i, "rotated">>
           z == Retired(x, {old})
           y == [z EXCEPT !.issued = @ \cup {new}, !.enabled = (@ \ {old}) \cup {new}]
<1>1. old \in Creds /\ new \in Creds /\ old[1] = i /\ old[2] = "enrolled"
  BY DEF Creds
<1>2. old \in x.enabled \ x.blocked /\ x.row[i].state = "completed"
  BY <1>1 DEF Usable
<1>3. Valid(x, i)
  BY <1>2, ValidIs DEF Live, Sound
<1>4. ASSUME NEW j \in Ids, j # i, NEW k \in {"enrolled", "rotated"} PROVE <<j, k>> # old /\ <<j, k>> # new
  BY <1>4
<1> HIDE DEF old, new
<1>5. /\ z \in AuthzType /\ z.row = x.row /\ z.issued = x.issued
      /\ z.enabled = x.enabled \ {old} /\ z.blocked = x.blocked \cup {old} /\ z.lifecycle
  BY <1>1, RetiredIs
<1> HIDE DEF z
<1>6. /\ y \in AuthzType /\ y.row = x.row /\ y.issued = x.issued \cup {new}
      /\ y.enabled = (x.enabled \ {old}) \cup {new} /\ y.blocked = x.blocked \cup {old} /\ y.lifecycle
  BY <1>1, <1>5 DEF AuthzType
<1> HIDE DEF y
<1>7. Sound(y)
  BY <1>6 DEF Sound
<1>8. ASSUME NEW j \in Ids PROVE Valid(y, j) => Valid(x, j)
  <2>1. CASE j = i
    BY <1>3, <2>1
  <2>2. CASE j # i
    BY <1>4, <1>6, <2>2, SameValid, ValidIs DEF Live
  <2> QED
    BY <2>1, <2>2
<1> QED
  BY <1>6, <1>7, <1>8 DEF Change, Lasts, y, z, old, new

\* An acknowledgement gives authority to its own agent only.
LEMMA CompletedIs ==
  ASSUME NEW x \in AuthzType, Sound(x), NEW i \in Ids, x.row[i].credential
  PROVE  /\ Completed(x, i) \in AuthzType /\ Sound(Completed(x, i))
         /\ \A j \in Ids \ {i} : Valid(Completed(x, i), j) <=> Valid(x, j)
         /\ Valid(x, i) => Valid(Completed(x, i), i)
         /\ Completed(x, i).lifecycle = x.lifecycle
         /\ Lasts(x, Completed(x, i))
<1> DEFINE r == [x.row[i] EXCEPT !.state = "completed"]
           new == x.enabled \cup {<<i, "enrolled">>}
           y == Completed(x, i)
<1>1. <<i, "enrolled">> \in Creds /\ <<i, "enrolled">> \in x.issued
  BY DEF Creds, Sound
<1>2. x.row[i] \in RowType
  BY DEF AuthzType
<1>3. r \in RowType /\ r.state = "completed" /\ r.credential
  BY <1>2 DEF RowType
<1>4. y = [x EXCEPT !.row = [x.row EXCEPT ![i] = r], !.enabled = new]
  BY DEF Completed
<1>5. new \in SUBSET Creds /\ new \subseteq x.issued /\ x.enabled \subseteq new
  BY <1>1 DEF AuthzType, Sound
<1>6. ASSUME NEW j \in Ids, j # i, NEW k \in {"enrolled", "rotated"} PROVE <<j, k>> \in new <=> <<j, k>> \in x.enabled
  BY <1>6
<1> HIDE DEF r, new, y
<1>7. [x.row EXCEPT ![i] = r] \in [Ids -> RowType]
  BY <1>3 DEF AuthzType
<1>8. /\ y \in AuthzType /\ y.row = [x.row EXCEPT ![i] = r] /\ y.issued = x.issued
      /\ y.enabled = new /\ y.blocked = x.blocked /\ y.lifecycle = x.lifecycle
  BY <1>4, <1>5, <1>7 DEF AuthzType
<1>9. y.row[i] = r /\ \A j \in Ids \ {i} : y.row[j] = x.row[j]
  BY <1>8 DEF AuthzType
<1>10. Sound(y)
  BY <1>1, <1>3, <1>5, <1>8, <1>9 DEF Sound
<1>11. \A j \in Ids \ {i} : Valid(y, j) <=> Valid(x, j)
  BY <1>6, <1>8, <1>9, SameValid DEF Live
<1>12. Valid(x, i) => Valid(y, i)
  BY <1>3, <1>5, <1>8, <1>9, ValidIs DEF Live
<1>13. Lasts(x, y)
  BY <1>3, <1>9 DEF Lasts, Done
<1> QED
  BY <1>8, <1>10, <1>11, <1>12, <1>13 DEF y

-----------------------------------------------------------------------------
\* Steps.

\* A call that sets out to commit x, when the files are as they should be.
LEMMA CommitInv ==
  ASSUME NEW x \in AuthzType, Commit(x), Change(authz', x), Files(authz', agents'),
         authz' \in AuthzType, agents' \in AgentsType, late' \in SUBSET Ids,
         server' \in {"up", "starting", "down"}, origin' \in Origins, events' \in Nat
  PROVE  IntegrationInv'
<1>1. call' \in CallType /\ call'.at = "commit" /\ call'.to = x
  BY DEF Commit, Idle, CallType
<1>2. TypeOK'
  BY <1>1 DEF TypeOK
<1>3. Sound(x) /\ Covered(x, agents', None) /\ Selected(x, agents')
  BY DEF Change, Files, Covered, Selected, Available
<1>4. Pending(authz', x, origin')
  BY DEF Change, Pending
<1> QED
  BY <1>1, <1>2, <1>3, <1>4 DEF IntegrationInv, StartsAgain, Covered, Selected

\* A call that ends.
LEMMA IdleInv ==
  ASSUME call' = Idle, Files(authz', agents'),
         authz' \in AuthzType, agents' \in AgentsType, late' \in SUBSET Ids,
         server' \in {"up", "starting", "down"}, origin' \in Origins, events' \in Nat
  PROVE  IntegrationInv'
<1>1. Empty \in AuthzType
  BY DEF Empty, AuthzType, NoRow, RowType, Creds
<1>2. call' \in CallType /\ call'.at = "idle"
  BY <1>1 DEF Idle, CallType
<1>3. TypeOK'
  BY <1>2 DEF TypeOK
<1> QED
  BY <1>2, <1>3 DEF IntegrationInv, StartsAgain

\* The calls that commit what Change describes, leaving the registry alone.
LEMMA QuietInv ==
  ASSUME IntegrationInv, NEW x, Commit(x), Change(authz, x),
         UNCHANGED <<authz, agents, server, origin>>, late' \in SUBSET Ids, events' \in Nat
  PROVE  IntegrationInv'
<1>1. x \in AuthzType /\ Change(authz', x)
  BY DEF Change
<1>2. Files(authz', agents') /\ authz' \in AuthzType /\ agents' \in AgentsType /\ server' \in {"up", "starting", "down"}
      /\ origin' \in Origins
  BY DEF IntegrationInv, TypeOK, Files, Covered, Selected
<1> QED
  BY <1>1, <1>2, CommitInv

LEMMA SweepInv ==
  ASSUME IntegrationInv, Sweep
  PROVE  IntegrationInv'
<1>1. Change(authz, Swept(authz))
  BY SweptIs DEF IntegrationInv, TypeOK, Files
<1> QED
  BY <1>1, QuietInv DEF Sweep, Unchanged, IntegrationInv, TypeOK

LEMMA RequestInv ==
  ASSUME IntegrationInv, NEW i \in Ids, Request(i)
  PROVE  IntegrationInv'
<1> DEFINE x == Requested(Pruned(authz), i)
<1>1. authz \in AuthzType /\ Sound(authz) /\ origin \in Origins /\ ~Kept(authz, i)
  BY DEF IntegrationInv, TypeOK, Files, Request, Kept
<1>2. Change(authz, x)
  BY <1>1, RequestIs
<1>3. Commit(x) /\ UNCHANGED <<authz, agents, server, origin>> /\ late' \in SUBSET Ids /\ events' \in Nat
  BY DEF Request, IntegrationInv, TypeOK
<1> HIDE DEF x
<1> QED
  BY <1>2, <1>3, QuietInv

\* The calls that change one row, or retire what it was issued.
LEMMA RowInv ==
  ASSUME IntegrationInv, NEW i \in Ids,
         \/ Approve(i) \/ WrongCode(i)
         \/ Withdraw(i, "cancelled") \/ Withdraw(i, "denied") \/ Deliver(i)
  PROVE  IntegrationInv'
<1> DEFINE r == authz.row[i]
<1>1. authz \in AuthzType /\ Sound(authz) /\ r \in RowType
  BY DEF IntegrationInv, TypeOK, Files, AuthzType
<1>2. CASE Approve(i)
  <2> DEFINE s == [r EXCEPT !.state = "approved"]
             x == [authz EXCEPT !.row = [authz.row EXCEPT ![i] = s]]
  <2>1. s \in RowType /\ s.state = "approved" /\ s.credential = r.credential
    BY <1>1 DEF RowType, Open
  <2>2. r.state \in Open
    BY <1>2 DEF Approve, Open
  <2>3. Commit(x) /\ UNCHANGED <<authz, agents, late, server, origin, events>>
    BY <1>2 DEF Approve, Unchanged
  <2> HIDE DEF s
  <2>4. Change(authz, x)
    BY <1>1, <2>1, <2>2, StateIs
  <2> HIDE DEF x
  <2> QED
    BY <2>3, <2>4, QuietInv DEF IntegrationInv, TypeOK
<1>3. CASE WrongCode(i)
  <2> DEFINE n == r.attempts + 1
             t == IF n >= MaxAttempts THEN "failed" ELSE r.state
             s == [r EXCEPT !.attempts = n, !.state = t]
             x == [authz EXCEPT !.row = [authz.row EXCEPT ![i] = s]]
  <2>1. r.state \in {"pending", "approved"} /\ r.attempts \in Nat
    BY <1>1, <1>3 DEF WrongCode, RowType
  <2>2. n \in Nat /\ t \in {"pending", "approved", "failed"}
    BY <2>1
  <2>3. Commit(x) /\ UNCHANGED <<authz, agents, late, server, origin, events>>
    BY <1>3 DEF WrongCode, Unchanged
  <2> HIDE DEF n, t
  <2>4. s \in RowType /\ s.state # "completed" /\ s.credential = r.credential
    BY <1>1, <2>2 DEF RowType, Open, Ended
  <2>5. r.state \in Open
    BY <2>1 DEF Open
  <2> HIDE DEF s
  <2>6. Change(authz, x)
    BY <1>1, <2>4, <2>5, StateIs
  <2> HIDE DEF x
  <2> QED
    BY <2>3, <2>6, QuietInv DEF IntegrationInv, TypeOK
<1>4. ASSUME NEW target \in {"cancelled", "denied"}, Withdraw(i, target)
      PROVE  IntegrationInv'
  <2> DEFINE x == [Retired(authz, {c \in authz.issued : c[1] = i}) EXCEPT !.row[i].state = target]
  <2>1. r.state \in Open /\ target \in Ended
    BY <1>4 DEF Withdraw, Ended
  <2>2. Commit(x) /\ UNCHANGED <<authz, agents, late, server, origin, events>>
    BY <1>4 DEF Withdraw, Unchanged
  <2>3. Change(authz, x)
    BY <1>1, <2>1, WithdrawnIs
  <2> HIDE DEF x
  <2> QED
    BY <2>2, <2>3, QuietInv DEF IntegrationInv, TypeOK
<1>5. CASE Deliver(i)
  <2> DEFINE x == [authz EXCEPT !.row[i] = [authz.row[i] EXCEPT !.state = "delivered", !.credential = TRUE],
                                !.issued = @ \cup {<<i, "enrolled">>}]
  <2>1. authz.row[i].state = "approved"
    BY <1>5 DEF Deliver
  <2>2. Commit(x) /\ UNCHANGED <<authz, agents, late, server, origin, events>>
    BY <1>5 DEF Deliver, Unchanged
  <2>3. Change(authz, x)
    BY <1>1, <2>1, DeliveredIs
  <2> HIDE DEF x
  <2> QED
    BY <2>2, <2>3, QuietInv DEF IntegrationInv, TypeOK
<1> QED
  BY <1>2, <1>3, <1>4, <1>5

LEMMA LifecycleInv ==
  ASSUME IntegrationInv, NEW i \in Ids, Rotate(i) \/ Revoke(i)
  PROVE  IntegrationInv'
<1>1. authz \in AuthzType /\ Sound(authz)
  BY DEF IntegrationInv, TypeOK, Files
<1>2. UNCHANGED <<authz, agents, late, server, origin>> /\ events' \in Nat /\ late \in SUBSET Ids
  BY DEF Rotate, Revoke, Event, Unchanged, IntegrationInv, TypeOK
<1>3. CASE Rotate(i)
  <2> DEFINE x == [Retired(authz, {<<i, "enrolled">>}) EXCEPT
                     !.issued = @ \cup {<<i, "rotated">>},
                     !.enabled = (@ \ {<<i, "enrolled">>}) \cup {<<i, "rotated">>}]
  <2>1. Usable(authz, <<i, "enrolled">>) /\ Commit(x)
    BY <1>3 DEF Rotate
  <2>2. Change(authz, x)
    BY <1>1, <2>1, RotatedIs
  <2> HIDE DEF x
  <2> QED
    BY <1>2, <2>1, <2>2, QuietInv
<1>4. CASE Revoke(i)
  <2> DEFINE cs == {c \in authz.issued : c[1] = i}
  <2>1. cs # {} /\ Commit(Retired(authz, cs))
    BY <1>4 DEF Revoke
  <2>2. cs \in SUBSET Creds
    BY <1>1 DEF AuthzType
  <2> HIDE DEF cs
  <2>3. Change(authz, Retired(authz, cs))
    BY <1>1, <2>1, <2>2, RevokedIs
  <2> QED
    BY <1>2, <2>1, <2>3, QuietInv
<1> QED
  BY <1>3, <1>4

\* The row comes first: the agent under way may have a row without authority, not the reverse.
LEMMA AckInv ==
  ASSUME IntegrationInv, NEW i \in Ids, Ack(i)
  PROVE  IntegrationInv'
<1> DEFINE x == Completed(authz, i)
<1>1. /\ authz \in AuthzType /\ Sound(authz) /\ authz.row[i].credential
      /\ UNCHANGED <<authz, agents, late, server, origin, events>>
  BY DEF IntegrationInv, TypeOK, Files, Ack, Unchanged
<1>2. Empty \in AuthzType
  BY DEF Empty, AuthzType, NoRow, RowType, Creds
<1>3. Files(authz', agents')
  BY <1>1 DEF IntegrationInv, Files, Covered, Selected
<1>4. /\ x \in AuthzType /\ Sound(x) /\ x.lifecycle = authz.lifecycle
      /\ \A j \in Ids \ {i} : Valid(x, j) <=> Valid(authz, j)
      /\ Valid(authz, i) => Valid(x, i)
      /\ Lasts(authz, x)
  BY <1>1, CompletedIs
<1>12. authz.row[i].state = "delivered" => Deserves(authz, i, origin)
  <2>1. Due(authz, i) = authz.row[i].state /\ <<i, "enrolled">> \notin authz.blocked
    BY <1>1, SweptRow DEF Ack, Begins
  <2>2. <<i, "enrolled">> \in authz.issued
    BY <1>1 DEF Sound
  <2> QED
    BY <1>1, <2>1, <2>2 DEF Due, Deserves, Open
<1>5. \/ call' = [Idle EXCEPT !.at = "register", !.agent = i, !.to = x] /\ authz.row[i].state = "delivered"
      \/ call' = [Idle EXCEPT !.at = "reregister", !.agent = i]
  BY DEF Ack
<1> HIDE DEF x
<1>6. call' \in CallType /\ call'.agent = i /\ (call'.at = "reregister" \/ (call'.at = "register" /\ call'.to = x))
  BY <1>2, <1>4, <1>5 DEF Idle, CallType
<1>13. call'.at = "register" => Pending(authz, x, origin)
  BY <1>4, <1>5, <1>12 DEF Pending, Idle
<1>7. TypeOK'
  BY <1>1, <1>6 DEF IntegrationInv, TypeOK
<1>8. Covered(x, agents', i)
  BY <1>1, <1>3, <1>4, AgentsAssumption DEF Files, Covered
<1>9. \A j \in Ids : Valid(authz, j) => Valid(x, j)
  BY <1>4
<1>10. Selected(authz, agents')
  BY <1>1, <1>3 DEF Files
<1>11. Selected(x, agents')
  BY <1>4, <1>9, <1>10, Zenon DEF Selected, Available
<1> QED
  BY <1>1, <1>3, <1>4, <1>6, <1>7, <1>8, <1>11, <1>13 DEF IntegrationInv, StartsAgain

LEMMA OwnerInv ==
  ASSUME IntegrationInv, OwnerChanges
  PROVE  IntegrationInv'
<1> DEFINE x == [authz EXCEPT !.owner = authz.owner + 1]
<1>1. authz \in AuthzType /\ Sound(authz)
  BY DEF IntegrationInv, TypeOK, Files
<1>2. Commit(x) /\ UNCHANGED <<authz, agents, late, server, origin>> /\ events' \in Nat /\ late \in SUBSET Ids
  BY DEF OwnerChanges, Event, Unchanged, IntegrationInv, TypeOK
<1>3. authz.owner + 1 \in Nat
  BY <1>1 DEF AuthzType
<1>4. /\ x \in AuthzType /\ x.row = authz.row /\ x.issued = authz.issued /\ x.enabled = authz.enabled
      /\ x.blocked = authz.blocked /\ x.lifecycle = authz.lifecycle /\ authz.lifecycle \in BOOLEAN
  BY <1>1, <1>3 DEF AuthzType
<1> HIDE DEF x
<1>5. \A j \in Ids : Valid(x, j) <=> Valid(authz, j)
  BY <1>4, ValidIs DEF Live
<1>6. Change(authz, x)
  BY <1>1, <1>4, <1>5 DEF Change, Sound, Lasts
<1> QED
  BY <1>2, <1>6, QuietInv

LEMMA ActivateInv ==
  ASSUME IntegrationInv, NEW a \in Ids \cup {Direct}, Activate(a)
  PROVE  IntegrationInv'
<1>1. agents'.rows = agents.rows /\ agents'.active = a /\ agents' \in AgentsType
  BY DEF Activate, IntegrationInv, TypeOK, AgentsType
<1>2. TypeOK'
  BY <1>1 DEF Activate, IntegrationInv, TypeOK
<1>3. Files(authz', agents')
  BY <1>1 DEF Activate, IntegrationInv, Files, Covered, Selected
<1>4. call' = call /\ call.at = "idle"
  BY DEF Activate, Serving, Free
<1> QED
  BY <1>2, <1>3, <1>4 DEF IntegrationInv, StartsAgain

-----------------------------------------------------------------------------
\* The writes.

LEMMA RegisteredIs ==
  ASSUME agents \in AgentsType, NEW i \in Ids
  PROVE  /\ Registered(agents, i) \in AgentsType
         /\ Registered(agents, i).rows = agents.rows \cup {i}
         /\ Registered(agents, i).active = agents.active
BY DEF Registered, AgentsType

LEMMA RegistersInv ==
  ASSUME IntegrationInv, Registers \/ RegisterFails
  PROVE  IntegrationInv'
<1> DEFINE i == call.agent
<1>1. agents \in AgentsType /\ i \in Ids /\ call \in CallType /\ call.at \in {"register", "reregister"}
  BY DEF Registers, RegisterFails, IntegrationInv, TypeOK
<1>2. /\ agents' = agents \/ agents' = Registered(agents, i)
      /\ UNCHANGED <<authz, late, server, origin>> /\ events' \in Nat
  BY DEF Registers, RegisterFails, Event, IntegrationInv, TypeOK
<1>3. agents' \in AgentsType /\ agents.rows \subseteq agents'.rows /\ agents'.active = agents.active
  BY <1>1, <1>2, RegisteredIs
<1>4. Files(authz', agents')
  BY <1>2, <1>3 DEF IntegrationInv, Files, Covered, Selected
<1>5. CASE call' = Idle
  BY <1>2, <1>3, <1>4, <1>5, IdleInv DEF IntegrationInv, TypeOK
<1>6. CASE Registers /\ call.at = "register"
  <2>1. call' = [call EXCEPT !.at = "commit"] /\ agents' = Registered(agents, i)
    BY <1>6 DEF Registers
  <2>2. call' \in CallType /\ call'.at = "commit" /\ call'.to = call.to
    BY <1>1, <2>1 DEF CallType
  <2>3. agents'.rows = agents.rows \cup {i}
    BY <1>1, <2>1, RegisteredIs
  <2>4. Sound(call.to) /\ Covered(call.to, agents, i) /\ Selected(call.to, agents)
    BY <1>6 DEF IntegrationInv
  <2>5. Covered(call.to, agents', None) /\ Selected(call.to, agents')
    BY <1>3, <2>2, <2>3, <2>4 DEF Covered, Selected
  <2>6. TypeOK'
    BY <1>2, <1>3, <2>2 DEF IntegrationInv, TypeOK
  <2>7. Pending(authz', call'.to, origin')
    BY <1>2, <1>6, <2>2 DEF IntegrationInv
  <2> QED
    BY <1>4, <2>2, <2>4, <2>5, <2>6, <2>7 DEF IntegrationInv, StartsAgain, Covered, Selected
<1> QED
  BY <1>5, <1>6 DEF Registers, RegisterFails

LEMMA CommitsInv ==
  ASSUME IntegrationInv, Commits \/ CommitFails
  PROVE  IntegrationInv'
<1>1. authz \in AuthzType /\ call \in CallType /\ call.at = "commit"
  BY DEF Commits, CommitFails, IntegrationInv, TypeOK
<1>2. authz' \in {authz, call.to} /\ UNCHANGED <<agents, late, server, origin>> /\ events' \in Nat
  BY DEF Commits, CommitFails, Event, IntegrationInv, TypeOK
<1>3. call' = [call EXCEPT !.at = "prune"] \/ call' = [call EXCEPT !.at = "prune", !.failed = TRUE]
  BY DEF Commits, CommitFails
<1>4. call' \in CallType /\ call'.at = "prune"
  BY <1>1, <1>3 DEF CallType
<1>5. call.to \in AuthzType
  BY <1>1 DEF CallType
<1>6. TypeOK'
  BY <1>1, <1>2, <1>4, <1>5 DEF IntegrationInv, TypeOK
<1>7. Files(authz', agents')
  BY <1>1, <1>2 DEF IntegrationInv, Files
<1> QED
  BY <1>4, <1>6, <1>7 DEF IntegrationInv, StartsAgain

\* Pruning leaves every row with authority, and no selection without.
LEMMA RetainedIs ==
  ASSUME NEW x, NEW f \in AgentsType, Files(x, f)
  PROVE  /\ Retained(f, x) \in AgentsType /\ Files(x, Retained(f, x))
         /\ Retained(f, x).active # None => Available(x, Retained(f, x).active)
<1> DEFINE rows == {a \in f.rows : Available(x, a)}
           active == IF f.active \in rows THEN f.active ELSE None
           g == Retained(f, x)
<1>1. f.rows \in SUBSET (Ids \cup {Direct}) /\ f.active \in Ids \cup {Direct, None}
  BY DEF AgentsType
<1>2. g.rows = rows /\ g.active = active
  BY DEF Retained
<1>3. g \in AgentsType
  BY <1>1 DEF Retained, AgentsType
<1>4. active \in rows \cup {None} /\ (active # None => Available(x, active))
  OBVIOUS
<1>5. ASSUME NEW i \in Ids, Valid(x, i) PROVE i \in rows
  BY <1>5, AgentsAssumption DEF Files, Covered, Available
<1> HIDE DEF g, rows, active
<1>6. Covered(x, g, None) /\ Selected(x, g)
  BY <1>2, <1>4, <1>5 DEF Covered, Selected
<1>7. Files(x, g)
  BY <1>2, <1>4, <1>6 DEF Files
<1> QED
  BY <1>2, <1>3, <1>4, <1>7 DEF g

\* What follows the last write of a call, or what a start has to sweep.
LEMMA ContinuesInv ==
  ASSUME IntegrationInv, Continues(authz), UNCHANGED <<authz, late, origin>>, events' \in Nat,
         agents' \in AgentsType, Files(authz, agents'),
         agents'.active # None => Available(authz, agents'.active)
  PROVE  IntegrationInv'
<1>1. /\ authz \in AuthzType /\ authz' \in AuthzType /\ late' \in SUBSET Ids
      /\ server \in {"up", "starting", "down"} /\ origin' \in Origins /\ Sound(authz)
  BY DEF IntegrationInv, TypeOK, Files
<1>2. server' \in {"up", "starting", "down"} /\ Files(authz', agents')
  BY <1>1 DEF Continues
<1>3. CASE call' = Idle
  BY <1>1, <1>2, <1>3, IdleInv
<1>4. CASE call' = [Idle EXCEPT !.at = "commit", !.to = Swept(authz)]
  <2> DEFINE x == Swept(authz)
  <2>1. x \in AuthzType /\ Change(authz, x)
    BY <1>1, SweptIs
  <2>2. Commit(x)
    BY <1>4 DEF Commit
  <2> HIDE DEF x
  <2>3. Change(authz', x)
    BY <2>1
  <2> QED
    BY <1>1, <1>2, <2>1, <2>2, <2>3, CommitInv
<1>5. CASE call' = [Idle EXCEPT !.at = "check"]
  <2>1. Empty \in AuthzType
    BY DEF Empty, AuthzType, NoRow, RowType, Creds
  <2>2. call' \in CallType /\ call'.at = "check"
    BY <1>5, <2>1 DEF Idle, CallType
  <2>3. TypeOK'
    BY <1>1, <1>2, <2>2 DEF TypeOK
  <2>4. Startable'
    BY <1>2, AgentsAssumption DEF Files, Covered, Startable
  <2> QED
    BY <1>2, <2>2, <2>3, <2>4 DEF IntegrationInv, StartsAgain
<1> QED
  BY <1>3, <1>4, <1>5 DEF Continues

LEMMA PrunesInv ==
  ASSUME IntegrationInv, Prunes \/ PruneFails
  PROVE  IntegrationInv'
<1> DEFINE g == Retained(agents, authz)
<1>1. agents \in AgentsType /\ Files(authz, agents)
  BY DEF IntegrationInv, TypeOK
<1>2. g \in AgentsType /\ Files(authz, g) /\ (g.active # None => Available(authz, g.active))
  BY <1>1, RetainedIs
<1>3. CASE Prunes
  BY <1>2, <1>3, ContinuesInv DEF Prunes, IntegrationInv, TypeOK
<1>4. CASE PruneFails
  <2>1. /\ UNCHANGED <<authz, late, origin>> /\ events' \in Nat /\ call' = Idle
        /\ agents' \in {agents, g} /\ server' \in {"up", "starting", "down"}
    BY <1>4 DEF PruneFails, Event, IntegrationInv, TypeOK
  <2>2. agents' \in AgentsType /\ Files(authz', agents')
    BY <1>1, <1>2, <2>1
  <2> QED
    BY <2>1, <2>2, IdleInv DEF IntegrationInv, TypeOK
<1> QED
  BY <1>3, <1>4

-----------------------------------------------------------------------------
\* The process and the time.

LEMMA StartInv ==
  ASSUME IntegrationInv, NEW o \in Origins, Start(o)
  PROVE  IntegrationInv'
<1> DEFINE x == [authz EXCEPT !.origin = o]
<1>1. authz \in AuthzType /\ Sound(authz)
  BY DEF IntegrationInv, TypeOK, Files
<1>2. /\ x \in AuthzType /\ x.row = authz.row /\ x.issued = authz.issued /\ x.enabled = authz.enabled
      /\ x.blocked = authz.blocked /\ x.lifecycle = authz.lifecycle
  BY <1>1 DEF AuthzType
<1>3. /\ UNCHANGED <<authz, agents, late, events>> /\ server' = "starting" /\ origin' = o
      /\ call' = [Idle EXCEPT !.at = IF authz.lifecycle \/ o # authz.origin THEN "commit" ELSE "sweep", !.to = x]
  BY DEF Start
<1> HIDE DEF x
<1>4. /\ call' \in CallType /\ call'.to = x
      /\ call'.at = "commit" \/ (call'.at = "sweep" /\ ~authz.lifecycle)
  BY <1>2, <1>3 DEF Idle, CallType
<1>5. TypeOK'
  BY <1>3, <1>4 DEF IntegrationInv, TypeOK
<1>6. Files(authz, agents)
  BY DEF IntegrationInv
<1>7. \A j \in Ids : /\ Valid(x, j) => Valid(authz, j)
                     /\ Valid(authz, j) => Valid(x, j)
  BY <1>2, ValidIs DEF Live
<1>8. Sound(x)
  BY <1>1, <1>2 DEF Sound
<1>9. Covered(x, agents, None)
  BY <1>6, <1>7 DEF Files, Covered
<1>10. Selected(authz, agents)
  BY <1>6 DEF Files
<1>11. Selected(x, agents)
  BY <1>2, <1>7, <1>10, Zenon DEF Selected, Available
<1>12. Pending(authz, x, o)
  BY <1>2, <1>7 DEF Pending, Lasts
<1> QED
  BY <1>3, <1>4, <1>5, <1>6, <1>8, <1>9, <1>11, <1>12 DEF IntegrationInv, StartsAgain

LEMMA ProcessInv ==
  ASSUME IntegrationInv, \/ Dies \/ StartSweeps \/ Checks
                         \/ \E i \in Ids : Expires(i)
  PROVE  IntegrationInv'
<1>1. agents \in AgentsType /\ Files(authz, agents) /\ late \in SUBSET Ids
  BY DEF IntegrationInv, TypeOK
<1>2. CASE Dies \/ Checks
  <2>1. /\ UNCHANGED <<authz, agents, late, origin>> /\ events' \in Nat /\ call' = Idle
        /\ server' \in {"up", "starting", "down"}
    BY <1>2 DEF Dies, Checks, Event, IntegrationInv, TypeOK
  <2> QED
    BY <1>1, <2>1, IdleInv DEF IntegrationInv, TypeOK
<1>3. CASE StartSweeps
  <2>1. /\ UNCHANGED <<authz, agents, late, origin, events>> /\ Continues(authz) /\ ~authz.lifecycle
    BY <1>3 DEF StartSweeps, IntegrationInv
  <2>2. agents.active # None => Available(authz, agents.active)
    BY <1>1, <2>1 DEF Files, Selected
  <2> QED
    BY <1>1, <2>1, <2>2, ContinuesInv DEF IntegrationInv, TypeOK
<1>4. ASSUME NEW i \in Ids, Expires(i)
      PROVE  IntegrationInv'
  <2>1. UNCHANGED <<authz, agents, server, origin, call>> /\ late' \in SUBSET Ids /\ events' \in Nat
    BY <1>1, <1>4 DEF Expires, Event, IntegrationInv, TypeOK
  <2>2. TypeOK'
    BY <2>1 DEF IntegrationInv, TypeOK
  <2>3. StartsAgain'
    BY <2>1 DEF IntegrationInv, StartsAgain, Startable, Available, Valid, Usable
  <2> QED
    BY <1>1, <2>1, <2>2, <2>3 DEF IntegrationInv
<1> QED
  BY <1>2, <1>3, <1>4

-----------------------------------------------------------------------------
LEMMA InitInv ==
  ASSUME Init
  PROVE  IntegrationInv
<1>1. NoRow \in RowType /\ NoRow.state = "none" /\ NoRow.credential = FALSE
  BY DEF NoRow, RowType
<1>2. Empty \in AuthzType /\ Empty.row = [i \in Ids |-> NoRow] /\ Empty.enabled = {} /\ Empty.issued = {}
  BY <1>1 DEF Empty, AuthzType
<1>3. authz \in AuthzType /\ authz.row = [i \in Ids |-> NoRow] /\ authz.enabled = {} /\ authz.issued = {}
  BY <1>2 DEF Init, AuthzType
<1>4. agents \in AgentsType /\ agents.rows = {Direct} /\ agents.active = Direct
  BY DEF Init, AgentsType
<1>5. \A i \in Ids : ~Valid(authz, i)
  BY <1>1, <1>3 DEF Valid
<1>6. Files(authz, agents)
  BY <1>1, <1>3, <1>4, <1>5 DEF Files, Sound, Covered, Selected, Available
<1>7. call \in CallType /\ call.at = "idle"
  BY <1>2 DEF Init, Idle, CallType
<1>8. TypeOK
  BY <1>3, <1>4, <1>7 DEF Init, TypeOK
<1> QED
  BY <1>6, <1>7, <1>8 DEF IntegrationInv, StartsAgain

LEMMA StepInv ==
  ASSUME IntegrationInv, [Next]_vars
  PROVE  IntegrationInv'
<1>1. CASE Client
  BY <1>1, RequestInv, RowInv, AckInv DEF Client
<1>2. CASE Owner
  BY <1>2, RowInv, LifecycleInv, ActivateInv, OwnerInv DEF Owner
<1>3. CASE Writes
  BY <1>3, RegistersInv, CommitsInv, PrunesInv DEF Writes
<1>4. CASE Process
  BY <1>4, SweepInv, StartInv, ProcessInv DEF Process
<1>5. CASE UNCHANGED vars
  <2>1. TypeOK' /\ StartsAgain'
    BY <1>5 DEF vars, IntegrationInv, TypeOK, StartsAgain, Startable, Available, Valid, Usable
  <2> QED
    BY <1>5, <2>1 DEF vars, IntegrationInv
<1> QED
  BY <1>1, <1>2, <1>3, <1>4, <1>5 DEF Next

\* integration.py validate_authority: however the two writes of an enrollment are cut short, and
\* however often, a start finds agents.json and authz.json in agreement and is not refused.
THEOREM StartsAgainAlways == Spec => []StartsAgain
<1>1. Init => IntegrationInv
  BY InitInv
<1>2. IntegrationInv /\ [Next]_vars => IntegrationInv'
  BY StepInv
<1>3. IntegrationInv => StartsAgain
  BY DEF IntegrationInv
<1> QED
  BY <1>1, <1>2, <1>3, PTL DEF Spec

\* A selection with authority stays, or the owner selects another agent with authority.
LEMMA SelectionStep ==
  ASSUME IntegrationInv, [Next]_vars, agents.active # None, Available(authz, agents.active)
  PROVE  agents'.active = agents.active \/ (agents'.active # None /\ Available(authz, agents'.active))
<1>1. agents \in AgentsType /\ call \in CallType /\ agents.active \in agents.rows
  BY DEF IntegrationInv, TypeOK, Files
<1>2. CASE Writes
  <2>1. Retained(agents, authz).active = agents.active
    BY <1>1 DEF Retained
  <2>2. ASSUME call.at \in {"register", "reregister"} PROVE Registered(agents, call.agent).active = agents.active
    BY <1>1, <2>2, RegisteredIs DEF IntegrationInv
  <2> QED
    BY <1>2, <2>1, <2>2 DEF Writes, Registers, RegisterFails, Commits, CommitFails, Prunes, PruneFails
<1>3. CASE Client
  BY <1>3 DEF Client, Request, Withdraw, Deliver, Ack, Unchanged
<1>4. CASE Owner
  <2>1. ASSUME NEW i \in Ids, Approve(i) \/ WrongCode(i) \/ Withdraw(i, "denied") \/ Rotate(i) \/ Revoke(i)
        PROVE  agents' = agents
    BY <2>1 DEF Approve, WrongCode, Withdraw, Rotate, Revoke, Unchanged
  <2>2. ASSUME NEW a \in Ids \cup {Direct}, Activate(a)
        PROVE  agents'.active # None /\ Available(authz, agents'.active)
    BY <1>1, <2>2, AgentsAssumption DEF Activate, AgentsType
  <2> QED
    BY <1>4, <2>1, <2>2 DEF Owner, OwnerChanges, Unchanged
<1>5. CASE Process
  BY <1>5 DEF Process, Sweep, Dies, StartSweeps, Checks, Start, Expires, Unchanged
<1>6. CASE UNCHANGED vars
  BY <1>6 DEF vars
<1> QED
  BY <1>2, <1>3, <1>4, <1>5, <1>6 DEF Next

\* registry.py retire_invalid and register: an enrollment, a rotation or a failed write never
\* costs an agent with authority its selection; only the owner replaces it.
THEOREM SelectionKeptAlways == Spec => SelectionKept
<1>1. Init => IntegrationInv
  BY InitInv
<1>2. IntegrationInv /\ [Next]_vars => IntegrationInv'
  BY StepInv
<1>3. ASSUME IntegrationInv, [Next]_vars, NEW a \in Ids \cup {Direct}, agents.active = a, Available(authz, a)
      PROVE  agents.active' # None /\ Available(authz, agents.active')
  BY <1>3, SelectionStep, AgentsAssumption
<1>4. IntegrationInv /\ [Next]_vars
         => [\A a \in Ids \cup {Direct} :
                agents.active = a /\ Available(authz, a)
                   => agents.active' # None /\ Available(authz, agents.active')]_vars
  BY <1>3
<1> QED
  BY <1>1, <1>2, <1>4, PTL DEF Spec, SelectionKept

-----------------------------------------------------------------------------
(***************************************************************************)
(* Where authority comes from and where it goes.  A call decides on what   *)
(* it commits when it begins; between that and the rename lie the write of *)
(* agents.json, failures and deaths.                                       *)
(***************************************************************************)
Granted == \A i \in Ids : Valid(authz', i) /\ ~Valid(authz, i) => Deserves(authz, i, origin) /\ i \in agents.rows

AuthorityIsGranted == [][Granted]_vars

\* An enrollment whose credential was acknowledged, withdrawn or retired, and that has no authority.
Over(x, i) == x.row[i].credential /\ x.row[i].state \in Done /\ ~Valid(x, i)

StaysOver == \A i \in Ids : Over(authz, i) => Over(authz', i)

AuthorityNeverReturns == [][StaysOver]_vars

LEMMA AuthzStep ==
  ASSUME IntegrationInv, [Next]_vars
  PROVE  authz' = authz \/ (call.at = "commit" /\ authz' = call.to)
<1>1. CASE Client
  BY <1>1 DEF Client, Request, Withdraw, Deliver, Ack, Unchanged
<1>2. CASE Owner
  BY <1>2 DEF Owner, Approve, WrongCode, Withdraw, Rotate, Revoke, Activate, OwnerChanges, Unchanged
<1>3. CASE Writes
  BY <1>3 DEF Writes, Registers, RegisterFails, Commits, CommitFails, Prunes, PruneFails
<1>4. CASE Process
  BY <1>4 DEF Process, Sweep, Dies, StartSweeps, Checks, Start, Expires, Unchanged
<1> QED
  BY <1>1, <1>2, <1>3, <1>4 DEF Next, vars

\* An agent comes to have authority only by the acknowledgement of a credential that was handed
\* out to it and is not retired, for a request of the present owner and origin, and when its
\* routing row is in agents.json already (IntegrationEnrollment.ack, its order of the writes).
THEOREM AuthorityGrantedAlways == Spec => AuthorityIsGranted
<1>1. ASSUME IntegrationInv, [Next]_vars, NEW i \in Ids, Valid(authz', i), ~Valid(authz, i)
      PROVE  Deserves(authz, i, origin) /\ i \in agents.rows
  <2>1. call.at = "commit" /\ authz' = call.to
    BY <1>1, AuthzStep
  <2>2. Pending(authz, call.to, origin) /\ Covered(call.to, agents, None)
    BY <1>1, <2>1 DEF IntegrationInv
  <2>3. i # None
    BY AgentsAssumption
  <2> QED
    BY <1>1, <2>1, <2>2, <2>3 DEF Pending, Covered
<1>2. IntegrationInv /\ [Next]_vars => [Granted]_vars
  BY <1>1 DEF Granted
<1> QED
  BY <1>2, InitInv, StepInv, PTL DEF Spec, AuthorityIsGranted

\* Authority that was withdrawn, revoked or never taken up stays gone, whatever is retried,
\* pruned or asked for again under the same id (the rows sweep and _prune keep).
THEOREM AuthorityStaysGone == Spec => AuthorityNeverReturns
<1>1. ASSUME IntegrationInv, [Next]_vars, NEW i \in Ids, Over(authz, i)
      PROVE  Over(authz', i)
  <2>1. CASE authz' = authz
    BY <1>1, <2>1
  <2>2. CASE call.at = "commit" /\ authz' = call.to
    <3>1. Pending(authz, authz', origin)
      BY <1>1, <2>2 DEF IntegrationInv
    <3>2. ~Deserves(authz, i, origin)
      BY <1>1 DEF Over, Deserves, Done, Ended
    <3> QED
      BY <1>1, <3>1, <3>2 DEF Over, Pending, Lasts
  <2> QED
    BY <1>1, <2>1, <2>2, AuthzStep
<1>2. IntegrationInv /\ [Next]_vars => [StaysOver]_vars
  BY <1>1 DEF StaysOver
<1> QED
  BY <1>2, InitInv, StepInv, PTL DEF Spec, AuthorityNeverReturns

-----------------------------------------------------------------------------
(***************************************************************************)
(* The client of the OpenClaw gateway.  Three tasks connect it and tear it *)
(* down with no lock between them: what waits for an answer of the gateway *)
(* nevertheless has a reader that ends its wait, and no connection is made *)
(* while another is there.                                                 *)
(***************************************************************************)
CONSTANTS Chats, ClawEvents
VARIABLES client, link, hello, shake, caller, chat, clawEvents

Claw == INSTANCE OpenClaw WITH MaxEvents <- ClawEvents, events <- clawEvents

ClawType ==
    /\ client \in [should : BOOLEAN, connected : BOOLEAN, ws : BOOLEAN]
    /\ link \in {"none", "open", "cut"}
    /\ hello \in {"none", "asked", "granted", "refused", "unpaired", "over"}
    /\ shake \in {"none", "pending", "done", "failed"}
    /\ caller \in [Claw!Callers -> {"none", "dialing", "shaking", "tearing", "waiting"}]
    /\ chat \in [Chats -> {"idle", "sent", "listening", "done", "failed"}]

\* The connection whose reader rejects what waits is still there.
WaitsAreRead == link = "none" => shake # "pending" /\ \A c \in Chats : ~Claw!Waits(c)

\* One connection is made at a time, and not beside another: `link' is the only one.
OneConnection ==
    /\ \A d \in Claw!Callers : caller[d] = "dialing" => link = "none"
    /\ caller["startup"] = "dialing" => caller["retry"] # "dialing"

\* The start dials once, before there was any reader to schedule a reconnect; a reconnect is
\* scheduled by the end of a reader, and is the only one until its connect is over.
ClawInv ==
    /\ ClawType
    /\ WaitsAreRead
    /\ caller["startup"] = "dialing" => link = "none" /\ caller["retry"] = "none"
    /\ caller["retry"] \in {"waiting", "dialing"} => link = "none"
    /\ caller["startup"] # "waiting" /\ caller["cleanup"] \notin {"waiting", "dialing", "shaking"}

LEMMA ClawInit == ASSUME Claw!Init PROVE ClawInv
  BY DEF Claw!Init, ClawInv, ClawType, WaitsAreRead, Claw!Waits, Claw!Callers

LEMMA RejectedType ==
  ASSUME ClawType
  PROVE  /\ Claw!Rejected \in [Chats -> {"idle", "sent", "listening", "done", "failed"}]
         /\ \A c \in Chats : Claw!Rejected[c] \notin {"sent", "listening"}
  BY DEF ClawType, Claw!Rejected, Claw!Waits

\* connect and _teardown, by whichever task is in them.
LEMMA CallersKeep ==
  ASSUME ClawInv, NEW d \in Claw!Callers,
         \/ d # "cleanup" /\ (Claw!Connects(d) \/ Claw!DialFails(d) \/ Claw!Returns(d) \/ Claw!TimesOut(d))
         \/ Claw!TornDown(d)
  PROVE  ClawInv'
<1> USE DEF ClawInv, ClawType, WaitsAreRead, Claw!Waits, Claw!Callers, Claw!CallerGoes, Claw!Cuts
<1>1. CASE d # "cleanup" /\ Claw!Connects(d)
  BY <1>1 DEF Claw!Connects
<1>2. CASE d # "cleanup" /\ Claw!DialFails(d)
  BY <1>2 DEF Claw!DialFails
<1>3. CASE d # "cleanup" /\ Claw!Returns(d)
  BY <1>3 DEF Claw!Returns
<1>4. CASE d # "cleanup" /\ Claw!TimesOut(d)
  BY <1>4 DEF Claw!TimesOut
<1>5. CASE Claw!TornDown(d)
  BY <1>5, RejectedType DEF Claw!TornDown
<1> QED
  BY <1>1, <1>2, <1>3, <1>4, <1>5

LEMMA ClientKeeps == ASSUME ClawInv, Claw!ClientStep PROVE ClawInv'
<1>1. CASE Claw!Close
  BY <1>1 DEF Claw!Close, ClawInv, ClawType, WaitsAreRead, Claw!Waits, Claw!Callers, Claw!CallerGoes, Claw!Cuts
<1>2. CASE Claw!RetryWakes
  BY <1>2 DEF Claw!RetryWakes, ClawInv, ClawType, WaitsAreRead, Claw!Waits, Claw!Callers, Claw!CallerGoes
<1>3. CASE Claw!HelloEnds
  BY <1>3 DEF Claw!HelloEnds, ClawInv, ClawType, WaitsAreRead, Claw!Waits, Claw!Callers
<1>4. CASE Claw!ReaderEnds
  BY <1>4, RejectedType DEF Claw!ReaderEnds, ClawInv, ClawType, WaitsAreRead, Claw!Waits, Claw!Callers
<1> QED
  BY <1>1, <1>2, <1>3, <1>4, CallersKeep DEF Claw!ClientStep, Claw!Callers

LEMMA GatewayKeeps == ASSUME ClawInv, Claw!GatewayStep PROVE ClawInv'
<1>1. CASE Claw!Challenged \/ Claw!HelloAnswered
  BY <1>1 DEF Claw!Challenged, Claw!HelloAnswered, ClawInv, ClawType, WaitsAreRead, Claw!Waits
<1>2. ASSUME NEW c \in Chats, Claw!ChatBegins(c) \/ Claw!ChatAnswered(c) \/ Claw!ChatEnds(c)
      PROVE  ClawInv'
  BY <1>2 DEF Claw!ChatBegins, Claw!ChatAnswered, Claw!ChatEnds, ClawInv, ClawType, WaitsAreRead, Claw!Waits
<1> QED
  BY <1>1, <1>2 DEF Claw!GatewayStep

LEMMA ClawStep == ASSUME ClawInv, [Claw!Next]_(Claw!vars) PROVE ClawInv'
<1>1. CASE UNCHANGED Claw!vars
  BY <1>1 DEF Claw!vars, ClawInv, ClawType, WaitsAreRead, Claw!Waits
<1> QED
  BY <1>1, ClientKeeps, GatewayKeeps DEF Claw!Next

\* openclaw.py _reader_loop and _teardown: a chat, or a connect in its handshake, never waits
\* without a reader that will reject it, whoever connects, times out, closes or reconnects
\* meanwhile.  (That it is then rejected is the reader's end itself.)
THEOREM NoWaitIsForgotten == Claw!Spec => []WaitsAreRead
<1>1. ClawInv => WaitsAreRead
  BY DEF ClawInv
<1> QED
  BY <1>1, ClawInit, ClawStep, PTL DEF Claw!Spec

\* openclaw.py connect overwrites _ws, _session and _reader_task: it never does so while a
\* connection is there, nor do the start and a reconnect dial side by side.
THEOREM OneConnectionAlways == Claw!Spec => []OneConnection
<1>1. ClawInv => OneConnection
  BY DEF ClawInv, OneConnection, Claw!Callers
<1> QED
  BY <1>1, ClawInit, ClawStep, PTL DEF Claw!Spec
===============================================================================
