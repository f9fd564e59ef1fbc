-------------------------- MODULE SyncBorder_proofs --------------------------
(* Theorems about SyncBorder for every value of its constants. *)
EXTENDS SyncBorder, TLAPS

-----------------------------------------------------------------------------
(* The operators keep the types *)

LEMMA LineType ==
    ASSUME NEW l \in Line, NEW p \in Profiles
    PROVE  /\ NoLine \in Line
           /\ Put(l, p) \in Line /\ Cut(l) \in Line
           /\ Enabled(l) \in Line /\ Restored(l) \in Line
           /\ Suspensions(l) \subseteq Line
  BY DEF Line, NoLine, Put, Cut, Enabled, Restored, Suspensions, Profiles

\* Writing one line keeps the table typed and leaves every other line alone.
LEMMA LineWrite ==
    ASSUME line \in [Routers -> [Customers -> Line]],
           NEW r \in Routers \cup {NoRouter}, NEW c \in Customers, NEW e,
           r \in Routers => e \in Line,
           line' = [line EXCEPT ![r][c] = e]
    PROVE  /\ line' \in [Routers -> [Customers -> Line]]
           /\ \A q \in Routers : \A d \in Customers \ {c} : line'[q][d] = line[q][d]
  <1>1. CASE r \in Routers
    <2>1. line[r] \in [Customers -> Line]  BY <1>1
    <2>2. [line[r] EXCEPT ![c] = e] \in [Customers -> Line]  BY <1>1, <2>1
    <2>3. line' = [line EXCEPT ![r] = [line[r] EXCEPT ![c] = e]]  OBVIOUS
    <2>4. line' \in [Routers -> [Customers -> Line]]  BY <2>2, <2>3
    <2>5. ASSUME NEW q \in Routers, NEW d \in Customers \ {c} PROVE line'[q][d] = line[q][d]
      BY <1>1, <2>1, <2>3
    <2> QED  BY <2>4, <2>5
  <1>2. CASE r \notin Routers
    <2>1. line' = line  BY <1>2
    <2> QED  BY <2>1
  <1> QED  BY <1>1, <1>2

LEMMA StagedType ==
    ASSUME NEW new \in Row, NEW old, NEW renamed \in BOOLEAN
    PROVE  Staged(new, old, renamed) \in Row
  BY DEF Staged, Row, Syncs

LEMMA SavedType ==
    ASSUME TypeOK, NEW c \in Customers, NEW new \in Row, NEW renamed \in BOOLEAN,
           Saved(c, new, renamed)
    PROVE  row' \in [Customers -> Row \cup {NoRow}]
  BY StagedType DEF TypeOK, Saved

LEMMA MarkedType ==
    ASSUME NEW h, NEW read, NEW r \in Routers \cup {NoRouter}, NEW out, NEW now \in Row
    PROVE  Marked(h, read, r, out, now) \in Row
  BY DEF Marked, Row, Syncs
-----------------------------------------------------------------------------
(* What a handler does to its own session *)

LEMMA GoesType ==
    ASSUME TypeOK, NEW w \in Workers, NEW h \in Handlers, NEW step \in {"call", "mark"}, NEW c \in Customers,
           NEW r \in Routers \cup {NoRouter}, NEW read \in Row,
           Goes(w, h, step, c, r, read)
    PROVE  session' \in [Workers -> Work \cup Compared \cup {Idle}]
  BY DEF TypeOK, Goes, Work

LEMMA EndsType ==
    ASSUME TypeOK, NEW w \in Workers, Ends(w)
    PROVE  session' \in [Workers -> Work \cup Compared \cup {Idle}]
  BY DEF TypeOK, Ends

LEMMA IdleIsNoWork == \A s \in Work \cup Compared : s # Idle
  BY DEF Idle, Work, Compared, Handlers

LEMMA AtType ==
    ASSUME TypeOK, NEW w \in Workers, NEW hs, NEW step \in {"call", "mark"}, At(w, hs, step)
    PROVE  session[w] \in Work /\ session[w].h \in hs
  BY DEF TypeOK, At, Compared

LEMMA AnsweredType ==
    ASSUME NEW s \in Work, NEW out \in {"none", "done", "refused", "failed"}
    PROVE  [s EXCEPT !.step = "mark", !.out = out] \in Work
  <1> DEFINE a == [s EXCEPT !.step = "mark"]
  <1>1. a \in Work  BY DEF Work
  <1> HIDE DEF a
  <1>2. [a EXCEPT !.out = out] \in Work  BY <1>1 DEF Work
  <1> QED  BY <1>2 DEF a

LEMMA AnswersType ==
    ASSUME TypeOK, NEW w \in Workers, session[w] \in Work,
           NEW out \in {"none", "done", "refused", "failed"}, Answers(w, out)
    PROVE  session' \in [Workers -> Work \cup Compared \cup {Idle}]
  <1>1. [session[w] EXCEPT !.step = "mark", !.out = out] \in Work  BY AnsweredType
  <1>2. session' = [session EXCEPT ![w] = [session[w] EXCEPT !.step = "mark", !.out = out]]
    BY DEF Answers, TypeOK
  <1> QED  BY <1>1, <1>2 DEF TypeOK
-----------------------------------------------------------------------------
(* The type invariant *)

LEMMA TypeInit == Init => TypeOK
  <1> SUFFICES ASSUME Init PROVE TypeOK  OBVIOUS
  <1>1. row \in [Customers -> Row \cup {NoRow}]
    BY DEF Init, Row, Statuses, Dates, Syncs
  <1>2. NoLine \in Line /\ Put(NoLine, "expired") \in Line
    BY DEF Line, NoLine, Put, Profiles
  <1>3. line \in [Routers -> [Customers -> Line]]  BY <1>2 DEF Init
  <1> QED  BY <1>1, <1>3 DEF Init, TypeOK

\* A handler that only starts: the row it reads is a row of the table.
LEMMA TypeStart ==
    ASSUME TypeOK, NEW w \in Workers, NEW h \in Handlers,
           NEW step \in {"call", "mark"}, NEW c \in Customers,
           NEW r \in Routers \cup {NoRouter}, NEW read \in Row,
           Goes(w, h, step, c, r, read), UNCHANGED <<System, row, approvals, line>>
    PROVE  TypeOK'
  BY GoesType DEF TypeOK, System

\* ... and one that only ends.
LEMMA TypeEnd ==
    ASSUME TypeOK, NEW w \in Workers, Ends(w), UNCHANGED <<System, row, approvals, line>>
    PROVE  TypeOK'
  BY EndsType DEF TypeOK, System

LEMMA TypeAnswer ==
    ASSUME TypeOK, NEW w \in Workers, NEW hs, NEW step \in {"call", "mark"}, At(w, hs, step),
           NEW out \in {"none", "done", "refused", "failed"}, Answers(w, out),
           line' \in [Routers -> [Customers -> Line]], UNCHANGED <<System, row, approvals>>
    PROVE  TypeOK'
  BY AtType, AnswersType DEF TypeOK, System

LEMMA TypePut ==
    ASSUME TypeOK, NEW w \in Workers
    PROVE  /\ \A c \in Customers, r \in Routers, h \in {"push", "override", "bulkPush", "autofix"} :
                  OpenPut(w, h, c, r) => TypeOK'
           /\ CallPut(w) => TypeOK'
           /\ MarkPut(w) => TypeOK'
  <1>1. ASSUME NEW c \in Customers, NEW r \in Routers,
               NEW h \in {"push", "override", "bulkPush", "autofix"}, OpenPut(w, h, c, r)
        PROVE  TypeOK'
    <2>1. h \in Handlers /\ row[c] \in Row  BY <1>1 DEF Handlers, OpenPut, TypeOK
    <2> QED  BY <1>1, <2>1, TypeStart DEF OpenPut
  <1>2. ASSUME CallPut(w) PROVE TypeOK'
    <2> DEFINE s == session[w]
    <2>1. At(w, Putters, "call") /\ s \in Work  BY <1>2, AtType DEF CallPut
    <2>2. s.r \in Routers \cup {NoRouter} /\ s.c \in Customers  BY <2>1 DEF Work
    <2>3. line' \in [Routers -> [Customers -> Line]]
      <3>1. CASE line' = [line EXCEPT ![s.r][s.c] = Put(@, ProfileOf(s.h))]
        <4>1. line \in [Routers -> [Customers -> Line]]  BY DEF TypeOK
        <4>2. s.r \in Routers => Put(line[s.r][s.c], ProfileOf(s.h)) \in Line
          BY <2>2, <4>1, LineType DEF ProfileOf, Profiles
        <4>3. line' = [line EXCEPT ![s.r][s.c] = Put(line[s.r][s.c], ProfileOf(s.h))]
          <5>1. CASE s.r \in Routers  BY <3>1, <4>1, <2>2, <5>1
          <5>2. CASE s.r \notin Routers  BY <3>1, <4>1, <5>2
          <5> QED  BY <5>1, <5>2
        <4> QED  BY <2>2, <4>1, <4>2, <4>3, LineWrite
      <3>2. CASE UNCHANGED line  BY <3>2 DEF TypeOK
      <3> QED  BY <1>2, <3>1, <3>2 DEF CallPut
    <2>4. PICK out \in {"refused", "done", "failed"} : Answers(w, out)
      BY <1>2 DEF CallPut
    <2> QED  BY <1>2, <2>1, <2>3, <2>4, TypeAnswer DEF CallPut
  <1>3. ASSUME MarkPut(w) PROVE TypeOK'
    <2> DEFINE s == session[w]
    <2>1. s \in Work  BY <1>3, AtType DEF MarkPut
    <2>2. s.c \in Customers /\ s.r \in Routers \cup {NoRouter}  BY <2>1 DEF Work
    <2>3. row[s.c] # NoRow => Marked(s.h, s.row, s.r, s.out, row[s.c]) \in Row
      BY <2>2, MarkedType DEF TypeOK
    <2>4. row' \in [Customers -> Row \cup {NoRow}]  BY <1>3, <2>2, <2>3 DEF MarkPut, TypeOK
    <2> QED  BY <1>3, <2>4, EndsType DEF MarkPut, TypeOK, System
  <1> QED  BY <1>1, <1>2, <1>3

LEMMA TypePair ==
    ASSUME TypeOK, NEW w \in Workers
    PROVE  /\ \A c \in Customers, r \in Routers :
                  \/ OpenApprove(w, c, r) \/ DeleteSecret(w, c, r) \/ ImportSecret(w, c, r)
                  => TypeOK'
           /\ CallApprove(w) \/ MarkApprove(w) => TypeOK'
  <1>1. ASSUME NEW c \in Customers, NEW r \in Routers, OpenApprove(w, c, r) PROVE TypeOK'
    <2>1. "approve" \in Handlers /\ row[c] \in Row  BY <1>1 DEF Handlers, OpenApprove, TypeOK
    <2> QED  BY <1>1, <2>1, TypeStart DEF OpenApprove
  <1>2. ASSUME NEW c \in Customers, NEW r \in Routers, DeleteSecret(w, c, r) PROVE TypeOK'
    <2>1. Cut(line[r][c]) \in Line  BY LineType DEF TypeOK, Profiles
    <2>2. line' = [line EXCEPT ![r][c] = Cut(line[r][c])]  BY <1>2 DEF DeleteSecret, TypeOK
    <2>3. line' \in [Routers -> [Customers -> Line]]  BY <2>1, <2>2, LineWrite DEF TypeOK
    <2> QED  BY <1>2, <2>3 DEF DeleteSecret, TypeOK, System
  <1>3. ASSUME NEW c \in Customers, NEW r \in Routers, ImportSecret(w, c, r) PROVE TypeOK'
    <2>1. PICK sync \in {"Pending", "Unverified"} :
              row' = [row EXCEPT ![c] = [router |-> r, status |-> "ended", date |-> "none",
                                         sync |-> sync, data |-> imports, stamp |-> 0]]
      BY <1>3 DEF ImportSecret
    <2>2. [router |-> r, status |-> "ended", date |-> "none",
           sync |-> sync, data |-> imports, stamp |-> 0] \in Row
      BY DEF Row, Statuses, Dates, Syncs, TypeOK
    <2>3. row' \in [Customers -> Row \cup {NoRow}]  BY <2>1, <2>2 DEF TypeOK
    <2>4. approvals' \in [Customers -> SUBSET [at : Nat, of : Nat]]
      BY <1>3 DEF ImportSecret, TypeOK
    <2> QED  BY <1>3, <2>3, <2>4 DEF ImportSecret, TypeOK, System
  <1>4. ASSUME CallApprove(w) PROVE TypeOK'
    <2>1. CASE Answers(w, "done")
      BY <1>4, <2>1, TypeAnswer DEF CallApprove, TypeOK
    <2>2. CASE Ends(w)  BY <1>4, <2>2, TypeEnd DEF CallApprove
    <2> QED  BY <1>4, <2>1, <2>2 DEF CallApprove
  <1>5. ASSUME MarkApprove(w) PROVE TypeOK'
    <2> DEFINE s == session[w]
    <2>1. s \in Work  BY <1>5, AtType DEF MarkApprove
    <2>2. s.c \in Customers  BY <2>1 DEF Work
    <2>3. row[s.c] # NoRow => [row[s.c] EXCEPT !.sync = "Synced"] \in Row
      BY <2>2 DEF TypeOK, Row, Syncs
    <2>4. row' \in [Customers -> Row \cup {NoRow}]
      BY <1>5, <2>2, <2>3 DEF MarkApprove, TypeOK
    <2>5. approvals' \in [Customers -> SUBSET [at : Nat, of : Nat]]
      <3>1. CASE row[s.c] = NoRow  BY <1>5, <3>1 DEF MarkApprove, TypeOK
      <3>2. CASE row[s.c] # NoRow
        <4>1. s.row \in Row  BY <2>1 DEF Work
        <4>2. [at |-> imports, of |-> s.row.data] \in [at : Nat, of : Nat]  BY <4>1 DEF TypeOK, Row
        <4> QED  BY <1>5, <3>2, <2>2, <4>2 DEF MarkApprove, TypeOK
      <3> QED  BY <3>1, <3>2
    <2> QED  BY <1>5, <2>4, <2>5, EndsType DEF MarkApprove, TypeOK, System
  <1> QED  BY <1>1, <1>2, <1>3, <1>4, <1>5

LEMMA TypeScreens ==
    ASSUME TypeOK, NEW w \in Workers, NEW c \in Customers
    PROVE  /\ \A r \in Routers : AddCustomer(w, c, r) => TypeOK'
           /\ OpenEdit(w, c) \/ CommitEdit(w) => TypeOK'
           /\ ForceSuspend(w, c) \/ Reactivate(w, c) \/ Pay(w, c) => TypeOK'
           /\ DeleteCustomer(w, c) \/ CallDelete(w) => TypeOK'
  <1>1. ASSUME NEW r \in Routers, AddCustomer(w, c, r) PROVE TypeOK'
    <2> DEFINE new == [router |-> r, status |-> "open", date |-> "none", sync |-> "Pending",
                       data |-> imports, stamp |-> 0]
    <2>1. new \in Row  BY DEF Row, Statuses, Dates, Syncs, TypeOK
    <2>2. row' \in [Customers -> Row \cup {NoRow}]  BY <1>1, <2>1 DEF AddCustomer, TypeOK
    <2>3. approvals' \in [Customers -> SUBSET [at : Nat, of : Nat]]
      BY <1>1 DEF AddCustomer, TypeOK
    <2>4. session' \in [Workers -> Work \cup Compared \cup {Idle}]
      <3>1. CASE Goes(w, "add", "call", c, r, new)
        <4>1. "add" \in Handlers  BY DEF Handlers
        <4> QED  BY <2>1, <3>1, <4>1, GoesType
      <3>2. CASE UNCHANGED session  BY <3>2 DEF TypeOK
      <3> QED  BY <1>1, <3>1, <3>2 DEF AddCustomer
    <2> QED  BY <1>1, <2>2, <2>3, <2>4 DEF AddCustomer, TypeOK, System
  <1>2. ASSUME OpenEdit(w, c) PROVE TypeOK'
    <2>1. "edit" \in Handlers /\ row[c] \in Row  BY <1>2 DEF Handlers, OpenEdit, TypeOK
    <2> QED  BY <1>2, <2>1, TypeStart DEF OpenEdit
  <1>3. ASSUME CommitEdit(w) PROVE TypeOK'
    <2> DEFINE s == session[w]
    <2>1. s \in Work  BY <1>3, AtType DEF CommitEdit
    <2>2. s.c \in Customers /\ s.row \in Row  BY <2>1 DEF Work
    <2>3. PICK r \in Routers \cup {NoRouter}, renamed \in BOOLEAN :
              Saved(s.c, [s.row EXCEPT !.router = r], renamed)
      BY <1>3 DEF CommitEdit
    <2>4. [s.row EXCEPT !.router = r] \in Row  BY <2>2 DEF Row
    <2>5. row' \in [Customers -> Row \cup {NoRow}]  BY <2>2, <2>3, <2>4, SavedType
    <2> QED  BY <1>3, <2>5, EndsType DEF CommitEdit, TypeOK, System
  <1>4. ASSUME NEW h \in {"suspend", "reactivate", "pay"}, NEW new,
               row[c] # NoRow => new \in Row, ThenRouter(w, h, c, new)
        PROVE  TypeOK'
    <2>1. row[c] \in Row /\ new \in Row /\ h \in Handlers
      BY <1>4 DEF ThenRouter, TypeOK, Handlers
    <2>2. row' \in [Customers -> Row \cup {NoRow}]
      BY <1>4, <2>1, SavedType DEF ThenRouter
    <2>3. row[c].router \in Routers \cup {NoRouter}  BY <2>1 DEF Row
    <2>4. session' \in [Workers -> Work \cup Compared \cup {Idle}]
      <3>1. CASE row[c].router = NoRouter  BY <1>4, <3>1 DEF ThenRouter, TypeOK
      <3>2. CASE row[c].router # NoRouter
        BY <1>4, <2>1, <2>3, <3>2, GoesType DEF ThenRouter
      <3> QED  BY <3>1, <3>2
    <2> QED  BY <1>4, <2>2, <2>4 DEF ThenRouter, TypeOK, System
  <1>5. row[c] # NoRow => /\ [row[c] EXCEPT !.status = "suspended", !.date = "none"] \in Row
                          /\ [row[c] EXCEPT !.status = "open"] \in Row
                          /\ [row[c] EXCEPT !.status = "open", !.date = "ahead"] \in Row
    BY DEF TypeOK, Row, Statuses, Dates
  <1>6. ForceSuspend(w, c) \/ Reactivate(w, c) \/ Pay(w, c) => TypeOK'
    BY <1>4, <1>5 DEF ForceSuspend, Reactivate, Pay
  <1>7. ASSUME DeleteCustomer(w, c) PROVE TypeOK'
    <2>1. row[c] \in Row /\ "deleteCustomer" \in Handlers
      BY <1>7 DEF DeleteCustomer, TypeOK, Handlers
    <2>2. row[c].router \in Routers \cup {NoRouter}  BY <2>1 DEF Row
    <2>3. session' \in [Workers -> Work \cup Compared \cup {Idle}]
      <3>1. CASE row[c].router = NoRouter  BY <1>7, <3>1 DEF DeleteCustomer, TypeOK
      <3>2. CASE row[c].router # NoRouter
        BY <1>7, <2>1, <2>2, <3>2, GoesType DEF DeleteCustomer
      <3> QED  BY <3>1, <3>2
    <2> QED  BY <1>7, <2>3 DEF DeleteCustomer, TypeOK, System
  <1>8. ASSUME CallDelete(w) PROVE TypeOK'
    <2> DEFINE s == session[w]
    <2>1. s \in Work  BY <1>8, AtType DEF CallDelete
    <2>2. s.c \in Customers /\ s.r \in Routers \cup {NoRouter}  BY <2>1 DEF Work
    <2>3. NoLine \in Line  BY DEF Line, NoLine, Profiles
    <2>4. line' \in [Routers -> [Customers -> Line]]
      BY <1>8, <2>2, <2>3, LineWrite DEF CallDelete, TypeOK
    <2> QED  BY <1>8, <2>4, EndsType DEF CallDelete, TypeOK, System
  <1> QED  BY <1>1, <1>2, <1>3, <1>6, <1>7, <1>8

LEMMA TypeCutOff ==
    ASSUME TypeOK, NEW w \in Workers
    PROVE  /\ \A c \in Customers, h \in {"autoSuspend", "cutBatch"} :
                  OpenCutOff(w, h, c) => TypeOK'
           /\ CallSuspend(w) \/ MarkSuspend(w) \/ CallRestore(w) \/ MarkRestore(w) => TypeOK'
  <1> DEFINE s == session[w]
  <1>1. ASSUME NEW c \in Customers, NEW h \in {"autoSuspend", "cutBatch"}, OpenCutOff(w, h, c)
        PROVE  TypeOK'
    <2>1. h \in Handlers /\ row[c] \in Row  BY <1>1 DEF Handlers, OpenCutOff, TypeOK
    <2>2. row[c].router \in Routers \cup {NoRouter}  BY <2>1 DEF Row
    <2> QED  BY <1>1, <2>1, <2>2, TypeStart DEF OpenCutOff
  <1>2. ASSUME NEW l \in Line, NEW hs, At(w, hs, "call"), line' = [line EXCEPT ![s.r][s.c] = l]
        PROVE  line' \in [Routers -> [Customers -> Line]]
    <2>1. s.c \in Customers /\ s.r \in Routers \cup {NoRouter}  BY <1>2, AtType DEF Work
    <2> QED  BY <1>2, <2>1, LineWrite DEF TypeOK
  <1>3. ASSUME CallSuspend(w) PROVE TypeOK'
    <2>1. At(w, {"suspend", "autoSuspend", "cutBatch"}, "call")  BY <1>3 DEF CallSuspend
    <2>2. PICK out \in {"refused", "done", "failed"} : Answers(w, out)
      BY <1>3 DEF CallSuspend
    <2>3. line' \in [Routers -> [Customers -> Line]]
      <3>1. CASE UNCHANGED line  BY <3>1 DEF TypeOK
      <3>2. ASSUME NEW l \in Suspensions(line[s.r][s.c]), line' = [line EXCEPT ![s.r][s.c] = l]
            PROVE  line' \in [Routers -> [Customers -> Line]]
        <4>1. s.c \in Customers /\ s.r \in Routers \cup {NoRouter}  BY <2>1, AtType DEF Work
        <4>2. s.r \in Routers => l \in Line
          BY <3>2, <4>1, LineType DEF TypeOK, Profiles
        <4> QED  BY <3>2, <4>1, <4>2, LineWrite DEF TypeOK
      <3> QED  BY <1>3, <3>1, <3>2 DEF CallSuspend
    <2> QED  BY <1>3, <2>1, <2>2, <2>3, TypeAnswer DEF CallSuspend
  <1>4. ASSUME MarkSuspend(w) PROVE TypeOK'
    <2>1. s.c \in Customers /\ s.row \in Row  BY <1>4, AtType DEF MarkSuspend, Work
    <2>2. [s.row EXCEPT !.status = "suspended"] \in Row  BY <2>1 DEF Row, Statuses
    <2>3. row[s.c] # NoRow => [row[s.c] EXCEPT !.sync = "Blocked"] \in Row
      BY <2>1 DEF TypeOK, Row, Syncs
    <2>4. row' \in [Customers -> Row \cup {NoRow}]
      <3>1. CASE s.h = "autoSuspend" /\ s.out = "done"
        <4>1. Saved(s.c, [s.row EXCEPT !.status = "suspended"], FALSE)
          BY <1>4, <3>1 DEF MarkSuspend
        <4> QED  BY <4>1, <2>1, <2>2, SavedType
      <3>2. CASE s.h = "autoSuspend" /\ s.out = "refused" /\ row[s.c] # NoRow
        <4>1. row' = [row EXCEPT ![s.c].sync = "Blocked"]  BY <1>4, <3>2 DEF MarkSuspend
        <4> QED  BY <3>2, <4>1, <2>1, <2>3 DEF TypeOK
      <3>3. CASE ~(s.h = "autoSuspend" /\ s.out = "done")
                 /\ ~(s.h = "autoSuspend" /\ s.out = "refused" /\ row[s.c] # NoRow)
        <4>1. row' = row  BY <1>4, <3>3 DEF MarkSuspend
        <4> QED  BY <4>1 DEF TypeOK
      <3> QED  BY <3>1, <3>2, <3>3
    <2> QED  BY <1>4, <2>4, EndsType DEF MarkSuspend, TypeOK, System
  <1>5. ASSUME CallRestore(w) PROVE TypeOK'
    <2>1. At(w, {"reactivate", "pay"}, "call")  BY <1>5 DEF CallRestore
    <2>2. PICK out \in {"refused", "done", "failed"} : Answers(w, out)
      BY <1>5 DEF CallRestore
    <2>3. line' \in [Routers -> [Customers -> Line]]
      <3>1. CASE UNCHANGED line  BY <3>1 DEF TypeOK
      <3>2. ASSUME NEW l \in {Enabled(line[s.r][s.c]), Restored(line[s.r][s.c])},
                   line' = [line EXCEPT ![s.r][s.c] = l]
            PROVE  line' \in [Routers -> [Customers -> Line]]
        <4>1. s.c \in Customers /\ s.r \in Routers \cup {NoRouter}  BY <2>1, AtType DEF Work
        <4>2. s.r \in Routers => l \in Line
          BY <3>2, <4>1, LineType DEF TypeOK, Profiles
        <4> QED  BY <3>2, <4>1, <4>2, LineWrite DEF TypeOK
      <3> QED  BY <1>5, <3>1, <3>2 DEF CallRestore
    <2> QED  BY <1>5, <2>1, <2>2, <2>3, TypeAnswer DEF CallRestore
  <1>6. ASSUME MarkRestore(w) PROVE TypeOK'
    <2>1. s.c \in Customers /\ s.row \in Row  BY <1>6, AtType DEF MarkRestore, Work
    <2> DEFINE st == IF s.row.status = "suspended" THEN "suspended" ELSE row[s.c].status
    <2>2. row[s.c] # NoRow => [row[s.c] EXCEPT !.sync = "Blocked", !.status = st] \in Row
      <3> SUFFICES ASSUME row[s.c] # NoRow
                   PROVE  [row[s.c] EXCEPT !.sync = "Blocked", !.status = st] \in Row
        OBVIOUS
      <3>1. row[s.c] \in Row  BY <2>1 DEF TypeOK
      <3>2. st \in Statuses  BY <3>1 DEF Row, Statuses
      <3> HIDE DEF st
      <3> QED  BY <3>1, <3>2 DEF Row, Syncs
    <2>3. row' \in [Customers -> Row \cup {NoRow}]  BY <1>6, <2>1, <2>2 DEF MarkRestore, TypeOK
    <2> QED  BY <1>6, <2>3, EndsType DEF MarkRestore, TypeOK, System
  <1> QED  BY <1>1, <1>3, <1>4, <1>5, <1>6

LEMMA TypeWinbox ==
    ASSUME TypeOK, NEW w \in Workers, NEW c \in Customers, NEW r \in Routers, Winbox(w, c, r)
    PROVE  TypeOK'
  <1>1. PICK l \in Line : line' = [line EXCEPT ![r][c] = l]
    <2>1. line[r][c] \in Line  BY DEF TypeOK
    <2>2. Cut(line[r][c]) \in Line  BY <2>1, LineType DEF Profiles
    <2>3. ASSUME NEW off \in BOOLEAN PROVE [Put(line[r][c], "other") EXCEPT !.off = off] \in Line
      <3>1. Put(line[r][c], "other") \in Line  BY <2>1, LineType DEF Profiles
      <3> QED  BY <3>1 DEF Line
    <2>4. line[r] \in [Customers -> Line] /\ line \in [Routers -> [Customers -> Line]]
      BY DEF TypeOK
    <2>5. PICK off \in BOOLEAN :
              \/ line' = [line EXCEPT ![r][c] = [Put(@, "other") EXCEPT !.off = off]]
              \/ line' = [line EXCEPT ![r][c] = Cut(@)]
      BY DEF Winbox
    <2>6. \/ line' = [line EXCEPT ![r][c] = [Put(line[r][c], "other") EXCEPT !.off = off]]
          \/ line' = [line EXCEPT ![r][c] = Cut(line[r][c])]
      BY <2>4, <2>5
    <2> QED  BY <2>2, <2>3, <2>6
  <1>2. line' \in [Routers -> [Customers -> Line]]  BY <1>1, LineWrite DEF TypeOK
  <1> QED  BY <1>2 DEF Winbox, TypeOK, System

LEMMA TypeReconcile ==
    ASSUME TypeOK, NEW w \in Workers
    PROVE  /\ \A c \in Customers, r \in Routers : OpenReconcile(w, c, r) => TypeOK'
           /\ ReadReconcile(w) => TypeOK'
  <1>1. ASSUME NEW c \in Customers, NEW r \in Routers, OpenReconcile(w, c, r) PROVE TypeOK'
    <2>1. PICK step \in {"agrees", "differs"} : Goes(w, "reconcile", step, c, r, NoRow)
      BY <1>1 DEF OpenReconcile
    <2>2. session' \in [Workers -> Work \cup Compared \cup {Idle}]
      BY <2>1 DEF Goes, Compared, TypeOK
    <2> QED  BY <1>1, <2>2 DEF OpenReconcile, TypeOK, System
  <1>2. ASSUME ReadReconcile(w) PROVE TypeOK'
    <2> DEFINE s == session[w]
               r == row[s.c]
    <2>1. s \in Compared
      BY <1>2 DEF ReadReconcile, At, TypeOK, Work
    <2>2. s.c \in Customers /\ s.r \in Routers  BY <2>1 DEF Compared
    <2>3. CASE Ends(w)  BY <1>2, <2>3, TypeEnd DEF ReadReconcile
    <2>4. CASE r # NoRow /\ session' = [session EXCEPT ![w] =
                     IF s.step = "agrees" THEN [s EXCEPT !.step = "mark", !.row = r, !.out = "done"]
                     ELSE [s EXCEPT !.step = "call", !.row = r]]
      <3>1. r \in Row  BY <2>2, <2>4 DEF TypeOK
      <3>2. [s EXCEPT !.step = "call", !.row = r] \in Work
        BY <2>1, <3>1 DEF Compared, Work, Handlers
      <3>3. [s EXCEPT !.step = "mark", !.row = r, !.out = "done"] \in Work
        BY <2>1, <3>1 DEF Compared, Work, Handlers
      <3>4. session' \in [Workers -> Work \cup Compared \cup {Idle}]
        BY <2>4, <3>2, <3>3 DEF TypeOK
      <3> QED  BY <1>2, <3>4 DEF ReadReconcile, TypeOK, System
    <2> QED  BY <1>2, <2>3, <2>4 DEF ReadReconcile
  <1> QED  BY <1>1, <1>2

LEMMA ImportRow ==
    ASSUME NEW w \in Workers, NEW c \in Customers, Import(w, c)
    PROVE  \E r \in Routers, status \in Statuses, date \in Dates :
               row' = [row EXCEPT ![c] = [router |-> r, status |-> status, date |-> date,
                           sync |-> "Unverified", data |-> imports', stamp |-> imports']]
  <1>1. PICK r \in Routers, status \in Statuses, date \in Dates, reviewed \in BOOLEAN :
          row' = [row EXCEPT ![c] = [router |-> r, status |-> status, date |-> date,
                      sync |-> "Unverified", data |-> imports', stamp |-> imports']]
    BY ZenonT(60) DEF Import
  <1> QED  BY <1>1

LEMMA TypeImport ==
    ASSUME TypeOK, NEW w \in Workers, NEW c \in Customers, Import(w, c)
    PROVE  TypeOK'
  <1>1. imports' \in Nat  BY DEF Import, TypeOK
  <1>2. PICK r \in Routers, status \in Statuses, date \in Dates :
            row' = [row EXCEPT ![c] = [router |-> r, status |-> status, date |-> date,
                        sync |-> "Unverified", data |-> imports', stamp |-> imports']]
    BY ImportRow
  <1>3. [router |-> r, status |-> status, date |-> date,
         sync |-> "Unverified", data |-> imports', stamp |-> imports'] \in Row
    BY <1>1 DEF Row, Syncs
  <1>4. row' \in [Customers -> Row \cup {NoRow}]  BY <1>2, <1>3 DEF TypeOK
  <1>5. approvals' \in [Customers -> SUBSET [at : Nat, of : Nat]]  BY DEF Import, TypeOK
  <1> QED  BY <1>1, <1>4, <1>5 DEF Import, TypeOK

LEMMA TypeJobs ==
    ASSUME TypeOK, NEW c \in Customers
    PROVE  /\ Retry(c) => TypeOK'
           /\ Purge(c) \/ Lapse(c) => TypeOK'
           /\ Restart => TypeOK'
  <1>0. Beat \in Workers  BY DEF Workers
  <1>1. ASSUME OpenRetry(c) PROVE TypeOK'
    <2>1. row[c] \in Row /\ "retry" \in Handlers  BY <1>1 DEF OpenRetry, TypeOK, Handlers
    <2>2. row[c].router \in Routers \cup {NoRouter}  BY <2>1 DEF Row
    <2> QED  BY <1>0, <1>1, <2>1, <2>2, TypeStart DEF OpenRetry
  <1>2. ASSUME CommitRetry PROVE TypeOK'
    <2> DEFINE d == session[Beat].c
    <2>1. d \in Customers  BY <1>0, <1>2, AtType DEF CommitRetry, Work
    <2>2. row[d] # NoRow => [row[d] EXCEPT !.sync = "Pending"] \in Row
      BY <2>1 DEF TypeOK, Row, Syncs
    <2>3. row' \in [Customers -> Row \cup {NoRow}]  BY <1>2, <2>1, <2>2 DEF CommitRetry, TypeOK
    <2> QED  BY <1>0, <1>2, <2>3, EndsType DEF CommitRetry, TypeOK, System
  <1>3. Purge(c) => TypeOK'  BY DEF Purge, TypeOK, System
  <1>4. ASSUME Lapse(c) PROVE TypeOK'
    <2>1. [row[c] EXCEPT !.date = "past"] \in Row  BY <1>4 DEF Lapse, TypeOK, Row, Dates
    <2>2. row' \in [Customers -> Row \cup {NoRow}]  BY <1>4, <2>1 DEF Lapse, TypeOK
    <2> QED  BY <1>4, <2>2 DEF Lapse, TypeOK, System
  <1>5. Restart => TypeOK'  BY DEF Restart, TypeOK
  <1> QED  BY <1>1, <1>2, <1>3, <1>4, <1>5 DEF Retry

LEMMA TypeNext == TypeOK /\ [Next]_vars => TypeOK'
  <1> SUFFICES ASSUME TypeOK, [Next]_vars PROVE TypeOK'  OBVIOUS
  <1>1. ASSUME NEW w \in Threads, Continues(w) PROVE TypeOK'
    <2>1. w \in Workers  BY DEF Workers
    <2>2. PICK c \in Customers : TRUE
      <3>1. session[w] \in Work \/ session[w] \in Compared
        BY <1>1, <2>1 DEF Continues, CallPut, MarkPut, CallApprove, MarkApprove, CommitEdit, CallSuspend,
           MarkSuspend, CallRestore, MarkRestore, CallDelete, ReadReconcile, At, TypeOK
      <3> QED  BY <3>1 DEF Work, Compared
    <2>3. CASE CallPut(w) \/ MarkPut(w)  BY <2>1, <2>3, TypePut
    <2>4. CASE CallApprove(w) \/ MarkApprove(w)  BY <2>1, <2>4, TypePair
    <2>5. CASE CommitEdit(w) \/ CallDelete(w)  BY <2>1, <2>2, <2>5, TypeScreens
    <2>6. CASE CallSuspend(w) \/ MarkSuspend(w) \/ CallRestore(w) \/ MarkRestore(w)
      BY <2>1, <2>6, TypeCutOff
    <2>7. CASE ReadReconcile(w)  BY <2>1, <2>7, TypeReconcile
    <2> QED  BY <1>1, <2>3, <2>4, <2>5, <2>6, <2>7 DEF Continues
  <1>2. ASSUME NEW w \in Threads, NEW c \in Customers, Opens(w, c) PROVE TypeOK'
    <2>1. w \in Workers  BY DEF Workers
    <2>2. ASSUME NEW r \in Routers, NEW h \in {"push", "override", "bulkPush", "autofix"},
                 OpenPut(w, h, c, r)
          PROVE  TypeOK'
      BY <2>1, <2>2, TypePut
    <2>3. ASSUME NEW r \in Routers,
                 OpenApprove(w, c, r) \/ DeleteSecret(w, c, r) \/ ImportSecret(w, c, r)
          PROVE  TypeOK'
      BY <2>1, <2>3, TypePair
    <2>4. ASSUME NEW r \in Routers, AddCustomer(w, c, r) PROVE TypeOK'
      BY <2>1, <2>4, TypeScreens
    <2>5. ASSUME NEW r \in Routers, Winbox(w, c, r) PROVE TypeOK'  BY <2>1, <2>5, TypeWinbox
    <2>6. ASSUME NEW r \in Routers, OpenReconcile(w, c, r) PROVE TypeOK'
      BY <2>1, <2>6, TypeReconcile
    <2>7. CASE \/ OpenEdit(w, c) \/ ForceSuspend(w, c) \/ Reactivate(w, c) \/ Pay(w, c)
               \/ DeleteCustomer(w, c)
      BY <2>1, <2>7, TypeScreens
    <2>8. ASSUME NEW h \in {"autoSuspend", "cutBatch"}, OpenCutOff(w, h, c) PROVE TypeOK'
      BY <2>1, <2>8, TypeCutOff
    <2>9. CASE Import(w, c)  BY <2>1, <2>9, TypeImport
    <2> QED  BY <1>2, <2>2, <2>3, <2>4, <2>5, <2>6, <2>7, <2>8, <2>9 DEF Opens
  <1>3. ASSUME NEW c \in Customers, Retry(c) \/ Purge(c) \/ Lapse(c) PROVE TypeOK'
    BY <1>3, TypeJobs
  <1>4. CASE Restart  BY <1>4 DEF Restart, TypeOK
  <1>5. CASE UNCHANGED vars  BY <1>5 DEF vars, TypeOK
  <1> QED  BY <1>1, <1>2, <1>3, <1>4, <1>5 DEF Next

\* The state of the border keeps its shape: a session that calls a router or
\* marks a row always holds a row it read and a router it names.
THEOREM TypeCorrect == Spec => []TypeOK
  <1>1. Init => TypeOK  BY TypeInit
  <1>2. TypeOK /\ [Next]_vars => TypeOK'  BY TypeNext
  <1> QED  BY <1>1, <1>2, PTL DEF Spec
-----------------------------------------------------------------------------
(* The border implements its policy *)

Gates == {"push", "override", "bulkPush"}

\* A session belongs to a handler in use: what the tools of Policy rest on.
OfDuty == \A w \in Workers : session[w] # Idle => session[w].h \in duty
BorderInv == TypeOK /\ OfDuty

\* No request passes the gate in a step that leaves the other sessions alone
\* and its own one short of the call.
LEMMA GrantedShrinks ==
    ASSUME NEW w \in Workers, \A v \in Workers \ {w} : session'[v] = session[v],
           ~At(w, Gates, "call")'
    PROVE  Granted' \subseteq Granted
  BY DEF Granted, At, Gates

LEMMA GrantedKept ==
    ASSUME UNCHANGED session
    PROVE  Granted' = Granted
  BY DEF Granted, At

LEMMA GrantedEnds ==
    ASSUME TypeOK, NEW w \in Workers, Ends(w)
    PROVE  Granted' \subseteq Granted
  <1>1. session'[w] = Idle /\ \A v \in Workers \ {w} : session'[v] = session[v]
    BY DEF TypeOK, Ends
  <1>2. ~At(w, Gates, "call")'  BY <1>1 DEF At
  <1> QED  BY <1>1, <1>2, GrantedShrinks

LEMMA GrantedAnswers ==
    ASSUME TypeOK, NEW w \in Workers, NEW out \in {"none", "done", "refused", "failed"},
           session[w] \in Work, Answers(w, out)
    PROVE  Granted' \subseteq Granted
  <1>1. session' = [session EXCEPT ![w] = [session[w] EXCEPT !.step = "mark", !.out = out]]
    BY DEF Answers, TypeOK
  <1>2. session'[w] = [session[w] EXCEPT !.step = "mark", !.out = out]
    BY <1>1 DEF TypeOK
  <1>3. session'[w].step = "mark"  BY <1>2 DEF Work
  <1>4. ~At(w, Gates, "call")'  BY <1>3 DEF At
  <1>5. \A v \in Workers \ {w} : session'[v] = session[v]  BY <1>1 DEF TypeOK
  <1> QED  BY <1>4, <1>5, GrantedShrinks

LEMMA GrantedGoes ==
    ASSUME TypeOK, NEW w \in Workers, NEW h, NEW step, NEW c, NEW r, NEW read,
           h \notin Gates, Goes(w, h, step, c, r, read)
    PROVE  Granted' \subseteq Granted
  <1>1. session'[w].h = h /\ \A v \in Workers \ {w} : session'[v] = session[v]
    BY DEF TypeOK, Goes
  <1>2. ~At(w, Gates, "call")'  BY <1>1 DEF At
  <1> QED  BY <1>1, <1>2, GrantedShrinks

LEMMA DutyInit == Init => OfDuty
  BY DEF Init, OfDuty

LEMMA DutyNext == BorderInv /\ [Next]_vars => OfDuty'
  <1> SUFFICES ASSUME BorderInv, [Next]_vars PROVE OfDuty'  OBVIOUS
  <1>0. TypeOK /\ OfDuty  BY DEF BorderInv
  <1>1. ASSUME UNCHANGED <<session, duty>> PROVE OfDuty'  BY <1>0, <1>1 DEF OfDuty
  <1>2. ASSUME NEW w \in Workers, Ends(w), UNCHANGED duty PROVE OfDuty'
    BY <1>0, <1>2 DEF OfDuty, TypeOK, Ends
  <1>3. ASSUME NEW w \in Workers, session[w] \in Work,
               NEW out \in {"none", "done", "refused", "failed"}, Answers(w, out), UNCHANGED duty
        PROVE  OfDuty'
    <2>1. session' = [session EXCEPT ![w] = [session[w] EXCEPT !.step = "mark", !.out = out]]
      BY <1>0, <1>3 DEF Answers, TypeOK
    <2>2. session'[w] = [session[w] EXCEPT !.step = "mark", !.out = out]
      BY <1>0, <2>1 DEF TypeOK
    <2>3. session'[w].h = session[w].h  BY <1>3, <2>2 DEF Work
    <2>4. session[w] # Idle  BY <1>3, IdleIsNoWork
    <2>5. \A v \in Workers \ {w} : session'[v] = session[v]  BY <1>0, <2>1 DEF TypeOK
    <2> QED  BY <1>0, <1>3, <2>3, <2>4, <2>5 DEF OfDuty
  <1>4. ASSUME NEW w \in Workers, NEW h \in duty, NEW step, NEW c, NEW r, NEW read,
               Goes(w, h, step, c, r, read), UNCHANGED duty
        PROVE  OfDuty'
    <2>1. session'[w].h = h /\ \A v \in Workers \ {w} : session'[v] = session[v]
      BY <1>0, <1>4 DEF TypeOK, Goes
    <2> QED  BY <1>0, <1>4, <2>1 DEF OfDuty
  <1>5. ASSUME NEW w \in Threads, Continues(w) PROVE OfDuty'
    <2>1. w \in Workers  BY DEF Workers
    <2>2. CASE CallPut(w)
      <3>1. session[w] \in Work  BY <1>0, <2>1, <2>2, AtType DEF CallPut
      <3> QED  BY <1>3, <2>1, <2>2, <3>1 DEF CallPut, System
    <2>3. CASE MarkPut(w)  BY <1>2, <2>1, <2>3 DEF MarkPut, System
    <2>4. CASE CallApprove(w)
      <3>1. session[w] \in Work  BY <1>0, <2>1, <2>4, AtType DEF CallApprove
      <3> QED  BY <1>2, <1>3, <2>1, <2>4, <3>1 DEF CallApprove, System
    <2>5. CASE MarkApprove(w)  BY <1>2, <2>1, <2>5 DEF MarkApprove, System
    <2>6. CASE CommitEdit(w)  BY <1>2, <2>1, <2>6 DEF CommitEdit, System
    <2>7. CASE CallSuspend(w)
      <3>1. session[w] \in Work  BY <1>0, <2>1, <2>7, AtType DEF CallSuspend
      <3> QED  BY <1>3, <2>1, <2>7, <3>1 DEF CallSuspend, System
    <2>8. CASE MarkSuspend(w)  BY <1>2, <2>1, <2>8 DEF MarkSuspend, System
    <2>9. CASE CallRestore(w)
      <3>1. session[w] \in Work  BY <1>0, <2>1, <2>9, AtType DEF CallRestore
      <3> QED  BY <1>3, <2>1, <2>9, <3>1 DEF CallRestore, System
    <2>10. CASE MarkRestore(w)  BY <1>2, <2>1, <2>10 DEF MarkRestore, System
    <2>11. CASE CallDelete(w)  BY <1>2, <2>1, <2>11 DEF CallDelete, System
    <2>12. CASE ReadReconcile(w)
      <3>1. CASE Ends(w)  BY <1>2, <2>1, <2>12, <3>1 DEF ReadReconcile, System
      <3>2. CASE ~Ends(w)
        <4>1. /\ session[w] \in Compared
              /\ \A v \in Workers \ {w} : session'[v] = session[v]
              /\ \/ session'[w] = [session[w] EXCEPT !.step = "mark", !.row = row[session[w].c], !.out = "done"]
                 \/ session'[w] = [session[w] EXCEPT !.step = "call", !.row = row[session[w].c]]
          BY <1>0, <2>1, <2>12, <3>2 DEF ReadReconcile, At, TypeOK, Work
        <4>2. session'[w].h = session[w].h /\ session[w] # Idle
          BY <2>1, <2>12, <4>1 DEF Compared, ReadReconcile, At
        <4> QED  BY <1>0, <2>12, <4>1, <4>2 DEF OfDuty, ReadReconcile, System
      <3> QED  BY <3>1, <3>2
    <2> QED  BY <1>5, <2>2, <2>3, <2>4, <2>5, <2>6, <2>7, <2>8, <2>9, <2>10, <2>11, <2>12 DEF Continues
  <1>6. ASSUME NEW w \in Threads, NEW c \in Customers, Opens(w, c) PROVE OfDuty'
    <2>1. w \in Workers  BY DEF Workers
    <2>2. ASSUME NEW r \in Routers, NEW h, OpenPut(w, h, c, r) PROVE OfDuty'
      BY <1>4, <2>1, <2>2 DEF OpenPut, Starts, System
    <2>3. ASSUME NEW r \in Routers, OpenApprove(w, c, r) PROVE OfDuty'
      BY <1>4, <2>1, <2>3 DEF OpenApprove, Starts, System
    <2>4. ASSUME NEW r \in Routers, DeleteSecret(w, c, r) \/ ImportSecret(w, c, r) \/ Winbox(w, c, r)
          PROVE  OfDuty'
      BY <1>1, <2>4 DEF DeleteSecret, ImportSecret, Winbox, System
    <2>5. ASSUME NEW r \in Routers, AddCustomer(w, c, r) PROVE OfDuty'
      <3>1. "add" \in duty /\ UNCHANGED duty  BY <2>5 DEF AddCustomer, Starts, System
      <3> QED  BY <1>1, <1>4, <2>1, <2>5, <3>1 DEF AddCustomer
    <2>6. ASSUME NEW r \in Routers, OpenReconcile(w, c, r) PROVE OfDuty'
      <3>1. "reconcile" \in duty /\ UNCHANGED duty  BY <2>6 DEF OpenReconcile, Starts, System
      <3> QED  BY <1>4, <2>1, <2>6, <3>1 DEF OpenReconcile
    <2>7. CASE OpenEdit(w, c)  BY <1>4, <2>1, <2>7 DEF OpenEdit, Starts, System
    <2>8. ASSUME NEW h, NEW new, ThenRouter(w, h, c, new) PROVE OfDuty'
      <3>1. h \in duty /\ UNCHANGED duty  BY <2>8 DEF ThenRouter, Starts, System
      <3> QED  BY <1>1, <1>4, <2>1, <2>8, <3>1 DEF ThenRouter
    <2>9. CASE ForceSuspend(w, c) \/ Reactivate(w, c) \/ Pay(w, c)
      BY <2>8, <2>9 DEF ForceSuspend, Reactivate, Pay
    <2>10. ASSUME NEW h, OpenCutOff(w, h, c) PROVE OfDuty'
      BY <1>4, <2>1, <2>10 DEF OpenCutOff, Starts, System
    <2>11. CASE DeleteCustomer(w, c)
      <3>1. "deleteCustomer" \in duty /\ UNCHANGED duty  BY <2>11 DEF DeleteCustomer, Starts, System
      <3> QED  BY <1>1, <1>4, <2>1, <2>11, <3>1 DEF DeleteCustomer
    <2>12. CASE Import(w, c)  BY <1>1, <2>12 DEF Import
    <2> QED  BY <1>6, <2>2, <2>3, <2>4, <2>5, <2>6, <2>7, <2>9, <2>10, <2>11, <2>12 DEF Opens
  <1>7. ASSUME NEW c \in Customers, Retry(c) \/ Purge(c) \/ Lapse(c) PROVE OfDuty'
    <2>0. Beat \in Workers  BY DEF Workers
    <2>1. CASE OpenRetry(c)  BY <1>4, <2>0, <2>1 DEF OpenRetry, Starts, System
    <2>2. CASE CommitRetry  BY <1>2, <2>0, <2>2 DEF CommitRetry, System
    <2>3. CASE Purge(c) \/ Lapse(c)  BY <1>1, <2>3 DEF Purge, Lapse, System
    <2> QED  BY <1>7, <2>1, <2>2, <2>3 DEF Retry
  <1>8. CASE Restart  BY <1>8 DEF Restart, OfDuty
  <1>9. CASE UNCHANGED vars  BY <1>1, <1>9 DEF vars
  <1> QED  BY <1>5, <1>6, <1>7, <1>8, <1>9 DEF Next

THEOREM BorderInvCorrect == Spec => []BorderInv
  <1>1. Init => BorderInv  BY TypeInit, DutyInit DEF BorderInv
  <1>2. BorderInv /\ [Next]_vars => BorderInv'
    BY TypeNext, DutyNext DEF BorderInv
  <1> QED  BY <1>1, <1>2, PTL DEF Spec

\* Steps that write no line and let no request pass.
LEMMA DeskStep ==
    ASSUME Granted' \subseteq Granted, UNCHANGED <<lock, duty, line>>
    PROVE  Policy!Next
  <1>1. SyncWrites' = SyncWrites /\ (duty \cap Tools # {})' = (duty \cap Tools # {})
    BY DEF SyncWrites
  <1>2. Policy!Desk  BY <1>1 DEF Policy!Desk
  <1> QED  BY <1>2 DEF Policy!Next

\* Steps that write the line of c, for a reason the policy knows.
LEMMA WriteStep ==
    ASSUME TypeOK, NEW c \in Customers, NEW r \in Routers \cup {NoRouter}, NEW e, SyncWrites,
           row[c] # NoRow => duty \cap Tools # {} \/ Paired(c) \/ \E g \in Granted : g[1] = c,
           line' = [line EXCEPT ![r][c] = e],
           Granted' \subseteq Granted, UNCHANGED <<lock, duty, row, approvals>>
    PROVE  Policy!Next
  <1>1. \A q \in Routers : \A d \in Customers \ {c} : line'[q][d] = line[q][d]
    <2>1. CASE r \in Routers  BY <2>1 DEF TypeOK
    <2>2. CASE r \notin Routers
      <3>1. line' = line  BY <2>2 DEF TypeOK
      <3> QED  BY <3>1
    <2> QED  BY <2>1, <2>2
  <1>2. Policy!OnlyLineOf(c)  BY <1>1 DEF Policy!OnlyLineOf
  <1>3. /\ SyncWrites' = SyncWrites
        /\ (duty \cap Tools # {})' = (duty \cap Tools # {})
        /\ {d \in Customers : row[d] # NoRow}' = {d \in Customers : row[d] # NoRow}
        /\ {d \in Customers : Paired(d)}' = {d \in Customers : Paired(d)}
        /\ {d \in Customers : Fit(d)}' = {d \in Customers : Fit(d)}
    BY DEF SyncWrites, Paired, Fit
  <1>4. c \in {d \in Customers : row[d] # NoRow} =>
            \/ duty \cap Tools # {}
            \/ c \in {d \in Customers : Paired(d)}
            \/ \E g \in Granted : g[1] = c
    OBVIOUS
  <1>5. Policy!Write(c)  BY <1>2, <1>3, <1>4 DEF Policy!Write
  <1> QED  BY <1>5 DEF Policy!Next

\* A request passes the gate.
LEMMA GrantStep ==
    ASSUME TypeOK, NEW w \in Workers, NEW c \in Customers, NEW r \in Routers, NEW h \in Gates,
           OpenPut(w, h, c, r)
    PROVE  Policy!Next
  <1> DEFINE by == IF h = "override" THEN "admin" ELSE "pairing"
             new == [h |-> h, step |-> "call", c |-> c, r |-> r, row |-> row[c], out |-> "none"]
  <1>1. /\ session[w] = Idle /\ session'[w] = new
        /\ \A v \in Workers \ {w} : session'[v] = session[v]
    BY DEF OpenPut, Starts, Goes, TypeOK
  <1>2. new # Idle  BY DEF Idle, Gates
  <1>3. ~At(w, Gates, "call") /\ At(w, Gates, "call")'  BY <1>1, <1>2 DEF At
  <1>4. <<session'[w].c, IF session'[w].h = "override" THEN "admin" ELSE "pairing">> = <<c, by>>
    BY <1>1
  <1>5. Granted' = Granted \cup {<<c, by>>}
    <2>1. \A v \in Workers \ {w} : At(v, Gates, "call")' = At(v, Gates, "call")  BY <1>1 DEF At
    <2> QED  BY <1>1, <1>3, <1>4, <2>1 DEF Granted, Gates
  <1>6. row[c] # NoRow /\ MayPut(h, c, r)  BY DEF OpenPut
  <1>7. /\ SyncWrites' = SyncWrites
        /\ (duty \cap Tools # {})' = (duty \cap Tools # {})
        /\ {d \in Customers : row[d] # NoRow}' = {d \in Customers : row[d] # NoRow}
        /\ {d \in Customers : Paired(d)}' = {d \in Customers : Paired(d)}
        /\ {d \in Customers : Fit(d)}' = {d \in Customers : Fit(d)}
        /\ line' = line
    BY DEF OpenPut, System, SyncWrites, Paired, Fit
  <1>8. CASE h = "override"
    <2>1. by = "admin" /\ PushBlocked(c)  BY <1>6, <1>8 DEF MayPut
    <2>2. c \in {d \in Customers : row[d] # NoRow}
                 \ ({d \in Customers : Paired(d)} \cap {d \in Customers : Fit(d)})
      BY <1>6, <2>1 DEF PushBlocked
    <2>3. Policy!Grant(c)  BY <1>5, <1>7, <2>1, <2>2 DEF Policy!Grant
    <2> QED  BY <2>3 DEF Policy!Next
  <1>9. CASE h # "override"
    <2>1. by = "pairing" /\ ~PushBlocked(c)  BY <1>6, <1>9 DEF MayPut, Gates
    <2>2. c \in {d \in Customers : Paired(d)} \cap {d \in Customers : Fit(d)}
      BY <2>1 DEF PushBlocked
    <2>3. Policy!Grant(c)  BY <1>5, <1>7, <2>1, <2>2 DEF Policy!Grant
    <2> QED  BY <2>3 DEF Policy!Next
  <1> QED  BY <1>8, <1>9

\* The client of sync_services writes for a request that passed the gate, or
\* for a tool that has none.
LEMMA PutStep ==
    ASSUME BorderInv, NEW w \in Workers, CallPut(w)
    PROVE  Policy!Next
  <1> DEFINE s == session[w]
  <1>0. TypeOK /\ OfDuty  BY DEF BorderInv
  <1>1. At(w, Putters, "call") /\ s \in Work /\ s.h \in Putters
    BY <1>0, AtType DEF CallPut
  <1>2. s.c \in Customers /\ s.r \in Routers \cup {NoRouter}  BY <1>1 DEF Work
  <1>3. PICK out \in {"refused", "done", "failed"} : Answers(w, out)  BY DEF CallPut
  <1>4. Granted' \subseteq Granted  BY <1>0, <1>1, <1>3, GrantedAnswers
  <1>5. CASE UNCHANGED line  BY <1>4, <1>5, DeskStep DEF CallPut, System
  <1>6. CASE SyncWrites /\ line' = [line EXCEPT ![s.r][s.c] = Put(@, ProfileOf(s.h))]
    <2>1. line' = [line EXCEPT ![s.r][s.c] = Put(line[s.r][s.c], ProfileOf(s.h))]
      <3>1. CASE s.r \in Routers  BY <1>0, <1>2, <1>6, <3>1 DEF TypeOK
      <3>2. CASE s.r \notin Routers  BY <1>0, <1>6, <3>2 DEF TypeOK
      <3> QED  BY <3>1, <3>2
    <2>2. duty \cap Tools # {} \/ \E g \in Granted : g[1] = s.c
      <3>1. CASE s.h \in Gates
        <4>1. At(w, Gates, "call")  BY <1>1, <3>1 DEF At
        <4> DEFINE g == <<s.c, IF s.h = "override" THEN "admin" ELSE "pairing">>
        <4>2. g \in Granted  BY <4>1 DEF Granted, Gates
        <4>3. g[1] = s.c  OBVIOUS
        <4> QED  BY <4>2, <4>3
      <3>2. CASE s.h \notin Gates
        <4>1. s.h \in Tools  BY <1>1, <3>2 DEF Putters, Gates, Tools
        <4>2. s.h \in duty  BY <1>0, <1>1 DEF OfDuty, At
        <4> QED  BY <4>1, <4>2
      <3> QED  BY <3>1, <3>2
    <2>3. UNCHANGED <<lock, duty, row, approvals>>  BY DEF CallPut, System
    <2> DEFINE e == Put(line[s.r][s.c], ProfileOf(s.h))
    <2>4. line' = [line EXCEPT ![s.r][s.c] = e]  BY <2>1
    <2> HIDE DEF e
    <2>5. SyncWrites  BY <1>6
    <2>6. row[s.c] # NoRow =>
              duty \cap Tools # {} \/ Paired(s.c) \/ \E g \in Granted : g[1] = s.c
      BY <2>2
    <2> DEFINE c == s.c
               r == s.r
    <2>7. /\ c \in Customers /\ r \in Routers \cup {NoRouter}
          /\ row[c] # NoRow => duty \cap Tools # {} \/ Paired(c) \/ \E g \in Granted : g[1] = c
          /\ line' = [line EXCEPT ![r][c] = e]
      BY <1>2, <2>4, <2>6
    <2> HIDE DEF c, r
    <2> QED  BY <1>0, <1>4, <2>3, <2>5, <2>7, WriteStep
  <1> QED  BY <1>5, <1>6 DEF CallPut

\* The client of network_manager asks for the pairing of every account that
\* is held; the suspensions, restorations and deletions all go through it.
LEMMA MainStep ==
    ASSUME BorderInv, NEW w \in Workers, CallSuspend(w) \/ CallRestore(w) \/ CallDelete(w)
    PROVE  Policy!Next
  <1> DEFINE s == session[w]
             hs == {"suspend", "autoSuspend", "cutBatch", "reactivate", "pay", "deleteCustomer"}
  <1>0. TypeOK  BY DEF BorderInv
  <1>1. At(w, hs, "call") /\ s \in Work
    <2>1. At(w, hs, "call")  BY DEF At, CallSuspend, CallRestore, CallDelete
    <2> QED  BY <1>0, <2>1, AtType
  <1>2. s.c \in Customers /\ s.r \in Routers \cup {NoRouter}  BY <1>1 DEF Work
  <1>3. Granted' \subseteq Granted
    <2>1. CASE Ends(w)  BY <1>0, <2>1, GrantedEnds
    <2>2. ASSUME NEW out \in {"refused", "done", "failed"}, Answers(w, out)
          PROVE  Granted' \subseteq Granted
      BY <1>0, <1>1, <2>2, GrantedAnswers
    <2> QED  BY <2>1, <2>2 DEF CallSuspend, CallRestore, CallDelete
  <1>4. UNCHANGED <<lock, duty, row, approvals>>
    BY DEF CallSuspend, CallRestore, CallDelete, System
  <1>5. CASE UNCHANGED line  BY <1>3, <1>4, <1>5, DeskStep
  <1>6. ASSUME NEW l, MainWrites, LetThrough(s.c), line' = [line EXCEPT ![s.r][s.c] = l]
        PROVE  Policy!Next
    <2>1. SyncWrites  BY <1>6 DEF MainWrites, SyncWrites
    <2>2. row[s.c] # NoRow => Paired(s.c)  BY <1>6 DEF LetThrough
    <2> QED  BY <1>0, <1>2, <1>3, <1>4, <1>6, <2>1, <2>2, WriteStep
  <1> QED  BY <1>5, <1>6 DEF CallSuspend, CallRestore, CallDelete

\* The two tools of the page that write in one step.
LEMMA ToolStep ==
    ASSUME TypeOK, NEW w \in Workers, NEW c \in Customers, NEW r \in Routers,
           DeleteSecret(w, c, r) \/ Winbox(w, c, r)
    PROVE  Policy!Next
  <1>1. duty \cap Tools # {}  BY DEF DeleteSecret, Winbox, Starts, Tools
  <1>2. SyncWrites  BY DEF DeleteSecret, Winbox, MainWrites, SyncWrites
  <1>3. Granted' = Granted  BY GrantedKept DEF DeleteSecret, Winbox
  <1>4. \E e : line' = [line EXCEPT ![r][c] = e]
    <2>1. line[r] \in [Customers -> Line] /\ line \in [Routers -> [Customers -> Line]]
      BY DEF TypeOK
    <2>2. CASE line' = [line EXCEPT ![r][c] = Cut(@)]
      <3>1. line' = [line EXCEPT ![r][c] = Cut(line[r][c])]  BY <2>1, <2>2
      <3> QED  BY <3>1
    <2>3. ASSUME NEW off, line' = [line EXCEPT ![r][c] = [Put(@, "other") EXCEPT !.off = off]]
          PROVE  \E e : line' = [line EXCEPT ![r][c] = e]
      <3>1. line' = [line EXCEPT ![r][c] = [Put(line[r][c], "other") EXCEPT !.off = off]]
        BY <2>1, <2>3
      <3> QED  BY <3>1
    <2> QED  BY <2>2, <2>3 DEF DeleteSecret, Winbox
  <1>5. UNCHANGED <<lock, duty, row, approvals>>  BY DEF DeleteSecret, Winbox, System
  <1>6. PICK e : line' = [line EXCEPT ![r][c] = e]  BY <1>4
  <1> QED  BY <1>1, <1>2, <1>3, <1>5, <1>6, WriteStep

\* Every step of the border is a step of its policy or changes nothing of it.
LEMMA PolicyNext == BorderInv /\ [Next]_vars => [Policy!Next]_(Policy!vars)
  <1> SUFFICES ASSUME BorderInv, [Next]_vars PROVE [Policy!Next]_(Policy!vars)  OBVIOUS
  <1>0. TypeOK /\ OfDuty  BY DEF BorderInv
  <1>1. ASSUME NEW w \in Threads, Continues(w) PROVE Policy!Next
    <2>1. w \in Workers  BY DEF Workers
    <2>2. CASE CallPut(w)  BY <2>1, <2>2, PutStep
    <2>3. CASE CallSuspend(w) \/ CallRestore(w) \/ CallDelete(w)  BY <2>1, <2>3, MainStep
    <2>4. CASE MarkPut(w) \/ MarkApprove(w) \/ CommitEdit(w) \/ MarkSuspend(w) \/ MarkRestore(w)
      <3>1. Ends(w) /\ UNCHANGED <<lock, duty, line>>
        BY <2>4 DEF MarkPut, MarkApprove, CommitEdit, MarkSuspend, MarkRestore, System
      <3> QED  BY <1>0, <2>1, <3>1, GrantedEnds, DeskStep
    <2>5. CASE CallApprove(w)
      <3>1. session[w] \in Work  BY <1>0, <2>1, <2>5, AtType DEF CallApprove
      <3>2. Granted' \subseteq Granted
        BY <1>0, <2>1, <2>5, <3>1, GrantedEnds, GrantedAnswers DEF CallApprove
      <3> QED  BY <2>5, <3>2, DeskStep DEF CallApprove, System
    <2>6. CASE ReadReconcile(w)
      <3>1. CASE Ends(w)  BY <1>0, <2>1, <2>6, <3>1, GrantedEnds, DeskStep DEF ReadReconcile, System
      <3>2. CASE ~Ends(w)
        <4>1. /\ session[w] \in Compared
              /\ \A v \in Workers \ {w} : session'[v] = session[v]
              /\ \/ session'[w] = [session[w] EXCEPT !.step = "mark", !.row = row[session[w].c], !.out = "done"]
                 \/ session'[w] = [session[w] EXCEPT !.step = "call", !.row = row[session[w].c]]
          BY <1>0, <2>1, <2>6, <3>2 DEF ReadReconcile, At, TypeOK, Work
        <4>2. session'[w].h = "reconcile"  BY <4>1 DEF Compared
        <4>3. ~At(w, Gates, "call")'  BY <4>2 DEF At, Gates
        <4>4. Granted' \subseteq Granted  BY <2>1, <4>1, <4>3, GrantedShrinks
        <4> QED  BY <2>6, <4>4, DeskStep DEF ReadReconcile, System
      <3> QED  BY <3>1, <3>2
    <2> QED  BY <1>1, <2>2, <2>3, <2>4, <2>5, <2>6 DEF Continues
  <1>2. ASSUME NEW w \in Threads, NEW c \in Customers, Opens(w, c) PROVE Policy!Next
    <2>1. w \in Workers  BY DEF Workers
    <2>2. ASSUME NEW h, NEW step, NEW r, NEW read, h \notin Gates,
                 Goes(w, h, step, c, r, read) \/ UNCHANGED session, UNCHANGED <<lock, duty, line>>
          PROVE  Policy!Next
      BY <1>0, <2>1, <2>2, GrantedGoes, GrantedKept, DeskStep
    <2>3. ASSUME NEW r \in Routers, NEW h \in {"push", "override", "bulkPush", "autofix"},
                 OpenPut(w, h, c, r)
          PROVE  Policy!Next
      <3>1. CASE h \in Gates  BY <1>0, <2>1, <2>3, <3>1, GrantStep
      <3>2. CASE h \notin Gates  BY <2>2, <2>3, <3>2 DEF OpenPut, System
      <3> QED  BY <3>1, <3>2
    <2>4. ASSUME NEW r \in Routers, OpenApprove(w, c, r) PROVE Policy!Next
      BY <2>2, <2>4 DEF OpenApprove, System, Gates
    <2>5. ASSUME NEW r \in Routers, DeleteSecret(w, c, r) \/ Winbox(w, c, r) PROVE Policy!Next
      BY <1>0, <2>1, <2>5, ToolStep
    <2>6. ASSUME NEW r \in Routers, ImportSecret(w, c, r) PROVE Policy!Next
      BY <2>6, GrantedKept, DeskStep DEF ImportSecret, System
    <2>7. ASSUME NEW r \in Routers, AddCustomer(w, c, r) PROVE Policy!Next
      BY <2>2, <2>7 DEF AddCustomer, System, Gates
    <2>8. ASSUME NEW r \in Routers, OpenReconcile(w, c, r) PROVE Policy!Next
      BY <2>2, <2>8 DEF OpenReconcile, System, Gates
    <2>9. CASE OpenEdit(w, c)  BY <2>2, <2>9 DEF OpenEdit, System, Gates
    <2>10. ASSUME NEW h, h \notin Gates, NEW new, ThenRouter(w, h, c, new) PROVE Policy!Next
      BY <2>2, <2>10 DEF ThenRouter, System
    <2>11. CASE ForceSuspend(w, c) \/ Reactivate(w, c) \/ Pay(w, c)
      BY <2>10, <2>11 DEF ForceSuspend, Reactivate, Pay, Gates
    <2>12. ASSUME NEW h \in {"autoSuspend", "cutBatch"}, OpenCutOff(w, h, c) PROVE Policy!Next
      BY <2>2, <2>12 DEF OpenCutOff, System, Gates
    <2>13. CASE DeleteCustomer(w, c)  BY <2>2, <2>13 DEF DeleteCustomer, System, Gates
    <2>14. CASE Import(w, c)  BY <2>14, GrantedKept, DeskStep DEF Import
    <2> QED  BY <1>2, <2>3, <2>4, <2>5, <2>6, <2>7, <2>8, <2>9, <2>11, <2>12, <2>13, <2>14 DEF Opens
  <1>3. ASSUME NEW c \in Customers, Retry(c) \/ Purge(c) \/ Lapse(c) PROVE Policy!Next
    <2>0. Beat \in Workers  BY DEF Workers
    <2>1. CASE OpenRetry(c)
      BY <1>0, <2>0, <2>1, GrantedGoes, DeskStep DEF OpenRetry, System, Gates
    <2>2. CASE CommitRetry
      BY <1>0, <2>0, <2>2, GrantedEnds, DeskStep DEF CommitRetry, System
    <2>3. CASE Purge(c) \/ Lapse(c)  BY <2>3, GrantedKept, DeskStep DEF Purge, Lapse, System
    <2> QED  BY <1>3, <2>1, <2>2, <2>3 DEF Retry
  <1>4. CASE Restart
    <2>1. Granted' = {}  BY <1>4 DEF Restart, Granted, At
    <2>2. /\ (duty \cap Tools # {})' = (duty \cap Tools # {})
          /\ {d \in Customers : row[d] # NoRow}' = {d \in Customers : row[d] # NoRow}
          /\ {d \in Customers : Paired(d)}' = {d \in Customers : Paired(d)}
          /\ {d \in Customers : Fit(d)}' = {d \in Customers : Fit(d)}
          /\ line' = line
      BY <1>4 DEF Restart, Paired, Fit
    <2>3. Policy!Redeploy  BY <2>1, <2>2 DEF Policy!Redeploy
    <2> QED  BY <2>3 DEF Policy!Next
  <1>5. CASE UNCHANGED vars
    BY <1>5 DEF vars, Policy!vars, SyncWrites, Paired, Fit, Granted, At
  <1> QED  BY <1>1, <1>2, <1>3, <1>4, <1>5 DEF Next

\* The screens, commands and jobs together implement the policy of the border:
\* a line of an account that is held changes only while writing is on, and only
\* for an account that is paired at that moment, or whose request passed the
\* gate, or through one of the tools that ask for nothing.
THEOREM Refines == Spec => KeepsPolicy
  <1>1. Init => Policy!Init
    <2>1. Init => Granted = {}  BY DEF Init, Granted, At
    <2>2. {c \in Customers : Paired(c)} \subseteq {c \in Customers : row[c] # NoRow}  BY DEF Paired
    <2> QED  BY <2>1, <2>2 DEF Policy!Init
  <1>2. BorderInv /\ [Next]_vars => [Policy!Next]_(Policy!vars)  BY PolicyNext
  <1> QED  BY <1>1, <1>2, BorderInvCorrect, PTL DEF Spec, KeepsPolicy, Policy!Spec
-----------------------------------------------------------------------------
(* A pairing that counts was given for the data the row holds *)

\* Nothing in the tables is newer than the imports, an approval newer than the
\* row's stamp is for the row's data, and what a request has read of the export
\* is what the row still says.
FromAnExport ==
    /\ \A c \in Customers : row[c] # NoRow => row[c].stamp <= imports /\ row[c].data <= imports
    /\ \A c \in Customers : \A a \in approvals[c] : a.at <= imports
    /\ \A c \in Customers : row[c] # NoRow =>
          \A a \in approvals[c] : a.at >= row[c].stamp => a.of = row[c].data
ReadsAreCurrent ==
    \A w \in Workers : session[w] \in Work =>
        LET s == session[w] IN
        row[s.c] # NoRow /\ s.row.data = row[s.c].data /\ s.row.stamp = row[s.c].stamp
ReviewInv == "deleteCustomer" \notin duty => FromAnExport /\ ReadsAreCurrent

\* The rows say of the export what they said before.
SameExport ==
    \A c \in Customers :
        /\ (row'[c] = NoRow) <=> (row[c] = NoRow)
        /\ row[c] # NoRow => row'[c].data = row[c].data /\ row'[c].stamp = row[c].stamp

LEMMA StagedExport ==
    ASSUME NEW new \in Row, NEW old, NEW renamed \in BOOLEAN
    PROVE  Staged(new, old, renamed).data = new.data /\ Staged(new, old, renamed).stamp = new.stamp
  BY DEF Staged, Row

LEMMA MarkedExport ==
    ASSUME NEW h, NEW read, NEW r \in Routers \cup {NoRouter}, NEW out, NEW now \in Row
    PROVE  /\ Marked(h, read, r, out, now).data = now.data
           /\ Marked(h, read, r, out, now).stamp = now.stamp
  BY DEF Marked, Row

\* Writing one row that came of the same export.
LEMMA OneRowExport ==
    ASSUME TypeOK, NEW c \in Customers, row[c] # NoRow, NEW new \in Row,
           new.data = row[c].data, new.stamp = row[c].stamp,
           row' = [row EXCEPT ![c] = new]
    PROVE  SameExport
  BY RowAssumption DEF TypeOK, SameExport

LEMMA SavedExport ==
    ASSUME TypeOK, NEW c \in Customers, row[c] # NoRow, NEW new \in Row,
           new.data = row[c].data, new.stamp = row[c].stamp, NEW renamed \in BOOLEAN,
           Saved(c, new, renamed)
    PROVE  SameExport
  <1> DEFINE staged == Staged(new, row[c], renamed)
  <1>1. staged \in Row /\ staged.data = new.data /\ staged.stamp = new.stamp
    BY StagedType, StagedExport
  <1>2. row' = [row EXCEPT ![c] = staged]  BY DEF Saved, TypeOK
  <1> HIDE DEF staged
  <1> QED  BY <1>1, <1>2, OneRowExport

\* Steps that keep the export and the approvals, and read no stale row.
LEMMA ReviewKept ==
    ASSUME TypeOK, FromAnExport, ReadsAreCurrent, SameExport, imports' = imports,
           \A c \in Customers : approvals'[c] \subseteq approvals[c],
           \A w \in Workers : session'[w] \in Work =>
               \/ session[w] \in Work /\ session'[w].c = session[w].c /\ session'[w].row = session[w].row
               \/ row[session'[w].c] # NoRow /\ session'[w].row = row[session'[w].c]
    PROVE  FromAnExport' /\ ReadsAreCurrent'
  <1>1. FromAnExport'
    <2>1. \A c \in Customers : row'[c] # NoRow => row'[c].stamp <= imports' /\ row'[c].data <= imports'
      BY DEF FromAnExport, SameExport
    <2>2. \A c \in Customers : \A a \in approvals'[c] : a.at <= imports'  BY DEF FromAnExport
    <2>3. \A c \in Customers : row'[c] # NoRow =>
              \A a \in approvals'[c] : a.at >= row'[c].stamp => a.of = row'[c].data
      BY DEF FromAnExport, SameExport
    <2> QED  BY <2>1, <2>2, <2>3 DEF FromAnExport
  <1>2. ASSUME NEW w \in Workers, session'[w] \in Work
        PROVE  /\ row'[session'[w].c] # NoRow
               /\ session'[w].row.data = row'[session'[w].c].data
               /\ session'[w].row.stamp = row'[session'[w].c].stamp
    <2>1. session'[w].c \in Customers  BY <1>2 DEF Work
    <2> QED  BY <1>2, <2>1 DEF ReadsAreCurrent, SameExport
  <1> QED  BY <1>1, <1>2 DEF ReadsAreCurrent

\* What each way of going on does to the sessions.
LEMMA ReadsEnd ==
    ASSUME TypeOK, NEW w \in Workers, Ends(w), NEW v \in Workers, session'[v] \in Work
    PROVE  session[v] \in Work /\ session'[v].c = session[v].c /\ session'[v].row = session[v].row
  BY IdleIsNoWork DEF TypeOK, Ends

LEMMA ReadsAnswer ==
    ASSUME TypeOK, NEW w \in Workers, session[w] \in Work, NEW out, Answers(w, out),
           NEW v \in Workers, session'[v] \in Work
    PROVE  session[v] \in Work /\ session'[v].c = session[v].c /\ session'[v].row = session[v].row
  <1>1. session' = [session EXCEPT ![w] = [session[w] EXCEPT !.step = "mark", !.out = out]]
    BY DEF Answers, TypeOK
  <1>2. CASE v = w
    <2>1. session'[v] = [session[w] EXCEPT !.step = "mark", !.out = out]
      BY <1>1, <1>2 DEF TypeOK
    <2> QED  BY <1>2, <2>1 DEF Work
  <1>3. CASE v # w
    <2>1. session'[v] = session[v]  BY <1>1, <1>3 DEF TypeOK
    <2> QED  BY <2>1
  <1> QED  BY <1>2, <1>3

LEMMA ReadsGo ==
    ASSUME TypeOK, NEW w \in Workers, NEW h, NEW step, NEW c, NEW r, row[c] # NoRow,
           Goes(w, h, step, c, r, row[c]), NEW v \in Workers, session'[v] \in Work
    PROVE  \/ session[v] \in Work /\ session'[v].c = session[v].c /\ session'[v].row = session[v].row
           \/ row[session'[v].c] # NoRow /\ session'[v].row = row[session'[v].c]
  BY DEF TypeOK, Goes

LEMMA ReviewContinues ==
    ASSUME BorderInv, FromAnExport, ReadsAreCurrent, NEW w \in Workers, Continues(w),
           "deleteCustomer" \notin duty
    PROVE  FromAnExport' /\ ReadsAreCurrent'
  <1> DEFINE s == session[w]
  <1>0. TypeOK /\ OfDuty  BY DEF BorderInv
  \* Steps that leave the rows, or write one row of the same export.
  <1>1. ASSUME s \in Work, row[s.c] # NoRow => s.row.data = row[s.c].data /\ s.row.stamp = row[s.c].stamp
        PROVE  /\ s.c \in Customers /\ s.row \in Row /\ row[s.c] # NoRow /\ row[s.c] \in Row
               /\ s.r \in Routers \cup {NoRouter}
               /\ s.row.data = row[s.c].data /\ s.row.stamp = row[s.c].stamp
    <2>1. s.c \in Customers /\ s.row \in Row /\ s.r \in Routers \cup {NoRouter}
      BY <1>1 DEF Work
    <2>2. row[s.c] # NoRow  BY <1>1 DEF ReadsAreCurrent
    <2> QED  BY <1>0, <1>1, <2>1, <2>2 DEF TypeOK
  <1>2. s \in Work => row[s.c] # NoRow /\ s.row.data = row[s.c].data /\ s.row.stamp = row[s.c].stamp
    BY DEF ReadsAreCurrent
  <1>3. ASSUME UNCHANGED row PROVE SameExport  BY <1>3 DEF SameExport
  <1>4. ASSUME SameExport, UNCHANGED <<imports, approvals>>,
               Ends(w) \/ (s \in Work /\ \E out : Answers(w, out))
        PROVE  FromAnExport' /\ ReadsAreCurrent'
    BY <1>0, <1>4, ReviewKept, ReadsEnd, ReadsAnswer
  <1>5. CASE CallPut(w)
    <2>1. s \in Work  BY <1>0, <1>5, AtType DEF CallPut
    <2>2. UNCHANGED <<row, imports, approvals>> /\ \E out : Answers(w, out)
      BY <1>5 DEF CallPut, System
    <2> QED  BY <1>3, <1>4, <2>1, <2>2
  <1>6. CASE MarkPut(w)
    <2>1. s \in Work  BY <1>0, <1>6, AtType DEF MarkPut
    <2> DEFINE new == Marked(s.h, s.row, s.r, s.out, row[s.c])
    <2>2. new \in Row /\ new.data = row[s.c].data /\ new.stamp = row[s.c].stamp
      BY <1>1, <1>2, <2>1, MarkedType, MarkedExport
    <2>3. row' = [row EXCEPT ![s.c] = new]
      BY <1>0, <1>1, <1>2, <1>6, <2>1 DEF MarkPut, TypeOK
    <2> HIDE DEF new
    <2>4. SameExport  BY <1>0, <1>1, <1>2, <2>1, <2>2, <2>3, OneRowExport
    <2>5. UNCHANGED <<imports, approvals>> /\ Ends(w)  BY <1>6 DEF MarkPut, System
    <2> QED  BY <1>4, <2>4, <2>5
  <1>7. CASE CallApprove(w)
    <2>1. s \in Work  BY <1>0, <1>7, AtType DEF CallApprove
    <2>2. UNCHANGED <<row, imports, approvals>> /\ (Ends(w) \/ \E out : Answers(w, out))
      BY <1>7 DEF CallApprove, System
    <2> QED  BY <1>3, <1>4, <2>1, <2>2
  <1>8. CASE MarkApprove(w)
    <2>1. s \in Work  BY <1>0, <1>8, AtType DEF MarkApprove
    <2> DEFINE new == [row[s.c] EXCEPT !.sync = "Synced"]
               a == [at |-> imports, of |-> s.row.data]
    <2>2. new \in Row /\ new.data = row[s.c].data /\ new.stamp = row[s.c].stamp
      BY <1>1, <1>2, <2>1 DEF Row, Syncs
    <2>3. row' = [row EXCEPT ![s.c] = new]
      BY <1>0, <1>1, <1>2, <1>8, <2>1 DEF MarkApprove, TypeOK
    <2>4. SameExport
      <3> HIDE DEF new
      <3> QED  BY <1>0, <1>1, <1>2, <2>1, <2>2, <2>3, OneRowExport
    <2>5. approvals' = [approvals EXCEPT ![s.c] = approvals[s.c] \cup {a}]
      BY <1>0, <1>1, <1>2, <1>8, <2>1 DEF MarkApprove, TypeOK
    <2>6. a.at = imports /\ a.of = row[s.c].data  BY <1>2, <2>1
    <2>7. imports' = imports /\ imports \in Nat  BY <1>0, <1>8 DEF MarkApprove, System, TypeOK
    <2>8. FromAnExport'
      <3> HIDE DEF a
      <3>0. s.c \in Customers  BY <1>1, <1>2, <2>1
      <3>1. \A c \in Customers : row'[c] # NoRow => row'[c].stamp <= imports' /\ row'[c].data <= imports'
        BY <2>4, <2>7 DEF FromAnExport, SameExport
      <3>2. \A c \in Customers : \A b \in approvals'[c] : b \in approvals[c] \/ (c = s.c /\ b = a)
        BY <1>0, <2>5, <3>0 DEF TypeOK
      <3>3. \A c \in Customers : \A b \in approvals'[c] : b.at <= imports'
        BY <2>6, <2>7, <3>2 DEF FromAnExport
      <3>4. \A c \in Customers : row'[c] # NoRow =>
                \A b \in approvals'[c] : b.at >= row'[c].stamp => b.of = row'[c].data
        BY <2>4, <2>6, <3>2 DEF FromAnExport, SameExport
      <3> QED  BY <3>1, <3>3, <3>4 DEF FromAnExport
    <2>9. ReadsAreCurrent'
      <3>1. ASSUME NEW v \in Workers, session'[v] \in Work
            PROVE  /\ row'[session'[v].c] # NoRow
                   /\ session'[v].row.data = row'[session'[v].c].data
                   /\ session'[v].row.stamp = row'[session'[v].c].stamp
        <4>1. session[v] \in Work /\ session'[v].c = session[v].c /\ session'[v].row = session[v].row
          BY <1>0, <1>8, <3>1, ReadsEnd DEF MarkApprove
        <4>2. session[v].c \in Customers  BY <4>1 DEF Work
        <4> QED  BY <2>4, <4>1, <4>2 DEF ReadsAreCurrent, SameExport
      <3> QED  BY <3>1 DEF ReadsAreCurrent
    <2> QED  BY <2>8, <2>9
  <1>9. CASE CommitEdit(w)
    <2>1. s \in Work  BY <1>0, <1>9, AtType DEF CommitEdit
    <2>2. PICK r \in Routers \cup {NoRouter}, renamed \in BOOLEAN :
              Saved(s.c, [s.row EXCEPT !.router = r], renamed)
      BY <1>9 DEF CommitEdit
    <2> DEFINE new == [s.row EXCEPT !.router = r]
    <2>3. new \in Row /\ new.data = row[s.c].data /\ new.stamp = row[s.c].stamp
      BY <1>1, <1>2, <2>1 DEF Row
    <2>4. Saved(s.c, new, renamed)  BY <2>2
    <2> HIDE DEF new
    <2>5. SameExport  BY <1>0, <1>1, <1>2, <2>1, <2>3, <2>4, SavedExport
    <2>6. UNCHANGED <<imports, approvals>> /\ Ends(w)  BY <1>9 DEF CommitEdit, System
    <2> QED  BY <1>4, <2>5, <2>6
  <1>10. CASE CallSuspend(w)
    <2>1. s \in Work  BY <1>0, <1>10, AtType DEF CallSuspend
    <2>2. UNCHANGED <<row, imports, approvals>> /\ \E out : Answers(w, out)
      BY <1>10 DEF CallSuspend, System
    <2> QED  BY <1>3, <1>4, <2>1, <2>2
  <1>11. CASE MarkSuspend(w)
    <2>1. s \in Work  BY <1>0, <1>11, AtType DEF MarkSuspend
    <2>2. SameExport
      <3>1. CASE s.h = "autoSuspend" /\ s.out = "done"
        <4> DEFINE new == [s.row EXCEPT !.status = "suspended"]
        <4>1. new \in Row /\ new.data = row[s.c].data /\ new.stamp = row[s.c].stamp
          BY <1>1, <1>2, <2>1 DEF Row, Statuses
        <4>2. Saved(s.c, new, FALSE)  BY <1>11, <3>1 DEF MarkSuspend
        <4> HIDE DEF new
        <4> QED  BY <1>0, <1>1, <1>2, <2>1, <4>1, <4>2, SavedExport
      <3>2. CASE s.h = "autoSuspend" /\ s.out = "refused" /\ row[s.c] # NoRow
        <4> DEFINE new == [row[s.c] EXCEPT !.sync = "Blocked"]
        <4>1. new \in Row /\ new.data = row[s.c].data /\ new.stamp = row[s.c].stamp
          BY <1>1, <1>2, <2>1 DEF Row, Syncs
        <4>2. row' = [row EXCEPT ![s.c].sync = "Blocked"]  BY <1>11, <3>2 DEF MarkSuspend
        <4>3. row' = [row EXCEPT ![s.c] = new]  BY <1>0, <4>2 DEF TypeOK
        <4> HIDE DEF new
        <4> QED  BY <1>0, <1>1, <1>2, <2>1, <4>1, <4>3, OneRowExport
      <3>3. CASE ~(s.h = "autoSuspend" /\ s.out = "done")
                 /\ ~(s.h = "autoSuspend" /\ s.out = "refused" /\ row[s.c] # NoRow)
        <4>1. row' = row  BY <1>11, <3>3 DEF MarkSuspend
        <4> QED  BY <1>3, <4>1
      <3> QED  BY <3>1, <3>2, <3>3
    <2>3. UNCHANGED <<imports, approvals>> /\ Ends(w)  BY <1>11 DEF MarkSuspend, System
    <2> QED  BY <1>4, <2>2, <2>3
  <1>12. CASE CallRestore(w)
    <2>1. s \in Work  BY <1>0, <1>12, AtType DEF CallRestore
    <2>2. UNCHANGED <<row, imports, approvals>> /\ \E out : Answers(w, out)
      BY <1>12 DEF CallRestore, System
    <2> QED  BY <1>3, <1>4, <2>1, <2>2
  <1>13. CASE MarkRestore(w)
    <2>1. s \in Work  BY <1>0, <1>13, AtType DEF MarkRestore
    <2> DEFINE st == IF s.row.status = "suspended" THEN "suspended" ELSE row[s.c].status
               new == [row[s.c] EXCEPT !.sync = "Blocked", !.status = st]
    <2>2. row[s.c] \in Row /\ st \in Statuses
      BY <1>1, <1>2, <2>1 DEF Row, Statuses
    <2>3. new \in Row /\ new.data = row[s.c].data /\ new.stamp = row[s.c].stamp
      <3> HIDE DEF st
      <3> QED  BY <2>2 DEF Row, Syncs
    <2>4. SameExport
      <3>1. CASE s.out = "refused"
        <4>1. row' = [row EXCEPT ![s.c] = new]
          BY <1>0, <1>1, <1>2, <1>13, <2>1, <3>1 DEF MarkRestore, TypeOK
        <4> HIDE DEF new
        <4> QED  BY <1>0, <1>1, <1>2, <2>1, <2>3, <4>1, OneRowExport
      <3>2. CASE s.out # "refused"
        <4>1. row' = row  BY <1>0, <1>1, <1>2, <1>13, <2>1, <3>2 DEF MarkRestore, TypeOK
        <4> QED  BY <1>3, <4>1
      <3> QED  BY <3>1, <3>2
    <2>5. UNCHANGED <<imports, approvals>> /\ Ends(w)  BY <1>13 DEF MarkRestore, System
    <2> QED  BY <1>4, <2>4, <2>5
  <1>14. CASE CallDelete(w)
    <2>1. UNCHANGED <<row, imports, approvals>> /\ Ends(w)  BY <1>14 DEF CallDelete, System
    <2> QED  BY <1>3, <1>4, <2>1
  <1>15. CASE ReadReconcile(w)
    <2>1. UNCHANGED <<row, imports, approvals>>  BY <1>15 DEF ReadReconcile, System
    <2>2. CASE Ends(w)  BY <1>3, <1>4, <2>1, <2>2
    <2>3. CASE ~Ends(w)
      <3>1. /\ s \in Compared /\ row[s.c] # NoRow
            /\ \A v \in Workers \ {w} : session'[v] = session[v]
            /\ \/ session'[w] = [s EXCEPT !.step = "mark", !.row = row[s.c], !.out = "done"]
               \/ session'[w] = [s EXCEPT !.step = "call", !.row = row[s.c]]
        BY <1>0, <1>15, <2>3 DEF ReadReconcile, At, TypeOK, Work
      <3>2. session'[w].c = s.c /\ session'[w].row = row[s.c]  BY <3>1 DEF Compared
      <3>3. \A v \in Workers : session'[v] \in Work =>
                \/ session[v] \in Work /\ session'[v].c = session[v].c /\ session'[v].row = session[v].row
                \/ row[session'[v].c] # NoRow /\ session'[v].row = row[session'[v].c]
        BY <3>1, <3>2
      <3> QED  BY <1>0, <1>3, <2>1, <3>3, ReviewKept
    <2> QED  BY <2>2, <2>3
  <1> QED  BY <1>5, <1>6, <1>7, <1>8, <1>9, <1>10, <1>11, <1>12, <1>13, <1>14, <1>15 DEF Continues

\* A new row where there was none: it has no approvals, and nobody has read it.
LEMMA ReviewNewRow ==
    ASSUME TypeOK, FromAnExport, ReadsAreCurrent, NEW c \in Customers, row[c] = NoRow,
           NEW new \in Row, new.data = imports, new.stamp = 0, row' = [row EXCEPT ![c] = new],
           approvals' = [approvals EXCEPT ![c] = {}], imports' = imports,
           \A w \in Workers : session'[w] \in Work =>
               \/ session[w] \in Work /\ session'[w].c = session[w].c /\ session'[w].row = session[w].row
               \/ session'[w].c = c /\ session'[w].row = new
    PROVE  FromAnExport' /\ ReadsAreCurrent'
  <1>1. row'[c] = new /\ \A d \in Customers \ {c} : row'[d] = row[d]  BY DEF TypeOK
  <1>2. approvals'[c] = {} /\ \A d \in Customers \ {c} : approvals'[d] = approvals[d]  BY DEF TypeOK
  <1>3. imports \in Nat /\ new # NoRow  BY RowAssumption DEF TypeOK
  <1>4. FromAnExport'
    <2>1. \A d \in Customers : row'[d] # NoRow => row'[d].stamp <= imports' /\ row'[d].data <= imports'
      BY <1>1, <1>3 DEF FromAnExport
    <2>2. \A d \in Customers : \A a \in approvals'[d] : a.at <= imports'  BY <1>2 DEF FromAnExport
    <2>3. \A d \in Customers : row'[d] # NoRow =>
              \A a \in approvals'[d] : a.at >= row'[d].stamp => a.of = row'[d].data
      BY <1>1, <1>2 DEF FromAnExport
    <2> QED  BY <2>1, <2>2, <2>3 DEF FromAnExport
  <1>5. ASSUME NEW w \in Workers, session'[w] \in Work
        PROVE  /\ row'[session'[w].c] # NoRow
               /\ session'[w].row.data = row'[session'[w].c].data
               /\ session'[w].row.stamp = row'[session'[w].c].stamp
    <2>1. session'[w].c \in Customers  BY <1>5 DEF Work
    <2> QED  BY <1>1, <1>3, <1>5, <2>1 DEF ReadsAreCurrent
  <1> QED  BY <1>4, <1>5 DEF ReadsAreCurrent

\* A re-import, alone: every approval the account has is older than its stamp.
LEMMA ReviewImport ==
    ASSUME TypeOK, FromAnExport, "import" \in Exclusive, NEW w \in Workers, NEW c \in Customers,
           Import(w, c)
    PROVE  FromAnExport' /\ ReadsAreCurrent'
  <1>1. /\ imports' = imports + 1 /\ imports \in Nat
        /\ approvals'[c] \subseteq approvals[c]
        /\ \A d \in Customers \ {c} : approvals'[d] = approvals[d]
    BY DEF Import, TypeOK
  <1>2. PICK r \in Routers, status \in Statuses, date \in Dates :
            row' = [row EXCEPT ![c] = [router |-> r, status |-> status, date |-> date,
                        sync |-> "Unverified", data |-> imports', stamp |-> imports']]
    BY ImportRow
  <1>3. /\ row'[c].data = imports' /\ row'[c].stamp = imports'
        /\ \A d \in Customers \ {c} : row'[d] = row[d]
    BY <1>2 DEF TypeOK
  <1>4. FromAnExport'
    <2>0. approvals \in [Customers -> SUBSET [at : Nat, of : Nat]] /\ row \in [Customers -> Row \cup {NoRow}]
      BY DEF TypeOK
    <2>1. \A d \in Customers : row'[d] # NoRow => row'[d].stamp <= imports' /\ row'[d].data <= imports'
      <3>1. ASSUME NEW d \in Customers \ {c}, row[d] # NoRow
            PROVE  row[d].stamp <= imports + 1 /\ row[d].data <= imports + 1
        <4>1. row[d].stamp \in Nat /\ row[d].data \in Nat  BY <2>0, <3>1 DEF Row
        <4>2. row[d].stamp <= imports /\ row[d].data <= imports  BY <3>1 DEF FromAnExport
        <4> QED  BY <1>1, <4>1, <4>2
      <3> QED  BY <1>1, <1>3, <3>1
    <2>2. \A d \in Customers : \A a \in approvals[d] : a.at \in Nat /\ a.at <= imports
      BY <2>0 DEF FromAnExport
    <2>3. \A d \in Customers : \A a \in approvals'[d] : a.at <= imports'
      BY <1>1, <2>2
    <2>4. \A d \in Customers : row'[d] # NoRow =>
              \A a \in approvals'[d] : a.at >= row'[d].stamp => a.of = row'[d].data
      BY <1>1, <1>3, <2>2 DEF FromAnExport
    <2> QED  BY <2>1, <2>3, <2>4 DEF FromAnExport
  <1>5. \A v \in Workers : session'[v] = Idle  BY DEF Import, Starts
  <1> QED  BY <1>4, <1>5, IdleIsNoWork DEF ReadsAreCurrent

LEMMA ReviewOpens ==
    ASSUME BorderInv, FromAnExport, ReadsAreCurrent, "import" \in Exclusive,
           NEW w \in Workers, NEW c \in Customers, Opens(w, c), "deleteCustomer" \notin duty
    PROVE  FromAnExport' /\ ReadsAreCurrent'
  <1>0. TypeOK  BY DEF BorderInv
  <1>1. UNCHANGED row => SameExport  BY DEF SameExport
  <1>2. ASSUME SameExport, UNCHANGED <<imports, approvals>>,
               \/ UNCHANGED session
               \/ row[c] # NoRow /\ \E h, step, r : Goes(w, h, step, c, r, row[c])
        PROVE  FromAnExport' /\ ReadsAreCurrent'
    BY <1>0, <1>2, ReviewKept, ReadsGo
  <1>3. ASSUME NEW r \in Routers, NEW h, OpenPut(w, h, c, r) PROVE FromAnExport' /\ ReadsAreCurrent'
    BY <1>1, <1>2, <1>3 DEF OpenPut, System
  <1>4. ASSUME NEW r \in Routers, OpenApprove(w, c, r) PROVE FromAnExport' /\ ReadsAreCurrent'
    BY <1>1, <1>2, <1>4 DEF OpenApprove, System
  <1>5. ASSUME NEW r \in Routers, DeleteSecret(w, c, r) \/ Winbox(w, c, r)
        PROVE  FromAnExport' /\ ReadsAreCurrent'
    BY <1>1, <1>2, <1>5 DEF DeleteSecret, Winbox, System
  <1>6. ASSUME NEW r \in Routers, ImportSecret(w, c, r) PROVE FromAnExport' /\ ReadsAreCurrent'
    <2>1. PICK sync \in {"Pending", "Unverified"} :
              row' = [row EXCEPT ![c] = [router |-> r, status |-> "ended", date |-> "none",
                                         sync |-> sync, data |-> imports, stamp |-> 0]]
      BY <1>6 DEF ImportSecret
    <2> DEFINE new == [router |-> r, status |-> "ended", date |-> "none",
                       sync |-> sync, data |-> imports, stamp |-> 0]
    <2>2. new \in Row /\ new.data = imports /\ new.stamp = 0
      BY <1>0 DEF Row, Statuses, Dates, Syncs, TypeOK
    <2>3. row[c] = NoRow /\ approvals' = [approvals EXCEPT ![c] = {}] /\ UNCHANGED <<session, imports>>
      BY <1>6 DEF ImportSecret, System
    <2> HIDE DEF new
    <2> QED  BY <1>0, <2>1, <2>2, <2>3, ReviewNewRow DEF new
  <1>7. ASSUME NEW r \in Routers, AddCustomer(w, c, r) PROVE FromAnExport' /\ ReadsAreCurrent'
    <2> DEFINE new == [router |-> r, status |-> "open", date |-> "none", sync |-> "Pending",
                       data |-> imports, stamp |-> 0]
    <2>1. new \in Row /\ new.data = imports /\ new.stamp = 0
      BY <1>0 DEF Row, Statuses, Dates, Syncs, TypeOK
    <2>2. /\ row[c] = NoRow /\ approvals' = [approvals EXCEPT ![c] = {}] /\ UNCHANGED imports
          /\ row' = [row EXCEPT ![c] = new]
          /\ Goes(w, "add", "call", c, r, new) \/ UNCHANGED session
      BY <1>7 DEF AddCustomer, System
    <2> HIDE DEF new
    <2>3. \A v \in Workers : session'[v] \in Work =>
               \/ session[v] \in Work /\ session'[v].c = session[v].c /\ session'[v].row = session[v].row
               \/ session'[v].c = c /\ session'[v].row = new
      BY <1>0, <2>2 DEF Goes, TypeOK
    <2> QED  BY <1>0, <2>1, <2>2, <2>3, ReviewNewRow
  <1>8. ASSUME NEW r \in Routers, OpenReconcile(w, c, r) PROVE FromAnExport' /\ ReadsAreCurrent'
    <2>1. PICK step \in {"agrees", "differs"} : Goes(w, "reconcile", step, c, r, NoRow)
      BY <1>8 DEF OpenReconcile
    <2>2. session'[w] \notin Work /\ \A v \in Workers \ {w} : session'[v] = session[v]
      BY <1>0, <2>1 DEF Goes, TypeOK, Work
    <2>3. UNCHANGED <<row, imports, approvals>>  BY <1>8 DEF OpenReconcile, System
    <2> QED  BY <1>0, <1>1, <2>2, <2>3, ReviewKept
  <1>9. CASE OpenEdit(w, c)  BY <1>1, <1>2, <1>9 DEF OpenEdit, System
  <1>10. ASSUME NEW h, NEW new, ThenRouter(w, h, c, new),
                row[c] # NoRow => new \in Row /\ new.data = row[c].data /\ new.stamp = row[c].stamp
         PROVE  FromAnExport' /\ ReadsAreCurrent'
    <2>1. row[c] # NoRow /\ Saved(c, new, FALSE) /\ UNCHANGED <<imports, approvals>>
      BY <1>10 DEF ThenRouter, System
    <2>2. SameExport  BY <1>0, <1>10, <2>1, SavedExport
    <2> QED  BY <1>2, <1>10, <2>1, <2>2 DEF ThenRouter
  <1>11. ASSUME row[c] # NoRow, NEW st \in Statuses, NEW dt \in Dates
         PROVE  /\ [row[c] EXCEPT !.status = st, !.date = dt] \in Row
                /\ [row[c] EXCEPT !.status = st, !.date = dt].data = row[c].data
                /\ [row[c] EXCEPT !.status = st, !.date = dt].stamp = row[c].stamp
                /\ [row[c] EXCEPT !.status = st] \in Row
                /\ [row[c] EXCEPT !.status = st].data = row[c].data
                /\ [row[c] EXCEPT !.status = st].stamp = row[c].stamp
    <2>1. row[c] \in Row  BY <1>0, <1>11 DEF TypeOK
    <2> QED  BY <2>1 DEF Row
  <1>12. CASE ForceSuspend(w, c)
    <2>1. "suspended" \in Statuses /\ "none" \in Dates  BY DEF Statuses, Dates
    <2> QED  BY <1>10, <1>11, <1>12, <2>1 DEF ForceSuspend
  <1>13. CASE Reactivate(w, c)
    <2>1. "open" \in Statuses /\ "none" \in Dates  BY DEF Statuses, Dates
    <2> QED  BY <1>10, <1>11, <1>13, <2>1 DEF Reactivate
  <1>14. CASE Pay(w, c)
    <2>1. "open" \in Statuses /\ "ahead" \in Dates  BY DEF Statuses, Dates
    <2> QED  BY <1>10, <1>11, <1>14, <2>1 DEF Pay
  <1>15. ASSUME NEW h, OpenCutOff(w, h, c) PROVE FromAnExport' /\ ReadsAreCurrent'
    BY <1>1, <1>2, <1>15 DEF OpenCutOff, System
  <1>16. ~DeleteCustomer(w, c)  BY DEF DeleteCustomer, Starts
  <1>17. CASE Import(w, c)  BY <1>0, <1>17, ReviewImport
  <1> QED
    BY <1>3, <1>4, <1>5, <1>6, <1>7, <1>8, <1>9, <1>12, <1>13, <1>14, <1>15, <1>16, <1>17 DEF Opens

LEMMA DutyFixed == [Next]_vars => duty' = duty
  <1>1. ASSUME NEW w \in Threads, Continues(w) PROVE duty' = duty
    <2>1. CASE CallPut(w) \/ MarkPut(w) \/ CallApprove(w) \/ MarkApprove(w) \/ CommitEdit(w)
      BY <2>1 DEF CallPut, MarkPut, CallApprove, MarkApprove, CommitEdit, System
    <2>2. CASE CallSuspend(w) \/ CallRestore(w) \/ MarkRestore(w)
      BY <2>2 DEF CallSuspend, CallRestore, MarkRestore, System
    <2>3. CASE MarkSuspend(w) \/ CallDelete(w) \/ ReadReconcile(w)
      BY <2>3 DEF MarkSuspend, CallDelete, ReadReconcile, System
    <2> QED  BY <1>1, <2>1, <2>2, <2>3 DEF Continues
  <1>2. ASSUME NEW w \in Threads, NEW c \in Customers, Opens(w, c) PROVE duty' = duty
    <2>1. ASSUME NEW r, NEW h, OpenPut(w, h, c, r) \/ OpenCutOff(w, h, c) PROVE duty' = duty
      BY <2>1 DEF OpenPut, OpenCutOff, System
    <2>2. ASSUME NEW r, OpenApprove(w, c, r) \/ DeleteSecret(w, c, r) \/ ImportSecret(w, c, r)
          PROVE  duty' = duty
      BY <2>2 DEF OpenApprove, DeleteSecret, ImportSecret, System
    <2>3. ASSUME NEW r, AddCustomer(w, c, r) \/ Winbox(w, c, r) \/ OpenReconcile(w, c, r)
          PROVE  duty' = duty
      BY <2>3 DEF AddCustomer, Winbox, OpenReconcile, System
    <2>4. CASE OpenEdit(w, c) \/ ForceSuspend(w, c) \/ Reactivate(w, c) \/ Pay(w, c)
      BY <2>4 DEF OpenEdit, ForceSuspend, Reactivate, Pay, ThenRouter, System
    <2>5. CASE DeleteCustomer(w, c) \/ Import(w, c)  BY <2>5 DEF DeleteCustomer, Import, System
    <2> QED  BY <1>2, <2>1, <2>2, <2>3, <2>4, <2>5 DEF Opens
  <1>3. ASSUME NEW c \in Customers, Retry(c) \/ Purge(c) \/ Lapse(c) PROVE duty' = duty
    BY <1>3 DEF Retry, OpenRetry, CommitRetry, Purge, Lapse, System
  <1>4. CASE Restart  BY <1>4 DEF Restart
  <1>5. CASE UNCHANGED vars  BY <1>5 DEF vars
  <1> QED  BY <1>1, <1>2, <1>3, <1>4, <1>5 DEF Next

LEMMA ReviewNext == "import" \in Exclusive /\ BorderInv /\ ReviewInv /\ [Next]_vars => ReviewInv'
  <1> SUFFICES ASSUME "import" \in Exclusive, BorderInv, ReviewInv, [Next]_vars,
                      "deleteCustomer" \notin duty'
               PROVE  FromAnExport' /\ ReadsAreCurrent'
    BY DEF ReviewInv
  <1>0. TypeOK  BY DEF BorderInv
  <1>1. duty' = duty  BY DutyFixed
  <1>2. "deleteCustomer" \notin duty /\ FromAnExport /\ ReadsAreCurrent  BY <1>1 DEF ReviewInv
  <1>3. ASSUME NEW w \in Threads, Continues(w) PROVE FromAnExport' /\ ReadsAreCurrent'
    BY <1>2, <1>3, ReviewContinues DEF Workers
  <1>4. ASSUME NEW w \in Threads, NEW c \in Customers, Opens(w, c) PROVE FromAnExport' /\ ReadsAreCurrent'
    BY <1>2, <1>4, ReviewOpens DEF Workers
  <1>5. ASSUME NEW c \in Customers, Retry(c) \/ Purge(c) \/ Lapse(c)
        PROVE  FromAnExport' /\ ReadsAreCurrent'
    <2>0. Beat \in Workers  BY DEF Workers
    <2>1. UNCHANGED row => SameExport  BY DEF SameExport
    <2>2. CASE OpenRetry(c)
      BY <1>0, <1>2, <2>0, <2>1, <2>2, ReviewKept, ReadsGo DEF OpenRetry, System
    <2>3. CASE CommitRetry
      <3> DEFINE d == session[Beat].c
                 new == [row[d] EXCEPT !.sync = "Pending"]
      <3>1. session[Beat] \in Work  BY <1>0, <2>0, <2>3, AtType DEF CommitRetry
      <3>2. d \in Customers /\ row[d] # NoRow  BY <1>2, <2>0, <3>1 DEF Work, ReadsAreCurrent
      <3>3. new \in Row /\ new.data = row[d].data /\ new.stamp = row[d].stamp
        <4>1. row[d] \in Row  BY <1>0, <3>2 DEF TypeOK
        <4> QED  BY <4>1 DEF Row, Syncs
      <3>4. row' = [row EXCEPT ![d] = new]  BY <1>0, <2>3, <3>2 DEF CommitRetry, TypeOK
      <3>5. UNCHANGED <<imports, approvals>> /\ Ends(Beat)  BY <2>3 DEF CommitRetry, System
      <3> HIDE DEF new, d
      <3>6. SameExport  BY <1>0, <3>2, <3>3, <3>4, OneRowExport
      <3> QED  BY <1>0, <1>2, <2>0, <3>5, <3>6, ReviewKept, ReadsEnd
    <2>4. CASE Purge(c)
      <3>1. \A d \in Customers : approvals'[d] \subseteq approvals[d]
        BY <1>0, <2>4 DEF Purge, TypeOK
      <3>2. UNCHANGED <<row, imports, session>>  BY <2>4 DEF Purge, System
      <3> QED  BY <1>0, <1>2, <2>1, <3>1, <3>2, ReviewKept
    <2>5. CASE Lapse(c)
      <3> DEFINE new == [row[c] EXCEPT !.date = "past"]
      <3>1. row[c] # NoRow /\ row[c] \in Row  BY <1>0, <2>5 DEF Lapse, TypeOK
      <3>2. new \in Row /\ new.data = row[c].data /\ new.stamp = row[c].stamp
        BY <3>1 DEF Row, Dates
      <3>3. row' = [row EXCEPT ![c] = new]  BY <1>0, <2>5 DEF Lapse, TypeOK
      <3>4. UNCHANGED <<approvals, imports, session>>  BY <2>5 DEF Lapse, System
      <3> HIDE DEF new
      <3>5. SameExport  BY <1>0, <3>1, <3>2, <3>3, OneRowExport
      <3> QED  BY <1>0, <1>2, <3>4, <3>5, ReviewKept
    <2> QED  BY <1>5, <2>2, <2>3, <2>4, <2>5 DEF Retry
  <1>6. CASE Restart
    <2>1. UNCHANGED <<row, approvals, imports>> /\ \A w \in Workers : session'[w] = Idle
      BY <1>6 DEF Restart
    <2>2. SameExport  BY <2>1 DEF SameExport
    <2>3. \A w \in Workers : session'[w] \notin Work  BY <2>1, IdleIsNoWork
    <2> QED  BY <1>0, <1>2, <2>1, <2>2, <2>3, ReviewKept
  <1>7. CASE UNCHANGED vars
    <2>1. UNCHANGED <<row, approvals, imports, session>>  BY <1>7 DEF vars
    <2>2. SameExport  BY <2>1 DEF SameExport
    <2> QED  BY <1>0, <1>2, <2>1, <2>2, ReviewKept
  <1> QED  BY <1>3, <1>4, <1>5, <1>6, <1>7 DEF Next

\* As long as the old system's export is loaded while nothing else runs and no
\* account is deleted, a pairing that counts was given for the data the row now
\* holds: the import ages every approval, and no request outlives an import.
THEOREM PairingIsCurrent ==
    ASSUME "import" \in Exclusive
    PROVE  Spec => []("deleteCustomer" \notin duty => PairedIsReviewed)
  <1>1. Init => ReviewInv
    <2> SUFFICES ASSUME Init PROVE FromAnExport /\ ReadsAreCurrent  BY DEF ReviewInv
    <2>1. FromAnExport  BY DEF Init, FromAnExport
    <2>2. ReadsAreCurrent  BY IdleIsNoWork DEF Init, ReadsAreCurrent
    <2> QED  BY <2>1, <2>2
  <1>2. BorderInv /\ ReviewInv /\ [Next]_vars => ReviewInv'  BY ReviewNext
  <1>3. BorderInv /\ ReviewInv => ("deleteCustomer" \notin duty => PairedIsReviewed)
    <2> SUFFICES ASSUME FromAnExport, NEW c \in Customers, Paired(c)
                 PROVE  \E a \in approvals[c] : a.at >= row[c].stamp /\ a.of = row[c].data
      BY DEF ReviewInv, PairedIsReviewed
    <2> QED  BY DEF Paired, FromAnExport
  <1> QED  BY <1>1, <1>2, <1>3, BorderInvCorrect, PTL DEF Spec
-----------------------------------------------------------------------------
(* What the command suspended stays cut off *)

Cuts(l) == l.off \/ l.dropped
\* The handlers that suspend without the router's answer, restore a line, or
\* give the account to another router: those SuspendedIsCut names.
Restless == {"suspend", "reactivate", "pay", "edit", "bulkPush", "import", "deleteCustomer"} \cup Tools

RowsAreCut ==
    \A c \in Customers : row[c] # NoRow =>
        /\ row[c].router \in Routers
        /\ row[c].status = "suspended" => Cuts(line[row[c].router][c])
\* The command's request has cut the line off before it marks the row.
CutsBeforeMark ==
    \A w \in Workers : session[w] \in Work =>
        LET s == session[w] IN
        /\ row[s.c] # NoRow /\ s.row.router = row[s.c].router /\ s.r = row[s.c].router
        /\ s.h = "autoSuspend" /\ s.step = "mark" /\ s.out = "done" => Cuts(line[s.r][s.c])
CutInv == duty \cap Restless = {} => RowsAreCut /\ CutsBeforeMark

\* The rows keep their routers, and nothing that is cut off comes back.
SameRouters ==
    \A c \in Customers :
        /\ (row'[c] = NoRow) <=> (row[c] = NoRow)
        /\ row[c] # NoRow =>
              /\ row'[c].router = row[c].router
              /\ row'[c].status = "suspended" =>
                    row[c].status = "suspended" \/ Cuts(line'[row[c].router][c])
StaysCut == \A r \in Routers, c \in Customers : Cuts(line[r][c]) => Cuts(line'[r][c])

LEMMA CutKept ==
    ASSUME TypeOK, RowsAreCut, CutsBeforeMark, SameRouters, StaysCut,
           \A w \in Workers : session'[w] \in Work =>
               /\ \/ /\ session[w] \in Work /\ session'[w].c = session[w].c
                     /\ session'[w].r = session[w].r /\ session'[w].row = session[w].row
                  \/ /\ row[session'[w].c] # NoRow /\ session'[w].row = row[session'[w].c]
                     /\ session'[w].r = row[session'[w].c].router
               /\ session'[w].h = "autoSuspend" /\ session'[w].step = "mark" /\ session'[w].out = "done" =>
                     session'[w] = session[w] \/ Cuts(line'[session'[w].r][session'[w].c])
    PROVE  RowsAreCut' /\ CutsBeforeMark'
  <1>1. ASSUME NEW c \in Customers, row'[c] # NoRow
        PROVE  /\ row'[c].router \in Routers
               /\ row'[c].status = "suspended" => Cuts(line'[row'[c].router][c])
    BY <1>1 DEF RowsAreCut, SameRouters, StaysCut
  <1>2. ASSUME NEW w \in Workers, session'[w] \in Work
        PROVE  /\ row'[session'[w].c] # NoRow
               /\ session'[w].row.router = row'[session'[w].c].router
               /\ session'[w].r = row'[session'[w].c].router
               /\ session'[w].h = "autoSuspend" /\ session'[w].step = "mark" /\ session'[w].out = "done"
                     => Cuts(line'[session'[w].r][session'[w].c])
    <2>1. session'[w].c \in Customers  BY <1>2 DEF Work
    <2>2. /\ row'[session'[w].c] # NoRow
          /\ session'[w].row.router = row'[session'[w].c].router
          /\ session'[w].r = row'[session'[w].c].router
      BY <1>2, <2>1 DEF CutsBeforeMark, SameRouters
    <2>3. ASSUME session'[w] = session[w], session[w].h = "autoSuspend", session[w].step = "mark",
                 session[w].out = "done"
          PROVE  Cuts(line'[session[w].r][session[w].c])
      <3>1. Cuts(line[session[w].r][session[w].c]) /\ session[w].r = row[session[w].c].router
            /\ row[session[w].c] # NoRow
        BY <1>2, <2>3 DEF CutsBeforeMark
      <3>2. session[w].r \in Routers  BY <2>1, <2>3, <3>1 DEF RowsAreCut
      <3> QED  BY <2>1, <2>3, <3>1, <3>2 DEF StaysCut
    <2> QED  BY <1>2, <2>2, <2>3
  <1> QED  BY <1>1, <1>2 DEF RowsAreCut, CutsBeforeMark

LEMMA CutLines ==
    ASSUME NEW l \in Line, NEW p
    PROVE  /\ Cuts(l) => Cuts(Put(l, p))
           /\ \A m \in Suspensions(l) : Cuts(m)
  BY DEF Cuts, Put, Suspensions, Line

\* One line is written and stays cut off if it was.
LEMMA CutWrite ==
    ASSUME TypeOK, NEW r \in Routers, NEW c \in Customers, NEW l,
           Cuts(line[r][c]) => Cuts(l), line' = [line EXCEPT ![r][c] = l]
    PROVE  StaysCut /\ line'[r][c] = l
  BY DEF TypeOK, StaysCut

LEMMA CutRow ==
    ASSUME TypeOK, NEW c \in Customers, row[c] # NoRow, NEW new \in Row, new.router = row[c].router,
           new.status = "suspended" => row[c].status = "suspended" \/ Cuts(line'[row[c].router][c]),
           row' = [row EXCEPT ![c] = new]
    PROVE  SameRouters
  BY RowAssumption DEF TypeOK, SameRouters

LEMMA CutContinues ==
    ASSUME BorderInv, RowsAreCut, CutsBeforeMark, NEW w \in Workers, Continues(w) \/ CommitRetry,
           Continues(w) \/ w = Beat, duty \cap Restless = {}
    PROVE  RowsAreCut' /\ CutsBeforeMark'
  <1> DEFINE s == session[w]
  <1>0. TypeOK /\ OfDuty  BY DEF BorderInv
  <1>1. UNCHANGED line => StaysCut  BY DEF StaysCut
  <1>2. UNCHANGED row => SameRouters  BY DEF SameRouters
  <1>3. s \in Work => s.h \in {"push", "override", "approve", "autoSuspend", "cutBatch", "retry"}
    <2> SUFFICES ASSUME s \in Work
                 PROVE  s.h \in {"push", "override", "approve", "autoSuspend", "cutBatch", "retry"}
      OBVIOUS
    <2>1. s.h \in duty  BY <1>0, IdleIsNoWork DEF OfDuty
    <2>2. s.h \notin Restless /\ s.h \in Handlers  BY <2>1 DEF Work
    <2> QED  BY <2>2 DEF Restless, Tools, Handlers
  <1>4. ASSUME SameRouters, StaysCut, Ends(w) PROVE RowsAreCut' /\ CutsBeforeMark'
    <2>1. \A v \in Workers : session'[v] \in Work => session'[v] = session[v]
      BY <1>0, <1>4, IdleIsNoWork DEF Ends, TypeOK
    <2> QED  BY <1>0, <1>4, <2>1, CutKept
  <1>5. ASSUME SameRouters, StaysCut, s \in Work, NEW out, Answers(w, out),
               s.h = "autoSuspend" /\ out = "done" => Cuts(line'[s.r][s.c])
        PROVE  RowsAreCut' /\ CutsBeforeMark'
    <2>1. /\ session'[w] = [s EXCEPT !.step = "mark", !.out = out]
          /\ \A v \in Workers \ {w} : session'[v] = session[v]
      <3>1. session' = [session EXCEPT ![w] = [s EXCEPT !.step = "mark", !.out = out]]
        BY <1>0, <1>5 DEF Answers, TypeOK
      <3> QED  BY <1>0, <3>1 DEF TypeOK
    <2>2. /\ session'[w].c = s.c /\ session'[w].r = s.r /\ session'[w].row = s.row
          /\ session'[w].h = s.h /\ session'[w].out = out
      BY <1>5, <2>1 DEF Work
    <2>3. ASSUME NEW v \in Workers, session'[v] \in Work
          PROVE  /\ session[v] \in Work /\ session'[v].c = session[v].c
                 /\ session'[v].r = session[v].r /\ session'[v].row = session[v].row
                 /\ session'[v].h = "autoSuspend" /\ session'[v].step = "mark" /\ session'[v].out = "done" =>
                       session'[v] = session[v] \/ Cuts(line'[session'[v].r][session'[v].c])
      <3>1. CASE v = w  BY <1>5, <2>2, <3>1
      <3>2. CASE v # w  BY <2>1, <2>3, <3>2
      <3> QED  BY <3>1, <3>2
    <2> QED  BY <1>0, <1>5, <2>3, CutKept
  <1>6. ASSUME s \in Work
        PROVE  /\ s.c \in Customers /\ s.row \in Row /\ row[s.c] # NoRow /\ row[s.c] \in Row
               /\ s.r \in Routers /\ s.r = row[s.c].router /\ s.row.router = s.r
    <2>1. s.c \in Customers /\ s.row \in Row  BY <1>6 DEF Work
    <2>2. row[s.c] # NoRow /\ s.r = row[s.c].router /\ s.row.router = s.r
      BY <1>6 DEF CutsBeforeMark
    <2> QED  BY <1>0, <2>1, <2>2 DEF TypeOK, RowsAreCut
  <1>7. CASE CallPut(w)
    <2>1. s \in Work  BY <1>0, <1>7, AtType DEF CallPut
    <2>2. PICK out \in {"refused", "done", "failed"} : Answers(w, out)  BY <1>7 DEF CallPut
    <2>3. s.h # "autoSuspend"
      BY <1>0, <1>7, AtType DEF CallPut, Putters
    <2>4. StaysCut
      <3>1. CASE line' = [line EXCEPT ![s.r][s.c] = Put(@, ProfileOf(s.h))]
        <4>1. line' = [line EXCEPT ![s.r][s.c] = Put(line[s.r][s.c], ProfileOf(s.h))]
          BY <1>0, <1>6, <2>1, <3>1 DEF TypeOK
        <4>2. line[s.r][s.c] \in Line  BY <1>0, <1>6, <2>1 DEF TypeOK
        <4> DEFINE l == Put(line[s.r][s.c], ProfileOf(s.h))
        <4>3. Cuts(line[s.r][s.c]) => Cuts(l)  BY <4>2, CutLines
        <4>4. line' = [line EXCEPT ![s.r][s.c] = l]  BY <4>1
        <4> HIDE DEF l
        <4> QED  BY <1>0, <1>6, <2>1, <4>3, <4>4, CutWrite
      <3> QED  BY <1>1, <1>7, <3>1 DEF CallPut
    <2>5. UNCHANGED row  BY <1>7 DEF CallPut
    <2> QED  BY <1>2, <1>5, <2>1, <2>2, <2>3, <2>4, <2>5
  <1>8. CASE MarkPut(w)
    <2>1. s \in Work  BY <1>0, <1>8, AtType DEF MarkPut
    <2> DEFINE new == Marked(s.h, s.row, s.r, s.out, row[s.c])
    <2>2. new \in Row /\ new.router = row[s.c].router /\ new.status = row[s.c].status
      <3>1. row[s.c] \in Row /\ s.r = row[s.c].router  BY <1>6, <2>1
      <3>2. new \in Row  BY <1>6, <2>1, MarkedType
      <3>3. new.router = row[s.c].router /\ new.status = row[s.c].status
        BY <3>1 DEF Marked, Row
      <3> QED  BY <3>2, <3>3
    <2>3. row' = [row EXCEPT ![s.c] = new]  BY <1>0, <1>6, <1>8, <2>1 DEF MarkPut, TypeOK
    <2> HIDE DEF new
    <2>4. SameRouters  BY <1>0, <1>6, <2>1, <2>2, <2>3, CutRow
    <2>5. UNCHANGED line /\ Ends(w)  BY <1>8 DEF MarkPut
    <2> QED  BY <1>1, <1>4, <2>4, <2>5
  <1>9. CASE CallApprove(w)
    <2>1. s \in Work /\ s.h # "autoSuspend"  BY <1>0, <1>9, AtType DEF CallApprove
    <2>2. UNCHANGED <<row, line>> /\ (Ends(w) \/ \E out : Answers(w, out))
      BY <1>9 DEF CallApprove
    <2> QED  BY <1>1, <1>2, <1>4, <1>5, <2>1, <2>2
  <1>10. CASE MarkApprove(w)
    <2>1. s \in Work  BY <1>0, <1>10, AtType DEF MarkApprove
    <2> DEFINE new == [row[s.c] EXCEPT !.sync = "Synced"]
    <2>2. new \in Row /\ new.router = row[s.c].router /\ new.status = row[s.c].status
      BY <1>6, <2>1 DEF Row, Syncs
    <2>3. row' = [row EXCEPT ![s.c] = new]  BY <1>0, <1>6, <1>10, <2>1 DEF MarkApprove, TypeOK
    <2> HIDE DEF new
    <2>4. SameRouters  BY <1>0, <1>6, <2>1, <2>2, <2>3, CutRow
    <2>5. UNCHANGED line /\ Ends(w)  BY <1>10 DEF MarkApprove
    <2> QED  BY <1>1, <1>4, <2>4, <2>5
  <1>11. CASE CallSuspend(w)
    <2>1. s \in Work  BY <1>0, <1>11, AtType DEF CallSuspend
    <2>2. UNCHANGED row  BY <1>11 DEF CallSuspend
    <2>3. ASSUME NEW out, Answers(w, out), UNCHANGED line, s.h = "autoSuspend" => out # "done"
          PROVE  RowsAreCut' /\ CutsBeforeMark'
      BY <1>1, <1>2, <1>5, <2>1, <2>2, <2>3
    <2>4. ASSUME Answers(w, "done"), NEW l \in Suspensions(line[s.r][s.c]),
                 line' = [line EXCEPT ![s.r][s.c] = l]
          PROVE  RowsAreCut' /\ CutsBeforeMark'
      <3>1. Cuts(l)
        <4>1. line[s.r][s.c] \in Line  BY <1>0, <1>6, <2>1 DEF TypeOK
        <4> QED  BY <2>4, <4>1, CutLines
      <3>2. StaysCut /\ line'[s.r][s.c] = l  BY <1>0, <1>6, <2>1, <2>4, <3>1, CutWrite
      <3> QED  BY <1>2, <1>5, <2>1, <2>2, <2>4, <3>1, <3>2
    <2>5. \/ s.h = "autoSuspend" /\ Answers(w, "refused") /\ UNCHANGED line
          \/ s.h # "autoSuspend" /\ Answers(w, "done") /\ UNCHANGED line
          \/ Answers(w, "done") /\ \E l \in Suspensions(line[s.r][s.c]) :
                                     line' = [line EXCEPT ![s.r][s.c] = l]
          \/ Answers(w, "failed") /\ UNCHANGED line
      BY <1>11 DEF CallSuspend
    <2> QED  BY <2>3, <2>4, <2>5
  <1>12. CASE MarkSuspend(w)
    <2>1. s \in Work  BY <1>0, <1>12, AtType DEF MarkSuspend
    <2>2. UNCHANGED line /\ Ends(w)  BY <1>12 DEF MarkSuspend
    <2>3. SameRouters
      <3>1. CASE s.h = "autoSuspend" /\ s.out = "done"
        <4> DEFINE new == [s.row EXCEPT !.status = "suspended"]
                   staged == Staged(new, row[s.c], FALSE)
        <4>1. new \in Row /\ new.router = row[s.c].router
          BY <1>6, <2>1 DEF Row, Statuses
        <4>2. Saved(s.c, new, FALSE)  BY <1>12, <3>1 DEF MarkSuspend
        <4>3. Cuts(line'[row[s.c].router][s.c])
          <5>1. s.step = "mark"  BY <1>12 DEF MarkSuspend, At
          <5> QED  BY <1>6, <2>1, <2>2, <3>1, <5>1 DEF CutsBeforeMark
        <4>4. staged \in Row /\ staged.router = new.router
          <5> HIDE DEF new
          <5> QED  BY <4>1, StagedType DEF Staged, Row
        <4>5. row' = [row EXCEPT ![s.c] = staged]  BY <1>0, <1>6, <2>1, <4>2 DEF Saved, TypeOK
        <4> HIDE DEF new, staged
        <4> QED  BY <1>0, <1>6, <2>1, <4>1, <4>3, <4>4, <4>5, CutRow
      <3>2. CASE s.h = "autoSuspend" /\ s.out = "refused" /\ row[s.c] # NoRow
        <4> DEFINE new == [row[s.c] EXCEPT !.sync = "Blocked"]
        <4>1. new \in Row /\ new.router = row[s.c].router /\ new.status = row[s.c].status
          BY <1>6, <2>1 DEF Row, Syncs
        <4>2. row' = [row EXCEPT ![s.c].sync = "Blocked"]  BY <1>12, <3>2 DEF MarkSuspend
        <4>3. row' = [row EXCEPT ![s.c] = new]  BY <1>0, <4>2 DEF TypeOK
        <4> HIDE DEF new
        <4> QED  BY <1>0, <1>6, <2>1, <4>1, <4>3, CutRow
      <3>3. CASE ~(s.h = "autoSuspend" /\ s.out = "done")
                 /\ ~(s.h = "autoSuspend" /\ s.out = "refused" /\ row[s.c] # NoRow)
        <4>1. row' = row  BY <1>12, <3>3 DEF MarkSuspend
        <4> QED  BY <1>2, <4>1
      <3> QED  BY <3>1, <3>2, <3>3
    <2> QED  BY <1>1, <1>4, <2>2, <2>3
  <1>13. CASE CommitRetry /\ w = Beat
    <2>1. s \in Work  BY <1>0, <1>13, AtType DEF CommitRetry
    <2> DEFINE new == [row[s.c] EXCEPT !.sync = "Pending"]
    <2>2. new \in Row /\ new.router = row[s.c].router /\ new.status = row[s.c].status
      BY <1>6, <2>1 DEF Row, Syncs
    <2>3. row' = [row EXCEPT ![s.c] = new]  BY <1>0, <1>6, <1>13, <2>1 DEF CommitRetry, TypeOK
    <2> HIDE DEF new
    <2>4. SameRouters  BY <1>0, <1>6, <2>1, <2>2, <2>3, CutRow
    <2>5. UNCHANGED line /\ Ends(w)  BY <1>13 DEF CommitRetry
    <2> QED  BY <1>1, <1>4, <2>4, <2>5
  <1>14. CASE CommitEdit(w)
    <2>1. s \in Work /\ s.h = "edit"  BY <1>0, <1>14, AtType DEF CommitEdit
    <2> QED  BY <1>3, <2>1
  <1>15. CASE CallRestore(w) \/ MarkRestore(w)
    <2>1. s \in Work /\ s.h \in {"reactivate", "pay"}
      BY <1>0, <1>15, AtType DEF CallRestore, MarkRestore
    <2> QED  BY <1>3, <2>1
  <1>16. CASE CallDelete(w)
    <2>1. s \in Work /\ s.h = "deleteCustomer"  BY <1>0, <1>16, AtType DEF CallDelete
    <2> QED  BY <1>3, <2>1
  <1>17. CASE ReadReconcile(w)
    <2>1. s \in Compared /\ s.h = "reconcile" /\ s # Idle
      BY <1>0, <1>17, IdleIsNoWork DEF ReadReconcile, At, TypeOK, Work
    <2>2. "reconcile" \in duty  BY <1>0, <2>1 DEF OfDuty
    <2>3. "reconcile" \in Restless  BY DEF Restless, Tools
    <2> QED  BY <2>2, <2>3
  <1> QED
    BY <1>7, <1>8, <1>9, <1>10, <1>11, <1>12, <1>13, <1>14, <1>15, <1>16, <1>17 DEF Continues

LEMMA CutOpens ==
    ASSUME BorderInv, RowsAreCut, CutsBeforeMark, NEW w \in Workers, NEW c \in Customers,
           Opens(w, c) \/ OpenRetry(c), Opens(w, c) \/ w = Beat, duty \cap Restless = {}
    PROVE  RowsAreCut' /\ CutsBeforeMark'
  <1>0. TypeOK  BY DEF BorderInv
  <1>1. UNCHANGED line => StaysCut  BY DEF StaysCut
  <1>2. UNCHANGED row => SameRouters  BY DEF SameRouters
  <1>3. ASSUME row[c] # NoRow, NEW h, NEW step, NEW r, r = row[c].router,
               h = "autoSuspend" => step = "call", Goes(w, h, step, c, r, row[c]), UNCHANGED <<row, line>>
        PROVE  RowsAreCut' /\ CutsBeforeMark'
    <2>1. /\ session'[w] = [h |-> h, step |-> step, c |-> c, r |-> r, row |-> row[c], out |-> "none"]
          /\ \A v \in Workers \ {w} : session'[v] = session[v]
      BY <1>0, <1>3 DEF Goes, TypeOK
    <2>2. ASSUME NEW v \in Workers, session'[v] \in Work
          PROVE  /\ \/ /\ session[v] \in Work /\ session'[v].c = session[v].c
                       /\ session'[v].r = session[v].r /\ session'[v].row = session[v].row
                    \/ /\ row[session'[v].c] # NoRow /\ session'[v].row = row[session'[v].c]
                       /\ session'[v].r = row[session'[v].c].router
                 /\ session'[v].h = "autoSuspend" /\ session'[v].step = "mark" /\ session'[v].out = "done" =>
                       session'[v] = session[v] \/ Cuts(line'[session'[v].r][session'[v].c])
      <3>1. CASE v = w  BY <1>3, <2>1, <3>1
      <3>2. CASE v # w  BY <2>1, <2>2, <3>2
      <3> QED  BY <3>1, <3>2
    <2> QED  BY <1>0, <1>1, <1>2, <1>3, <2>2, CutKept
  <1>4. ASSUME NEW h \in Restless, Starts(w, h) PROVE FALSE  BY <1>4 DEF Starts
  <1>5. ASSUME NEW r \in Routers, NEW h \in {"push", "override", "bulkPush", "autofix"},
               OpenPut(w, h, c, r)
        PROVE  RowsAreCut' /\ CutsBeforeMark'
    <2>1. h \in {"push", "override"}
      BY <1>4, <1>5 DEF OpenPut, Restless, Tools
    <2> QED  BY <1>3, <1>5, <2>1 DEF OpenPut, MayPut
  <1>6. ASSUME NEW r \in Routers, OpenApprove(w, c, r) PROVE RowsAreCut' /\ CutsBeforeMark'
    BY <1>3, <1>6 DEF OpenApprove
  <1>7. ASSUME NEW r \in Routers, ImportSecret(w, c, r) PROVE RowsAreCut' /\ CutsBeforeMark'
    <2>1. PICK sync \in {"Pending", "Unverified"} :
              row' = [row EXCEPT ![c] = [router |-> r, status |-> "ended", date |-> "none",
                                         sync |-> sync, data |-> imports, stamp |-> 0]]
      BY <1>7 DEF ImportSecret
    <2>2. /\ row[c] = NoRow /\ row'[c].router = r /\ row'[c].status = "ended"
          /\ \A d \in Customers \ {c} : row'[d] = row[d]
      BY <1>0, <1>7, <2>1 DEF TypeOK, ImportSecret
    <2>3. UNCHANGED <<line, session>>  BY <1>7 DEF ImportSecret
    <2>4. RowsAreCut'  BY <2>2, <2>3 DEF RowsAreCut
    <2>5. ASSUME NEW v \in Workers, session[v] \in Work
          PROVE  session[v].c \in Customers \ {c}
      BY <2>2, <2>5 DEF CutsBeforeMark, Work
    <2>6. CutsBeforeMark'  BY <2>2, <2>3, <2>5 DEF CutsBeforeMark
    <2> QED  BY <2>4, <2>6
  <1>8. ASSUME NEW r \in Routers, \/ DeleteSecret(w, c, r) \/ AddCustomer(w, c, r)
                                 \/ Winbox(w, c, r) \/ OpenReconcile(w, c, r)
        PROVE  FALSE
    BY <1>4, <1>8 DEF DeleteSecret, AddCustomer, Winbox, OpenReconcile, Restless, Tools
  <1>9. ASSUME \/ OpenEdit(w, c) \/ ForceSuspend(w, c) \/ Reactivate(w, c) \/ Pay(w, c)
               \/ DeleteCustomer(w, c) \/ Import(w, c)
        PROVE  FALSE
    BY <1>4, <1>9 DEF OpenEdit, ForceSuspend, Reactivate, Pay, ThenRouter, DeleteCustomer, Import, Restless
  <1>10. ASSUME NEW h \in {"autoSuspend", "cutBatch"}, OpenCutOff(w, h, c)
         PROVE  RowsAreCut' /\ CutsBeforeMark'
    BY <1>3, <1>10 DEF OpenCutOff
  <1>11. CASE OpenRetry(c) /\ w = Beat  BY <1>3, <1>11 DEF OpenRetry
  <1> QED  BY <1>5, <1>6, <1>7, <1>8, <1>9, <1>10, <1>11 DEF Opens

LEMMA CutNext == BorderInv /\ CutInv /\ [Next]_vars => CutInv'
  <1> SUFFICES ASSUME BorderInv, CutInv, [Next]_vars, duty' \cap Restless = {}
               PROVE  RowsAreCut' /\ CutsBeforeMark'
    BY DEF CutInv
  <1>0. TypeOK  BY DEF BorderInv
  <1>1. duty \cap Restless = {} /\ RowsAreCut /\ CutsBeforeMark  BY DutyFixed DEF CutInv
  <1>2. ASSUME NEW w \in Threads, Continues(w) PROVE RowsAreCut' /\ CutsBeforeMark'
    BY <1>1, <1>2, CutContinues DEF Workers
  <1>3. ASSUME NEW w \in Threads, NEW c \in Customers, Opens(w, c) PROVE RowsAreCut' /\ CutsBeforeMark'
    BY <1>1, <1>3, CutOpens DEF Workers
  <1>4. ASSUME NEW c \in Customers, Retry(c) \/ Purge(c) \/ Lapse(c)
        PROVE  RowsAreCut' /\ CutsBeforeMark'
    <2>0. Beat \in Workers  BY DEF Workers
    <2>1. CASE OpenRetry(c)  BY <1>1, <2>0, <2>1, CutOpens
    <2>2. CASE CommitRetry  BY <1>1, <2>0, <2>2, CutContinues
    <2>3. CASE Purge(c)  BY <1>1, <2>3 DEF Purge, RowsAreCut, CutsBeforeMark
    <2>4. CASE Lapse(c)
      <3> DEFINE new == [row[c] EXCEPT !.date = "past"]
      <3>1. row[c] # NoRow /\ row[c] \in Row /\ UNCHANGED <<line, session>>
        BY <1>0, <2>4 DEF Lapse, TypeOK
      <3>2. new \in Row /\ new.router = row[c].router /\ new.status = row[c].status
        BY <3>1 DEF Row, Dates
      <3>3. row' = [row EXCEPT ![c] = new]  BY <1>0, <2>4 DEF Lapse, TypeOK
      <3> HIDE DEF new
      <3>4. SameRouters  BY <1>0, <3>1, <3>2, <3>3, CutRow
      <3>5. StaysCut  BY <3>1 DEF StaysCut
      <3> QED  BY <1>0, <1>1, <3>1, <3>4, <3>5, CutKept
    <2> QED  BY <1>4, <2>1, <2>2, <2>3, <2>4 DEF Retry
  <1>5. CASE Restart
    <2>1. UNCHANGED <<row, line>> /\ \A w \in Workers : session'[w] \notin Work
      BY <1>5, IdleIsNoWork DEF Restart
    <2>2. SameRouters /\ StaysCut  BY <2>1 DEF SameRouters, StaysCut
    <2> QED  BY <1>0, <1>1, <2>1, <2>2, CutKept
  <1>6. CASE UNCHANGED vars  BY <1>1, <1>6 DEF vars, RowsAreCut, CutsBeforeMark
  <1> QED  BY <1>2, <1>3, <1>4, <1>5, <1>6 DEF Next

\* While nobody suspends, restores or moves an account by hand, what the command
\* suspended stays cut off at its router, whatever pushes, overrides and
\* retries come in between and wherever a restart falls.
THEOREM SuspensionHolds == Spec => []SuspendedIsCut
  <1>1. Init => CutInv
    <2> SUFFICES ASSUME Init PROVE RowsAreCut /\ CutsBeforeMark  BY DEF CutInv
    <2>1. RowsAreCut  BY DEF Init, RowsAreCut
    <2>2. CutsBeforeMark  BY IdleIsNoWork DEF Init, CutsBeforeMark
    <2> QED  BY <2>1, <2>2
  <1>2. BorderInv /\ CutInv /\ [Next]_vars => CutInv'  BY CutNext
  <1>3. CutInv => SuspendedIsCut  BY DEF CutInv, SuspendedIsCut, RowsAreCut, Cuts, Restless
  <1> QED  BY <1>1, <1>2, <1>3, BorderInvCorrect, PTL DEF Spec
-----------------------------------------------------------------------------
(* An account marked Synced has its secret on its own router *)

\* The handlers that remove a secret or a row: those SyncedIsThere names.
Removers == {"delete", "winbox", "deleteCustomer"}
\* Handlers that may have a router in hand that is not the one of the row read.
Free == {"edit", "bulkPush", "autofix"}
\* Handlers whose answer "done" says that the secret is on the router.
Finders == Putters \cup {"autoSuspend"}
\* Edits and imports run while no other request does.
Undisturbed == {"edit", "import"} \subseteq Exclusive

\* A row, as it is or as somebody read it, is not Synced or has its secret.
Good(x, c, lines) ==
    x # NoRow /\ x.sync = "Synced" /\ x.router # NoRouter => lines[x.router][c].there
\* What a request knows of the row it has read, of the router it works on, and
\* of the row it will mark.
Seen(s, rows, lines) ==
    /\ rows[s.c] # NoRow
    /\ Good(s.row, s.c, lines)
    /\ s.h \in Finders \cup {"approve"} => s.r \in Routers
    /\ s.step = "mark" /\ (s.h = "approve" \/ (s.h \in Finders /\ s.out = "done")) => lines[s.r][s.c].there
    /\ s.h \in {"approve", "reconcile"} =>
          rows[s.c].router \in {NoRouter, s.r} \/ lines[rows[s.c].router][s.c].there
    /\ s.h \notin Free => s.r = s.row.router
    /\ s.h = "edit" => s.row.router = rows[s.c].router

RowsAreThere  == \A c \in Customers : Good(row[c], c, line)
ReadsAreThere == \A w \in Workers : session[w] \in Work => Seen(session[w], row, line)
AgreedIsThere ==
    \A w \in Workers : session[w] \in Compared /\ session[w].step = "agrees" =>
        line[session[w].r][session[w].c].there
Alone ==
    \A w \in Workers : session[w] # Idle /\ session[w].h \in Exclusive =>
        \A v \in Workers \ {w} : session[v] = Idle
There    == RowsAreThere /\ ReadsAreThere /\ AgreedIsThere /\ Alone
ThereInv == duty \cap Removers = {} => There

\* No secret goes away; a row stays, on its router or on one that has the secret.
LinesGrow(old, new) == \A r \in Routers, c \in Customers : old[r][c].there => new[r][c].there
RowsSettle(old, new, lines) ==
    \A c \in Customers : old[c] # NoRow =>
        /\ new[c] # NoRow
        /\ \/ new[c].router = old[c].router
           \/ new[c].router \in Routers /\ lines[new[c].router][c].there

LEMMA GoodKept ==
    ASSUME NEW x \in Row, NEW c \in Customers, NEW old, NEW new, LinesGrow(old, new), Good(x, c, old)
    PROVE  Good(x, c, new)
  BY DEF Good, LinesGrow, Row

LEMMA SeenKept ==
    ASSUME NEW s \in Work, NEW rows \in [Customers -> Row \cup {NoRow}], NEW new,
           NEW old, NEW lines, LinesGrow(old, lines), RowsSettle(rows, new, lines),
           s.h = "edit" => new[s.c].router = rows[s.c].router,
           Seen(s, rows, old)
    PROVE  Seen(s, new, lines)
  <1>1. s.c \in Customers /\ s.row \in Row /\ s.r \in Routers \cup {NoRouter} /\ s.h \in Handlers
    BY DEF Work
  <1>2. rows[s.c] # NoRow /\ rows[s.c] \in Row  BY <1>1 DEF Seen
  <1>3. new[s.c] # NoRow /\ Good(s.row, s.c, lines)
    <2>1. Good(s.row, s.c, lines)  BY <1>1, GoodKept DEF Seen
    <2> QED  BY <1>1, <1>2, <2>1 DEF RowsSettle
  <1>4. /\ s.h \in Finders \cup {"approve"} => s.r \in Routers
        /\ s.h \notin Free => s.r = s.row.router
    BY DEF Seen
  <1>5. s.step = "mark" /\ (s.h = "approve" \/ (s.h \in Finders /\ s.out = "done")) => lines[s.r][s.c].there
    BY <1>1, <1>4 DEF Seen, LinesGrow
  <1>6. s.h \in {"approve", "reconcile"} =>
           new[s.c].router \in {NoRouter, s.r} \/ lines[new[s.c].router][s.c].there
    <2> SUFFICES ASSUME s.h \in {"approve", "reconcile"}
                 PROVE  new[s.c].router \in {NoRouter, s.r} \/ lines[new[s.c].router][s.c].there
      OBVIOUS
    <2>1. rows[s.c].router \in {NoRouter, s.r} \/ old[rows[s.c].router][s.c].there  BY DEF Seen
    <2>2. rows[s.c].router \in Routers \cup {NoRouter}  BY <1>2 DEF Row
    <2> QED  BY <1>1, <1>2, <2>1, <2>2 DEF RowsSettle, LinesGrow
  <1>7. s.h = "edit" => s.row.router = new[s.c].router  BY DEF Seen
  <1> QED  BY <1>3, <1>4, <1>5, <1>6, <1>7 DEF Seen

\* What a step leaves when the rows it leaves are good.
LEMMA ThereKept ==
    ASSUME BorderInv, TypeOK', There, RowsAreThere', LinesGrow(line, line'), UNCHANGED duty,
           \A v \in Workers :
               \/ session'[v] = Idle
               \/ /\ session'[v] = session[v]
                  /\ RowsSettle(row, row', line')
                  /\ session[v] \in Work /\ session[v].h = "edit" =>
                        row'[session[v].c].router = row[session[v].c].router
               \/ session'[v] \in Work /\ Seen(session'[v], row', line')
               \/ session'[v] \in Compared /\
                     (session'[v].step = "agrees" => line'[session'[v].r][session'[v].c].there),
           \A v \in Workers : session'[v] # Idle =>
               \/ session[v] # Idle /\ session'[v].h = session[v].h
               \/ /\ Starts(v, session'[v].h)
                  /\ \A u \in Workers \ {v} : session'[u] = session[u]
    PROVE  There'
  <1>0. TypeOK  BY DEF BorderInv
  <1>1. Alone'
    <2> SUFFICES ASSUME NEW w \in Workers, session'[w] # Idle, session'[w].h \in Exclusive,
                        NEW v \in Workers \ {w}, session'[v] # Idle
                 PROVE  FALSE
      BY DEF Alone
    <2>1. CASE session[w] # Idle /\ session'[w].h = session[w].h
                /\ session[v] # Idle /\ session'[v].h = session[v].h
      BY <2>1 DEF There, Alone
    <2>2. CASE Starts(w, session'[w].h) /\ \A u \in Workers \ {w} : session'[u] = session[u]
      BY <2>2 DEF Starts
    <2>3. CASE Starts(v, session'[v].h) /\ \A u \in Workers \ {v} : session'[u] = session[u]
      BY <2>3 DEF Starts
    <2> QED  BY <2>1, <2>2, <2>3
  <1>2. \A x \in Work : x \notin Compared
    BY DEF Work, Compared
  <1>3. ASSUME NEW v \in Workers, session'[v] \in Work PROVE Seen(session'[v], row', line')
    <2>1. session'[v] # Idle  BY <1>3, IdleIsNoWork
    <2>2. CASE /\ session'[v] = session[v]
               /\ RowsSettle(row, row', line')
               /\ session[v] \in Work /\ session[v].h = "edit" =>
                     row'[session[v].c].router = row[session[v].c].router
      <3>1. Seen(session[v], row, line)  BY <1>3, <2>2 DEF There, ReadsAreThere
      <3>2. row \in [Customers -> Row \cup {NoRow}]  BY <1>0 DEF TypeOK
      <3>3. session[v] \in Work  BY <1>3, <2>2
      <3> QED  BY <2>2, <3>1, <3>2, <3>3, SeenKept
    <2> QED  BY <1>2, <1>3, <2>1, <2>2
  <1>4. ASSUME NEW v \in Workers, session'[v] \in Compared, session'[v].step = "agrees"
        PROVE  line'[session'[v].r][session'[v].c].there
    <2>1. session'[v] # Idle  BY <1>4, IdleIsNoWork
    <2>2. CASE session'[v] = session[v]
      BY <1>4, <2>2 DEF There, AgreedIsThere, LinesGrow, Compared
    <2> QED  BY <1>2, <1>4, <2>1, <2>2
  <1> QED  BY <1>1, <1>3, <1>4 DEF There, ReadsAreThere, AgreedIsThere

\* One line is written and keeps its secret if it had one.
LEMMA WriteGrows ==
    ASSUME TypeOK, NEW r \in Routers \cup {NoRouter}, NEW c \in Customers, NEW l,
           r \in Routers => (line[r][c].there => l.there),
           line' = [line EXCEPT ![r][c] = l]
    PROVE  LinesGrow(line, line') /\ (r \in Routers => line'[r][c] = l)
  BY DEF TypeOK, LinesGrow

\* One row is written, and is good.
LEMMA OneRowIsThere ==
    ASSUME TypeOK, RowsAreThere, LinesGrow(line, line'), NEW c \in Customers, NEW new \in Row,
           Good(new, c, line'), row' = [row EXCEPT ![c] = new]
    PROVE  /\ RowsAreThere'
           /\ row'[c] = new /\ \A d \in Customers \ {c} : row'[d] = row[d]
  <1>1. row'[c] = new /\ \A d \in Customers \ {c} : row'[d] = row[d]  BY DEF TypeOK
  <1>2. ASSUME NEW d \in Customers PROVE Good(row'[d], d, line')
    <2>1. CASE d = c  BY <1>1, <2>1
    <2>2. CASE d # c
      <3>1. row[d] \in Row \cup {NoRow} /\ Good(row[d], d, line)  BY DEF TypeOK, RowsAreThere
      <3>2. CASE row[d] = NoRow  BY <1>1, <2>2, <3>2 DEF Good
      <3>3. CASE row[d] \in Row  BY <1>1, <2>2, <3>1, <3>3, GoodKept
      <3> QED  BY <3>1, <3>2, <3>3
    <2> QED  BY <2>1, <2>2
  <1> QED  BY <1>1, <1>2 DEF RowsAreThere

LEMMA SameRowsAreThere ==
    ASSUME TypeOK, RowsAreThere, LinesGrow(line, line'), UNCHANGED row
    PROVE  RowsAreThere' /\ RowsSettle(row, row', line')
  <1>1. ASSUME NEW d \in Customers PROVE Good(row'[d], d, line')
    <2>1. row[d] \in Row \cup {NoRow} /\ Good(row[d], d, line)  BY DEF TypeOK, RowsAreThere
    <2>2. CASE row[d] = NoRow  BY <2>2 DEF Good
    <2>3. CASE row[d] \in Row  BY <2>1, <2>3, GoodKept
    <2> QED  BY <2>1, <2>2, <2>3
  <1> QED  BY <1>1 DEF RowsAreThere, RowsSettle

\* Nobody else is in the middle of an edit while a worker does something, and
\* nobody else does anything while an exclusive handler is at work.
LEMMA NobodyEdits ==
    ASSUME Undisturbed, Alone, NEW w \in Workers, NEW h, session[w] # Idle \/ Starts(w, h)
    PROVE  /\ \A v \in Workers \ {w} : session[v] # Idle => session[v].h # "edit"
           /\ Starts(w, h) /\ h \in Exclusive => \A v \in Workers : session[v] = Idle
           /\ session[w] # Idle /\ session[w].h \in Exclusive =>
                 \A v \in Workers \ {w} : session[v] = Idle
  BY DEF Undisturbed, Alone, Starts

\* The handler's session ends.
LEMMA ThereEnds ==
    ASSUME Undisturbed, BorderInv, TypeOK', There, RowsAreThere', LinesGrow(line, line'), UNCHANGED duty,
           NEW w \in Workers, session[w] # Idle, Ends(w),
           \/ RowsSettle(row, row', line')
           \/ \A v \in Workers \ {w} : session[v] = Idle
    PROVE  There'
  <1>0. TypeOK /\ Alone  BY DEF BorderInv, There
  <1>1. session'[w] = Idle /\ \A v \in Workers \ {w} : session'[v] = session[v]
    BY <1>0 DEF TypeOK, Ends
  <1>2. \A v \in Workers \ {w} : session[v] # Idle => session[v].h # "edit"
    BY <1>0, NobodyEdits
  <1>3. \A v \in Workers :
            \/ session'[v] = Idle
            \/ /\ session'[v] = session[v]
               /\ RowsSettle(row, row', line')
               /\ session[v] \in Work /\ session[v].h = "edit" =>
                     row'[session[v].c].router = row[session[v].c].router
    BY <1>1, <1>2, IdleIsNoWork
  <1>4. \A v \in Workers : session'[v] # Idle => session[v] # Idle /\ session'[v].h = session[v].h
    BY <1>1
  <1> QED  BY <1>3, <1>4, ThereKept

\* The router has answered.
LEMMA ThereAnswers ==
    ASSUME Undisturbed, BorderInv, TypeOK', There, LinesGrow(line, line'), UNCHANGED <<row, duty>>,
           NEW w \in Workers, session[w] \in Work, NEW out \in {"none", "done", "refused", "failed"},
           Answers(w, out),
           session[w].h = "approve" \/ (session[w].h \in Finders /\ out = "done") =>
               line'[session[w].r][session[w].c].there
    PROVE  There'
  <1> DEFINE s == session[w]
             t == [s EXCEPT !.step = "mark", !.out = out]
  <1>0. TypeOK /\ Alone /\ RowsAreThere /\ ReadsAreThere  BY DEF BorderInv, There
  <1>1. session' = [session EXCEPT ![w] = t]  BY <1>0 DEF Answers, TypeOK
  <1>2. session'[w] = t /\ \A v \in Workers \ {w} : session'[v] = session[v]
    BY <1>0, <1>1 DEF TypeOK
  <1>3. /\ t \in Work /\ s # Idle /\ t.h = s.h /\ t.c = s.c /\ t.r = s.r /\ t.row = s.row
        /\ t.step = "mark" /\ t.out = out
    BY AnsweredType, IdleIsNoWork DEF Work
  <1>4. RowsAreThere' /\ RowsSettle(row, row', line')  BY <1>0, SameRowsAreThere
  <1>5. Seen(t, row', line')
    <2>1. Seen(s, row', line')
      <3>1. Seen(s, row, line)  BY <1>0 DEF ReadsAreThere
      <3>2. row \in [Customers -> Row \cup {NoRow}]  BY <1>0 DEF TypeOK
      <3> HIDE DEF s
      <3>3. s \in Work  BY DEF s
      <3> QED  BY <1>4, <3>1, <3>2, <3>3, SeenKept
    <2> HIDE DEF t
    <2> QED  BY <1>3, <2>1 DEF Seen
  <1> HIDE DEF t
  <1>6. \A v \in Workers \ {w} : session[v] # Idle => session[v].h # "edit"
    BY <1>0, <1>3, NobodyEdits
  <1>7. \A v \in Workers :
            \/ /\ session'[v] = session[v]
               /\ RowsSettle(row, row', line')
               /\ session[v] \in Work /\ session[v].h = "edit" =>
                     row'[session[v].c].router = row[session[v].c].router
            \/ session'[v] \in Work /\ Seen(session'[v], row', line')
    BY <1>2, <1>3, <1>4, <1>5
  <1>8. \A v \in Workers : session'[v] # Idle => session[v] # Idle /\ session'[v].h = session[v].h
    BY <1>2, <1>3
  <1> QED  BY <1>4, <1>7, <1>8, ThereKept

\* A handler has started: what the others know stays true.
LEMMA ThereStarts ==
    ASSUME Undisturbed, BorderInv, TypeOK', There, RowsAreThere', LinesGrow(line, line'),
           RowsSettle(row, row', line'), UNCHANGED duty,
           NEW w \in Workers, NEW h, Starts(w, h),
           \A v \in Workers \ {w} : session'[v] = session[v],
           \/ session'[w] = Idle
           \/ /\ session'[w].h = h
              /\ \/ session'[w] \in Work /\ Seen(session'[w], row', line')
                 \/ session'[w] \in Compared /\
                       (session'[w].step = "agrees" => line'[session'[w].r][session'[w].c].there)
    PROVE  There'
  <1>0. Alone  BY DEF There
  <1>1. \A v \in Workers \ {w} : session[v] # Idle => session[v].h # "edit"
    BY <1>0, NobodyEdits
  <1>2. \A v \in Workers \ {w} :
            \/ session'[v] = Idle
            \/ /\ session'[v] = session[v]
               /\ RowsSettle(row, row', line')
               /\ session[v] \in Work /\ session[v].h = "edit" =>
                     row'[session[v].c].router = row[session[v].c].router
    BY <1>1, IdleIsNoWork
  <1>3. \A v \in Workers : session'[v] # Idle =>
            \/ session[v] # Idle /\ session'[v].h = session[v].h
            \/ /\ Starts(v, session'[v].h)
               /\ \A u \in Workers \ {v} : session'[u] = session[u]
    OBVIOUS
  <1>4. \A v \in Workers :
            \/ session'[v] = Idle
            \/ /\ session'[v] = session[v]
               /\ RowsSettle(row, row', line')
               /\ session[v] \in Work /\ session[v].h = "edit" =>
                     row'[session[v].c].router = row[session[v].c].router
            \/ session'[v] \in Work /\ Seen(session'[v], row', line')
            \/ session'[v] \in Compared /\
                  (session'[v].step = "agrees" => line'[session'[v].r][session'[v].c].there)
    BY <1>2
  <1> QED  BY <1>3, <1>4, ThereKept

LEMMA LineKeepsSecret ==
    ASSUME NEW l \in Line, NEW p
    PROVE  /\ Put(l, p).there
           /\ l.there => Enabled(l).there /\ Restored(l).there
           /\ \A m \in Suspensions(l) : l.there => m.there
  <1>1. Put(l, p).there  BY DEF Put, Line
  <1>2. Enabled(l).there = l.there /\ Restored(l).there = l.there
    BY DEF Enabled, Restored, Line
  <1>3. \A m \in Suspensions(l) : m.there = l.there  BY DEF Suspensions, Line
  <1> QED  BY <1>1, <1>2, <1>3

\* The row of a request is good, whatever mark_synced and the command that
\* reconciles do to it.
LEMMA MarkedIsThere ==
    ASSUME NEW s \in Work, s.h \in Putters, NEW now \in Row, Good(now, s.c, line),
           s.r \in Routers, s.out = "done" => line[s.r][s.c].there,
           s.h = "reconcile" => now.router \in {NoRouter, s.r} \/ line[now.router][s.c].there
    PROVE  LET new == Marked(s.h, s.row, s.r, s.out, now) IN
           /\ new \in Row
           /\ Good(new, s.c, line)
           /\ new.router = now.router \/ (s.h # "reconcile" /\ s.out = "done" /\ new.router = s.r)
  <1> DEFINE new == Marked(s.h, s.row, s.r, s.out, now)
  <1>1. CASE s.out = "refused" /\ s.h # "add"
    <2>1. new = [now EXCEPT !.sync = "Blocked"]  BY <1>1 DEF Marked
    <2> QED  BY <2>1 DEF Row, Syncs, Good
  <1>2. CASE ~(s.out = "refused" /\ s.h # "add") /\ s.out # "done" /\ s.h # "reconcile"
    <2>1. new = [now EXCEPT !.sync = "Failed"]  BY <1>2 DEF Marked
    <2> QED  BY <2>1 DEF Row, Syncs, Good
  <1>3. CASE s.out = "done" /\ s.h # "reconcile"
    <2>1. new = now \/ new = [now EXCEPT !.sync = "Synced", !.router = s.r]  BY <1>3 DEF Marked
    <2>2. CASE new = now  BY <2>2
    <2>3. CASE new = [now EXCEPT !.sync = "Synced", !.router = s.r]
      <3>1. new \in Row /\ new.router = s.r  BY <2>3 DEF Row, Syncs
      <3> QED  BY <1>3, <3>1 DEF Good
    <2> QED  BY <2>1, <2>2, <2>3
  <1>4. CASE s.out # "refused" /\ s.h = "reconcile"
    <2>1. new = now \/ (s.out = "done" /\ new = [now EXCEPT !.sync = "Synced"])  BY <1>4 DEF Marked
    <2>2. CASE new = now  BY <2>2
    <2>3. CASE s.out = "done" /\ new = [now EXCEPT !.sync = "Synced"]
      <3>1. new \in Row /\ new.router = now.router  BY <2>3 DEF Row, Syncs
      <3> QED  BY <1>4, <2>3, <3>1 DEF Good
    <2> QED  BY <2>1, <2>2, <2>3
  <1> QED  BY <1>1, <1>2, <1>3, <1>4

\* A row saved as it was read, on the router it has, is good.
LEMMA StagedIsThere ==
    ASSUME NEW new \in Row, NEW old \in Row, NEW renamed \in BOOLEAN, NEW c,
           new.router = old.router => Good(new, c, line)
    PROVE  LET x == Staged(new, old, renamed) IN
           x \in Row /\ x.router = new.router /\ Good(x, c, line)
  <1> DEFINE x == Staged(new, old, renamed)
  <1>1. x \in Row  BY StagedType
  <1>2. x.router = new.router /\ (x = new \/ x.sync = "Pending")
    BY DEF Staged, Row
  <1>3. Good(x, c, line)
    <2>1. CASE x.sync = "Pending"
      <3> HIDE DEF x
      <3> QED  BY <2>1 DEF Good
    <2>2. CASE new.router = NoRouter \/ new.sync \in {"Blocked", "Failed"}
      <3>1. x = new  BY <2>2 DEF Staged
      <3> HIDE DEF x
      <3> QED  BY <2>2, <3>1 DEF Good
    <2>3. CASE ~(new.router = NoRouter \/ new.sync \in {"Blocked", "Failed"}) /\ x.sync # "Pending"
      <3>1. x = new  BY <1>2, <2>3
      <3>2. new.router = old.router
        BY <2>3 DEF Staged, Row
      <3> HIDE DEF x
      <3> QED  BY <3>1, <3>2
    <2> QED  BY <2>1, <2>2, <2>3
  <1> QED  BY <1>1, <1>2, <1>3

LEMMA ThereContinues ==
    ASSUME Undisturbed, BorderInv, TypeOK', There, duty \cap Removers = {}, UNCHANGED duty,
           NEW w \in Workers, Continues(w) \/ CommitRetry, Continues(w) \/ w = Beat
    PROVE  There'
  <1> DEFINE s == session[w]
  <1>0. /\ TypeOK /\ OfDuty
        /\ RowsAreThere /\ ReadsAreThere /\ AgreedIsThere /\ Alone
    BY DEF BorderInv, There
  <1>1. UNCHANGED line => LinesGrow(line, line')  BY DEF LinesGrow
  <1>2. ASSUME s \in Work
        PROVE  /\ s.c \in Customers /\ s.row \in Row /\ row[s.c] # NoRow /\ row[s.c] \in Row
               /\ s.r \in Routers \cup {NoRouter} /\ s # Idle /\ s.h \in duty
               /\ Seen(s, row, line) /\ Good(row[s.c], s.c, line) /\ Good(s.row, s.c, line)
    <2>1. s.c \in Customers /\ s.row \in Row /\ s.r \in Routers \cup {NoRouter} /\ s # Idle
      BY <1>2, IdleIsNoWork DEF Work
    <2>2. Seen(s, row, line)  BY <1>0, <1>2 DEF ReadsAreThere
    <2>3. row[s.c] # NoRow /\ Good(s.row, s.c, line)  BY <2>2 DEF Seen
    <2>4. row[s.c] \in Row /\ Good(row[s.c], s.c, line) /\ s.h \in duty
      BY <1>0, <2>1, <2>3 DEF TypeOK, RowsAreThere, OfDuty
    <2> QED  BY <2>1, <2>2, <2>3, <2>4
  <1>3. ASSUME s \in Work, UNCHANGED line, Ends(w), NEW new \in Row, Good(new, s.c, line),
               row' = [row EXCEPT ![s.c] = new],
               \/ new.router = row[s.c].router
               \/ \A v \in Workers \ {w} : session[v] = Idle
               \/ new.router \in Routers /\ line[new.router][s.c].there
        PROVE  There'
    <2>0. LinesGrow(line, line')  BY <1>1, <1>3
    <2>1. /\ RowsAreThere'
          /\ row'[s.c] = new /\ \A d \in Customers \ {s.c} : row'[d] = row[d]
      BY <1>0, <1>2, <1>3, <2>0, OneRowIsThere
    <2>2. \/ RowsSettle(row, row', line')
          \/ \A v \in Workers \ {w} : session[v] = Idle
      BY <1>2, <1>3, <2>1, RowAssumption DEF RowsSettle
    <2> QED  BY <1>2, <1>3, <2>0, <2>1, <2>2, ThereEnds
  <1>4. ASSUME s # Idle, UNCHANGED <<row, line>>, Ends(w) PROVE There'
    <2>1. LinesGrow(line, line')  BY <1>1, <1>4
    <2>2. RowsAreThere' /\ RowsSettle(row, row', line')
      BY <1>0, <1>4, <2>1, SameRowsAreThere
    <2> QED  BY <1>4, <2>1, <2>2, ThereEnds
  <1>5. CASE CallPut(w)
    <2>1. s \in Work /\ s.h \in Putters  BY <1>0, <1>5, AtType DEF CallPut
    <2>2. UNCHANGED row  BY <1>5 DEF CallPut
    <2>3. s.r \in Routers /\ line[s.r][s.c] \in Line  BY <1>0, <1>2, <2>1 DEF Seen, TypeOK, Finders
    <2>4. ASSUME NEW out \in {"refused", "failed"}, Answers(w, out), UNCHANGED line PROVE There'
      BY <1>1, <2>1, <2>2, <2>4, ThereAnswers DEF Putters, Finders
    <2>5. ASSUME NEW out \in {"done", "failed"}, Answers(w, out),
                 line' = [line EXCEPT ![s.r][s.c] = Put(@, ProfileOf(s.h))]
          PROVE  There'
      <3> DEFINE l == Put(line[s.r][s.c], ProfileOf(s.h))
      <3>1. line' = [line EXCEPT ![s.r][s.c] = l]  BY <1>0, <1>2, <2>1, <2>3, <2>5 DEF TypeOK
      <3>2. l.there  BY <2>3, LineKeepsSecret
      <3> HIDE DEF l
      <3>3. LinesGrow(line, line') /\ line'[s.r][s.c] = l
        BY <1>0, <1>2, <2>1, <2>3, <3>1, <3>2, WriteGrows
      <3> QED  BY <2>1, <2>2, <2>5, <3>2, <3>3, ThereAnswers
    <2>6. \/ \E out \in {"refused", "failed"} : Answers(w, out) /\ UNCHANGED line
          \/ \E out \in {"done", "failed"} :
                Answers(w, out) /\ line' = [line EXCEPT ![s.r][s.c] = Put(@, ProfileOf(s.h))]
      BY <1>5 DEF CallPut
    <2> QED  BY <2>4, <2>5, <2>6
  <1>6. CASE MarkPut(w)
    <2>1. s \in Work /\ s.h \in Putters  BY <1>0, <1>6, AtType DEF MarkPut
    <2>2. s.r \in Routers /\ (s.out = "done" => line[s.r][s.c].there)
          /\ (s.h = "reconcile" =>
                 row[s.c].router \in {NoRouter, s.r} \/ line[row[s.c].router][s.c].there)
      BY <1>2, <1>6, <2>1 DEF Seen, MarkPut, At, Finders
    <2> DEFINE new == Marked(s.h, s.row, s.r, s.out, row[s.c])
    <2>3. /\ new \in Row /\ Good(new, s.c, line)
          /\ new.router = row[s.c].router \/ (s.h # "reconcile" /\ s.out = "done" /\ new.router = s.r)
      BY <1>2, <2>1, <2>2, MarkedIsThere
    <2>4. row' = [row EXCEPT ![s.c] = new]  BY <1>0, <1>2, <1>6, <2>1 DEF MarkPut, TypeOK
    <2>5. UNCHANGED line /\ Ends(w)  BY <1>6 DEF MarkPut
    <2> HIDE DEF new
    <2>6. new.router = row[s.c].router \/ (new.router \in Routers /\ line[new.router][s.c].there)
      BY <2>2, <2>3
    <2> QED  BY <1>3, <2>1, <2>3, <2>4, <2>5, <2>6
  <1>7. CASE CallApprove(w)
    <2>1. s \in Work /\ s.h = "approve" /\ s # Idle
      BY <1>0, <1>7, AtType, IdleIsNoWork DEF CallApprove
    <2>2. UNCHANGED <<row, line>> /\ (Ends(w) \/ (line[s.r][s.c].there /\ Answers(w, "done")))
      BY <1>7 DEF CallApprove
    <2> QED  BY <1>1, <1>4, <2>1, <2>2, ThereAnswers
  <1>8. CASE MarkApprove(w)
    <2>1. s \in Work /\ s.h = "approve" /\ s.step = "mark"
      BY <1>0, <1>8, AtType DEF MarkApprove, At
    <2> DEFINE new == [row[s.c] EXCEPT !.sync = "Synced"]
    <2>2. new \in Row /\ new.router = row[s.c].router  BY <1>2, <2>1 DEF Row, Syncs
    <2>3. /\ line[s.r][s.c].there
          /\ row[s.c].router \in {NoRouter, s.r} \/ line[row[s.c].router][s.c].there
      BY <1>2, <2>1 DEF Seen
    <2>4. row' = [row EXCEPT ![s.c] = new]  BY <1>0, <1>2, <1>8, <2>1 DEF MarkApprove, TypeOK
    <2> HIDE DEF new
    <2>5. Good(new, s.c, line)  BY <2>2, <2>3 DEF Good
    <2>6. UNCHANGED line /\ Ends(w)  BY <1>8 DEF MarkApprove
    <2> QED  BY <1>3, <2>1, <2>2, <2>4, <2>5, <2>6
  <1>9. CASE CommitEdit(w)
    <2>1. s \in Work /\ s.h = "edit"  BY <1>0, <1>9, AtType DEF CommitEdit
    <2>2. PICK r \in Routers \cup {NoRouter}, renamed \in BOOLEAN :
              Saved(s.c, [s.row EXCEPT !.router = r], renamed)
      BY <1>9 DEF CommitEdit
    <2> DEFINE x == [s.row EXCEPT !.router = r]
               new == Staged(x, row[s.c], renamed)
    <2>3. x \in Row /\ x.router = r /\ x.sync = s.row.sync  BY <1>2, <2>1 DEF Row
    <2>4. s.row.router = row[s.c].router  BY <1>2, <2>1 DEF Seen
    <2>5. x.router = row[s.c].router => Good(x, s.c, line)
      <3> HIDE DEF x
      <3> QED  BY <1>2, <2>1, <2>3, <2>4, RowAssumption DEF Good
    <2>6. row' = [row EXCEPT ![s.c] = new]  BY <1>0, <1>2, <2>1, <2>2 DEF Saved, TypeOK
    <2>7. new \in Row /\ Good(new, s.c, line)
      <3> HIDE DEF x
      <3> QED  BY <1>2, <2>1, <2>3, <2>5, StagedIsThere
    <2>8. UNCHANGED line /\ Ends(w)  BY <1>9 DEF CommitEdit
    <2>9. \A v \in Workers \ {w} : session[v] = Idle
      BY <1>0, <1>2, <2>1, NobodyEdits DEF Undisturbed
    <2> HIDE DEF x, new
    <2> QED  BY <1>3, <2>1, <2>6, <2>7, <2>8, <2>9
  <1>10. CASE CallSuspend(w)
    <2>1. s \in Work /\ s.h \in {"suspend", "autoSuspend", "cutBatch"}
      BY <1>0, <1>10, AtType DEF CallSuspend
    <2>2. UNCHANGED row /\ s.h # "approve" /\ (s.h \in Finders => s.h = "autoSuspend" /\ s.r \in Routers)
      BY <1>2, <1>10, <2>1 DEF CallSuspend, Finders, Putters, Seen
    <2>3. ASSUME NEW out \in {"refused", "done", "failed"}, Answers(w, out), UNCHANGED line,
                 s.h # "autoSuspend" \/ out # "done"
          PROVE  There'
      BY <1>1, <2>1, <2>2, <2>3, ThereAnswers
    <2>4. ASSUME Answers(w, "done"), NEW l \in Suspensions(line[s.r][s.c]), line[s.r][s.c].there,
                 line' = [line EXCEPT ![s.r][s.c] = l]
          PROVE  There'
      <3>1. s.r \in Routers => (line[s.r][s.c].there => l.there)
        <4> SUFFICES ASSUME s.r \in Routers PROVE l.there  BY <2>4
        <4>1. line[s.r][s.c] \in Line  BY <1>0, <1>2, <2>1 DEF TypeOK
        <4> QED  BY <2>4, <4>1, LineKeepsSecret
      <3>2. LinesGrow(line, line') /\ (s.r \in Routers => line'[s.r][s.c] = l)
        BY <1>0, <1>2, <2>1, <2>4, <3>1, WriteGrows
      <3> QED  BY <2>1, <2>2, <2>4, <3>1, <3>2, ThereAnswers
    <2>5. \/ \E out \in {"refused", "done", "failed"} :
                Answers(w, out) /\ UNCHANGED line /\ (s.h # "autoSuspend" \/ out # "done")
          \/ /\ line[s.r][s.c].there /\ Answers(w, "done")
             /\ \E l \in Suspensions(line[s.r][s.c]) : line' = [line EXCEPT ![s.r][s.c] = l]
      BY <1>10 DEF CallSuspend
    <2> QED  BY <2>3, <2>4, <2>5
  <1>11. CASE MarkSuspend(w)
    <2>1. s \in Work /\ s.h \in {"suspend", "autoSuspend", "cutBatch"}
      BY <1>0, <1>11, AtType DEF MarkSuspend
    <2>2. UNCHANGED line /\ Ends(w)  BY <1>11 DEF MarkSuspend
    <2>3. CASE s.h = "autoSuspend" /\ s.out = "done"
      <3> DEFINE x == [s.row EXCEPT !.status = "suspended"]
                 new == Staged(x, row[s.c], FALSE)
      <3>1. x \in Row /\ x.router = s.row.router /\ x.sync = s.row.sync
        BY <1>2, <2>1 DEF Row, Statuses
      <3>2. Saved(s.c, x, FALSE)  BY <1>11, <2>3 DEF MarkSuspend
      <3>3. row' = [row EXCEPT ![s.c] = new]  BY <1>0, <1>2, <2>1, <3>2 DEF Saved, TypeOK
      <3>4. s.row.router \in Routers /\ line[s.row.router][s.c].there
        BY <1>2, <1>11, <2>1, <2>3 DEF Seen, MarkSuspend, At, Finders, Free
      <3> HIDE DEF x
      <3>5. Good(x, s.c, line)  BY <3>1, <3>4 DEF Good
      <3>6. /\ new \in Row /\ Good(new, s.c, line)
            /\ new.router \in Routers /\ line[new.router][s.c].there
        BY <1>2, <2>1, <3>1, <3>4, <3>5, StagedIsThere
      <3> HIDE DEF new
      <3> QED  BY <1>3, <2>1, <2>2, <3>3, <3>6
    <2>4. CASE s.h = "autoSuspend" /\ s.out = "refused" /\ row[s.c] # NoRow
      <3> DEFINE new == [row[s.c] EXCEPT !.sync = "Blocked"]
      <3>1. new \in Row /\ new.router = row[s.c].router /\ new.sync = "Blocked"
        BY <1>2, <2>1 DEF Row, Syncs
      <3>2. row' = [row EXCEPT ![s.c].sync = "Blocked"]  BY <1>11, <2>4 DEF MarkSuspend
      <3>3. row' = [row EXCEPT ![s.c] = new]  BY <1>0, <3>2 DEF TypeOK
      <3> HIDE DEF new
      <3>4. Good(new, s.c, line)  BY <3>1 DEF Good
      <3> QED  BY <1>3, <2>1, <2>2, <3>1, <3>3, <3>4
    <2>5. CASE ~(s.h = "autoSuspend" /\ s.out = "done")
               /\ ~(s.h = "autoSuspend" /\ s.out = "refused" /\ row[s.c] # NoRow)
      <3>1. row' = row  BY <1>11, <2>5 DEF MarkSuspend
      <3> QED  BY <1>2, <1>4, <2>1, <2>2, <3>1
    <2> QED  BY <2>3, <2>4, <2>5
  <1>12. CASE CallRestore(w)
    <2>1. s \in Work /\ s.h \in {"reactivate", "pay"}
      BY <1>0, <1>12, AtType DEF CallRestore
    <2>2. UNCHANGED row /\ s.h # "approve" /\ s.h \notin Finders
      BY <1>12, <2>1 DEF CallRestore, Putters, Finders
    <2>3. ASSUME NEW out \in {"refused", "failed"}, Answers(w, out), UNCHANGED line PROVE There'
      BY <1>1, <2>1, <2>2, <2>3, ThereAnswers
    <2>4. ASSUME Answers(w, "done"), NEW l \in {Enabled(line[s.r][s.c]), Restored(line[s.r][s.c])},
                 line[s.r][s.c].there, line' = [line EXCEPT ![s.r][s.c] = l]
          PROVE  There'
      <3>1. s.r \in Routers => (line[s.r][s.c].there => l.there)
        <4> SUFFICES ASSUME s.r \in Routers PROVE l.there  BY <2>4
        <4>1. line[s.r][s.c] \in Line  BY <1>0, <1>2, <2>1 DEF TypeOK
        <4> QED  BY <2>4, <4>1, LineKeepsSecret
      <3>2. LinesGrow(line, line')  BY <1>0, <1>2, <2>1, <2>4, <3>1, WriteGrows
      <3> QED  BY <2>1, <2>2, <2>4, <3>2, ThereAnswers
    <2>5. \/ \E out \in {"refused", "failed"} : Answers(w, out) /\ UNCHANGED line
          \/ /\ line[s.r][s.c].there /\ Answers(w, "done")
             /\ \E l \in {Enabled(line[s.r][s.c]), Restored(line[s.r][s.c])} :
                   line' = [line EXCEPT ![s.r][s.c] = l]
      BY <1>12 DEF CallRestore
    <2> QED  BY <2>3, <2>4, <2>5
  <1>13. CASE MarkRestore(w)
    <2>1. s \in Work  BY <1>0, <1>13, AtType DEF MarkRestore
    <2>2. UNCHANGED line /\ Ends(w)  BY <1>13 DEF MarkRestore
    <2>3. CASE s.out # "refused"
      <3>1. row' = row  BY <1>0, <1>13, <2>3 DEF MarkRestore, TypeOK
      <3> QED  BY <1>2, <1>4, <2>1, <2>2, <3>1
    <2>4. CASE s.out = "refused"
      <3> DEFINE status == IF s.row.status = "suspended" THEN "suspended" ELSE row[s.c].status
                 new == [row[s.c] EXCEPT !.sync = "Blocked", !.status = status]
      <3>1. row' = [row EXCEPT ![s.c] = new]
        BY <1>0, <1>2, <1>13, <2>1, <2>4 DEF MarkRestore, TypeOK
      <3>2. status \in Statuses  BY <1>2, <2>1 DEF Row, Statuses
      <3> HIDE DEF status
      <3>3. new \in Row /\ new.router = row[s.c].router /\ new.sync = "Blocked"
        BY <1>2, <2>1, <3>2 DEF Row, Syncs
      <3> HIDE DEF new
      <3>4. Good(new, s.c, line)  BY <3>3 DEF Good
      <3> QED  BY <1>3, <2>1, <2>2, <3>1, <3>3, <3>4
    <2> QED  BY <2>3, <2>4
  <1>14. CASE CallDelete(w)
    <2>1. s \in Work /\ s.h = "deleteCustomer"  BY <1>0, <1>14, AtType DEF CallDelete
    <2> QED  BY <1>2, <2>1 DEF Removers
  <1>15. CASE ReadReconcile(w)
    <2>1. s \in Compared /\ s # Idle
      BY <1>0, <1>15, IdleIsNoWork DEF ReadReconcile, At, TypeOK, Work
    <2>2. UNCHANGED <<row, line>>  BY <1>15 DEF ReadReconcile
    <2>3. CASE Ends(w)  BY <1>4, <2>1, <2>2, <2>3
    <2>4. CASE ~Ends(w)
      <3> DEFINE x == row[s.c]
                 t == IF s.step = "agrees" THEN [s EXCEPT !.step = "mark", !.row = x, !.out = "done"]
                      ELSE [s EXCEPT !.step = "call", !.row = x]
      <3>1. x # NoRow /\ x.router = s.r /\ session' = [session EXCEPT ![w] = t]
        BY <1>15, <2>4 DEF ReadReconcile
      <3>2. s.c \in Customers /\ s.r \in Routers /\ s.h = "reconcile" /\ s.out = "none"
        BY <2>1 DEF Compared
      <3>3. x \in Row /\ Good(x, s.c, line)  BY <1>0, <3>1, <3>2 DEF TypeOK, RowsAreThere
      <3>4. s.step = "agrees" => line[s.r][s.c].there  BY <1>0, <2>1 DEF AgreedIsThere
      <3>5. /\ t \in Work /\ t.h = "reconcile" /\ t.c = s.c /\ t.r = s.r /\ t.row = x
            /\ t.step = "mark" /\ t.out = "done" => line[s.r][s.c].there
        <4> HIDE DEF x
        <4>1. CASE s.step = "agrees"
          BY <2>1, <3>2, <3>3, <3>4, <4>1 DEF Work, Compared, Handlers
        <4>2. CASE s.step # "agrees"
          BY <2>1, <3>2, <3>3, <4>2 DEF Work, Compared, Handlers
        <4> QED  BY <4>1, <4>2
      <3>6. session'[w] = t /\ \A v \in Workers \ {w} : session'[v] = session[v]
        BY <1>0, <3>1 DEF TypeOK
      <3> HIDE DEF t
      <3>7. LinesGrow(line, line')  BY <1>1, <2>2
      <3>8. RowsAreThere' /\ RowsSettle(row, row', line')
        BY <1>0, <2>2, <3>7, SameRowsAreThere
      <3>9. t.h \notin {"edit", "approve"}  BY <3>5
      <3>10. Seen(t, row', line')
        BY <2>2, <3>1, <3>2, <3>3, <3>5, <3>9 DEF Seen
      <3>11. \A v \in Workers \ {w} : session[v] # Idle => session[v].h # "edit"
        BY <1>0, <2>1, NobodyEdits
      <3>12. \A v \in Workers :
                \/ /\ session'[v] = session[v]
                   /\ RowsSettle(row, row', line')
                   /\ session[v] \in Work /\ session[v].h = "edit" =>
                         row'[session[v].c].router = row[session[v].c].router
                \/ session'[v] \in Work /\ Seen(session'[v], row', line')
        BY <2>2, <3>5, <3>6, <3>8, <3>10
      <3>13. \A v \in Workers : session'[v] # Idle => session[v] # Idle /\ session'[v].h = session[v].h
        BY <2>1, <3>2, <3>5, <3>6
      <3> QED  BY <3>7, <3>8, <3>12, <3>13, ThereKept
    <2> QED  BY <2>3, <2>4
  <1>16. CASE CommitRetry /\ w = Beat
    <2>1. s \in Work  BY <1>0, <1>16, AtType DEF CommitRetry
    <2> DEFINE new == [row[s.c] EXCEPT !.sync = "Pending"]
    <2>2. new \in Row /\ new.router = row[s.c].router /\ new.sync = "Pending"
      BY <1>2, <2>1 DEF Row, Syncs
    <2>3. row' = [row EXCEPT ![s.c] = new]  BY <1>0, <1>2, <1>16, <2>1 DEF CommitRetry, TypeOK
    <2> HIDE DEF new
    <2>4. Good(new, s.c, line)  BY <2>2 DEF Good
    <2>5. UNCHANGED line /\ Ends(w)  BY <1>16 DEF CommitRetry
    <2> QED  BY <1>3, <2>1, <2>2, <2>3, <2>4, <2>5
  <1> QED
    BY <1>5, <1>6, <1>7, <1>8, <1>9, <1>10, <1>11, <1>12, <1>13, <1>14, <1>15, <1>16 DEF Continues

LEMMA ThereOpens ==
    ASSUME Undisturbed, BorderInv, TypeOK', There, duty \cap Removers = {}, UNCHANGED duty,
           NEW w \in Workers, NEW c \in Customers, Opens(w, c) \/ OpenRetry(c), Opens(w, c) \/ w = Beat
    PROVE  There'
  <1>0. /\ TypeOK /\ RowsAreThere /\ ReadsAreThere /\ Alone
        /\ Good(row[c], c, line) /\ (row[c] # NoRow => row[c] \in Row)
    BY DEF BorderInv, There, TypeOK, RowsAreThere
  <1>1. UNCHANGED line => LinesGrow(line, line')  BY DEF LinesGrow
  <1>2. ASSUME NEW h \in Handlers, NEW step \in {"call", "mark"}, NEW r \in Routers \cup {NoRouter},
               NEW read \in Row, Starts(w, h), Goes(w, h, step, c, r, read), UNCHANGED line,
               RowsAreThere', RowsSettle(row, row', line'),
               row'[c] # NoRow, read.router = row'[c].router, Good(read, c, line),
               h \notin Free => r = read.router, h \in Finders \cup {"approve"} => r \in Routers,
               h \in Finders \cup {"approve"} => step = "call", h # "reconcile"
        PROVE  There'
    <2> DEFINE t == [h |-> h, step |-> step, c |-> c, r |-> r, row |-> read, out |-> "none"]
    <2>1. session'[w] = t /\ \A v \in Workers \ {w} : session'[v] = session[v]
      BY <1>0, <1>2 DEF Goes, TypeOK
    <2>2. /\ t \in Work /\ t.h = h /\ t.c = c /\ t.r = r /\ t.row = read /\ t.step = step
          /\ t.out = "none"
      BY <1>2 DEF Work
    <2> HIDE DEF t
    <2>3. Seen(t, row', line')
      <3>1. row'[t.c] # NoRow /\ Good(t.row, t.c, line')  BY <1>2, <2>2
      <3>2. t.h \in Finders \cup {"approve"} => t.r \in Routers  BY <1>2, <2>2
      <3>3. ~(t.step = "mark" /\ (t.h = "approve" \/ (t.h \in Finders /\ t.out = "done")))
        BY <1>2, <2>2
      <3>4. t.h \notin Free => t.r = t.row.router  BY <1>2, <2>2
      <3>5. t.row.router = row'[t.c].router  BY <1>2, <2>2
      <3>6. t.h \in {"approve", "reconcile"} => row'[t.c].router \in {NoRouter, t.r}
        BY <1>2, <2>2, <3>4, <3>5 DEF Free
      <3> QED  BY <3>1, <3>2, <3>3, <3>4, <3>5, <3>6 DEF Seen
    <2>4. LinesGrow(line, line')  BY <1>1, <1>2
    <2> QED  BY <1>2, <2>1, <2>2, <2>3, <2>4, ThereStarts
  <1>3. ASSUME NEW h \in Handlers, NEW step \in {"call", "mark"}, NEW r \in Routers \cup {NoRouter},
               Starts(w, h), Goes(w, h, step, c, r, row[c]), UNCHANGED <<row, line>>, row[c] # NoRow,
               h \notin Free => r = row[c].router, h \in Finders \cup {"approve"} => r \in Routers,
               h \in Finders \cup {"approve"} => step = "call", h # "reconcile"
        PROVE  There'
    <2>1. LinesGrow(line, line')  BY <1>1, <1>3
    <2>2. RowsAreThere' /\ RowsSettle(row, row', line')
      BY <1>0, <1>3, <2>1, SameRowsAreThere
    <2>3. row'[c] = row[c]  BY <1>3
    <2> QED  BY <1>0, <1>2, <1>3, <2>2, <2>3
  <1>4. ASSUME NEW h, NEW new \in Row, Starts(w, h), UNCHANGED <<line, session>>,
               row' = [row EXCEPT ![c] = new], Good(new, c, line),
               row[c] = NoRow \/ new.router = row[c].router
        PROVE  There'
    <2>1. LinesGrow(line, line')  BY <1>1, <1>4
    <2>2. RowsAreThere' /\ row'[c] = new /\ \A d \in Customers \ {c} : row'[d] = row[d]
      BY <1>0, <1>4, <2>1, OneRowIsThere
    <2>3. RowsSettle(row, row', line')  BY <1>4, <2>2, RowAssumption DEF RowsSettle
    <2>4. session'[w] = Idle /\ \A v \in Workers \ {w} : session'[v] = session[v]
      BY <1>4 DEF Starts
    <2> QED  BY <1>4, <2>1, <2>2, <2>3, <2>4, ThereStarts
  <1>5. ASSUME NEW h, Starts(w, h), h \in Removers PROVE FALSE  BY <1>5 DEF Starts
  <1>6. ASSUME NEW r \in Routers, NEW h \in {"push", "override", "bulkPush", "autofix"},
               OpenPut(w, h, c, r)
        PROVE  There'
    <2>1. h \in Handlers /\ h # "reconcile"  BY DEF Handlers
    <2>2. Starts(w, h) /\ row[c] # NoRow /\ Goes(w, h, "call", c, r, row[c]) /\ UNCHANGED <<row, line>>
      BY <1>6 DEF OpenPut
    <2>3. h \notin Free => r = row[c].router  BY <1>6 DEF OpenPut, MayPut, Free
    <2> QED  BY <1>3, <2>1, <2>2, <2>3
  <1>7. ASSUME NEW r \in Routers, OpenApprove(w, c, r) PROVE There'
    <2>1. /\ Starts(w, "approve") /\ row[c] # NoRow /\ row[c].router = r
          /\ Goes(w, "approve", "call", c, r, row[c]) /\ UNCHANGED <<row, line>>
      BY <1>7 DEF OpenApprove
    <2> QED  BY <1>3, <2>1 DEF Handlers
  <1>8. ASSUME NEW r \in Routers, DeleteSecret(w, c, r) \/ Winbox(w, c, r) PROVE FALSE
    BY <1>5, <1>8 DEF DeleteSecret, Winbox, Removers
  <1>9. ASSUME NEW r \in Routers, ImportSecret(w, c, r) PROVE There'
    <2>1. PICK sync \in {"Pending", "Unverified"} :
              row' = [row EXCEPT ![c] = [router |-> r, status |-> "ended", date |-> "none",
                                         sync |-> sync, data |-> imports, stamp |-> 0]]
      BY <1>9 DEF ImportSecret
    <2> DEFINE new == [router |-> r, status |-> "ended", date |-> "none",
                       sync |-> sync, data |-> imports, stamp |-> 0]
    <2>2. new \in Row /\ new.sync # "Synced"
      BY <1>0 DEF Row, Statuses, Dates, Syncs, TypeOK
    <2>3. row' = [row EXCEPT ![c] = new]  BY <2>1
    <2> HIDE DEF new
    <2>4. Good(new, c, line)  BY <2>2 DEF Good
    <2> QED  BY <1>4, <1>9, <2>2, <2>3, <2>4 DEF ImportSecret
  <1>10. ASSUME NEW r \in Routers, AddCustomer(w, c, r) PROVE There'
    <2> DEFINE new == [router |-> r, status |-> "open", date |-> "none", sync |-> "Pending",
                       data |-> imports, stamp |-> 0]
    <2>1. new \in Row /\ new.sync = "Pending" /\ new.router = r
      BY <1>0 DEF Row, Statuses, Dates, Syncs, TypeOK
    <2>2. /\ Starts(w, "add") /\ row[c] = NoRow /\ row' = [row EXCEPT ![c] = new] /\ UNCHANGED line
          /\ Goes(w, "add", "call", c, r, new) \/ UNCHANGED session
      BY <1>10 DEF AddCustomer
    <2> HIDE DEF new
    <2>3. Good(new, c, line) /\ LinesGrow(line, line')  BY <1>1, <2>1, <2>2 DEF Good
    <2>4. CASE UNCHANGED session  BY <1>4, <2>1, <2>2, <2>3, <2>4
    <2>5. CASE Goes(w, "add", "call", c, r, new)
      <3>1. RowsAreThere' /\ row'[c] = new /\ \A d \in Customers \ {c} : row'[d] = row[d]
        BY <1>0, <2>1, <2>2, <2>3, OneRowIsThere
      <3>2. RowsSettle(row, row', line')  BY <2>2, <3>1 DEF RowsSettle
      <3>3. row'[c] # NoRow  BY <2>1, <3>1, RowAssumption
      <3> QED  BY <1>2, <2>1, <2>2, <2>3, <2>5, <3>1, <3>2, <3>3 DEF Handlers
    <2> QED  BY <2>2, <2>4, <2>5
  <1>11. ASSUME NEW r \in Routers, OpenReconcile(w, c, r) PROVE There'
    <2> DEFINE step == IF line[r][c].there /\ line[r][c].profile = "name" THEN "agrees" ELSE "differs"
               t == [h |-> "reconcile", step |-> step, c |-> c, r |-> r, row |-> NoRow, out |-> "none"]
    <2>1. session' = [session EXCEPT ![w] = t] /\ Starts(w, "reconcile") /\ UNCHANGED <<row, line>>
      BY <1>11 DEF OpenReconcile, Goes
    <2>2. /\ t \in Compared /\ t.h = "reconcile" /\ t.c = c /\ t.r = r
          /\ t.step = "agrees" => line[r][c].there
      BY DEF Compared
    <2> HIDE DEF t
    <2>3. session'[w] = t /\ \A v \in Workers \ {w} : session'[v] = session[v]
      BY <1>0, <2>1 DEF TypeOK
    <2>4. LinesGrow(line, line')  BY <1>1, <2>1
    <2>5. RowsAreThere' /\ RowsSettle(row, row', line')
      BY <1>0, <2>1, <2>4, SameRowsAreThere
    <2> QED  BY <2>1, <2>2, <2>3, <2>4, <2>5, ThereStarts
  <1>12. CASE OpenEdit(w, c)
    <2>1. /\ Starts(w, "edit") /\ row[c] # NoRow /\ UNCHANGED <<row, line>>
          /\ Goes(w, "edit", "mark", c, NoRouter, row[c])
      BY <1>12 DEF OpenEdit
    <2> QED  BY <1>3, <2>1 DEF Handlers, Free, Putters, Finders
  <1>13. ASSUME NEW h \in {"suspend", "reactivate", "pay"}, NEW x \in Row, ThenRouter(w, h, c, x),
                row[c] # NoRow, x.router = row[c].router, x.sync = row[c].sync
         PROVE  There'
    <2> DEFINE new == Staged(x, row[c], FALSE)
    <2>1. Good(x, c, line)  BY <1>0, <1>13, RowAssumption DEF Good
    <2>2. new \in Row /\ new.router = row[c].router /\ Good(new, c, line)
      BY <1>0, <1>13, <2>1, StagedIsThere
    <2>3. Starts(w, h) /\ row' = [row EXCEPT ![c] = new] /\ UNCHANGED line
      BY <1>0, <1>13 DEF ThenRouter, Saved, TypeOK
    <2>4. \/ UNCHANGED session
          \/ Goes(w, h, "call", c, row[c].router, row[c])
      BY <1>13 DEF ThenRouter
    <2> HIDE DEF new
    <2>5. CASE UNCHANGED session  BY <1>4, <2>2, <2>3, <2>5
    <2>6. CASE Goes(w, h, "call", c, row[c].router, row[c])
      <3>1. LinesGrow(line, line')  BY <1>1, <2>3
      <3>2. RowsAreThere' /\ row'[c] = new /\ \A d \in Customers \ {c} : row'[d] = row[d]
        BY <1>0, <2>2, <2>3, <3>1, OneRowIsThere
      <3>3. RowsSettle(row, row', line')  BY <2>2, <3>2, RowAssumption DEF RowsSettle
      <3>4. row'[c] # NoRow  BY <2>2, <3>2, RowAssumption
      <3>5. h \in Handlers /\ h \notin Finders /\ h # "approve" /\ h # "reconcile"
        BY DEF Handlers, Putters, Finders
      <3>6. row[c].router \in Routers \cup {NoRouter}  BY <1>0, <1>13 DEF Row
      <3> QED  BY <1>0, <1>2, <1>13, <2>2, <2>3, <2>6, <3>2, <3>3, <3>4, <3>5, <3>6
    <2> QED  BY <2>4, <2>5, <2>6
  <1>14. CASE ForceSuspend(w, c) \/ Reactivate(w, c) \/ Pay(w, c)
    <2>1. row[c] \in Row /\ row[c] # NoRow
      BY <1>0, <1>14 DEF ForceSuspend, Reactivate, Pay, ThenRouter
    <2>2. ASSUME NEW status \in Statuses, NEW date \in Dates
          PROVE  LET x == [row[c] EXCEPT !.status = status, !.date = date] IN
                 x \in Row /\ x.router = row[c].router /\ x.sync = row[c].sync
      BY <2>1 DEF Row
    <2>3. CASE ForceSuspend(w, c)
      BY <1>13, <2>1, <2>2, <2>3 DEF ForceSuspend, Statuses, Dates
    <2>4. CASE Reactivate(w, c)
      <3> DEFINE x == [row[c] EXCEPT !.status = "open"]
      <3>1. x \in Row /\ x.router = row[c].router /\ x.sync = row[c].sync
        BY <2>1 DEF Row, Statuses
      <3>2. ThenRouter(w, "reactivate", c, x)  BY <2>4 DEF Reactivate
      <3> HIDE DEF x
      <3> QED  BY <1>13, <2>1, <3>1, <3>2
    <2>5. CASE Pay(w, c)
      BY <1>13, <2>1, <2>2, <2>5 DEF Pay, Statuses, Dates
    <2> QED  BY <1>14, <2>3, <2>4, <2>5
  <1>15. ASSUME NEW h \in {"autoSuspend", "cutBatch"}, OpenCutOff(w, h, c) PROVE There'
    <2>1. /\ Starts(w, h) /\ row[c] # NoRow /\ UNCHANGED <<row, line>>
          /\ Goes(w, h, "call", c, row[c].router, row[c])
      BY <1>15 DEF OpenCutOff
    <2>2. row[c].router \in Routers  BY <1>0, <1>15, <2>1 DEF OpenCutOff, Row
    <2> QED  BY <1>3, <2>1, <2>2 DEF Handlers, Putters, Finders
  <1>16. CASE DeleteCustomer(w, c)  BY <1>5, <1>16 DEF DeleteCustomer, Removers
  <1>17. CASE Import(w, c)
    <2>1. Starts(w, "import") /\ UNCHANGED <<line, session>>  BY <1>17 DEF Import
    <2>2. \A v \in Workers : session[v] = Idle  BY <1>0, <2>1, NobodyEdits DEF Undisturbed
    <2>3. PICK r \in Routers, status \in Statuses, date \in Dates :
              row' = [row EXCEPT ![c] = [router |-> r, status |-> status, date |-> date,
                        sync |-> "Unverified", data |-> imports', stamp |-> imports']]
      BY <1>17, ImportRow
    <2> DEFINE new == [router |-> r, status |-> status, date |-> date,
                       sync |-> "Unverified", data |-> imports', stamp |-> imports']
    <2>4. new \in Row /\ new.sync = "Unverified"
      BY <2>3 DEF Row, Syncs, TypeOK
    <2>5. row' = [row EXCEPT ![c] = new]  BY <2>3
    <2> HIDE DEF new
    <2>6. Good(new, c, line) /\ LinesGrow(line, line')  BY <1>1, <2>1, <2>4 DEF Good
    <2>7. RowsAreThere'  BY <1>0, <2>4, <2>5, <2>6, <2>1, OneRowIsThere
    <2>8. \A v \in Workers : session'[v] = Idle  BY <2>1, <2>2
    <2> QED  BY <2>6, <2>7, <2>8, ThereKept
  <1>18. CASE OpenRetry(c) /\ w = Beat
    <2>1. /\ Starts(w, "retry") /\ row[c] # NoRow /\ UNCHANGED <<row, line>>
          /\ Goes(w, "retry", "mark", c, row[c].router, row[c])
      BY <1>18 DEF OpenRetry
    <2>2. row[c].router \in Routers \cup {NoRouter}  BY <1>0, <2>1 DEF Row
    <2> QED  BY <1>3, <2>1, <2>2 DEF Handlers, Putters, Finders
  <1> QED
    BY <1>6, <1>7, <1>8, <1>9, <1>10, <1>11, <1>12, <1>14, <1>15, <1>16, <1>17, <1>18 DEF Opens

LEMMA ThereNext == Undisturbed /\ BorderInv /\ ThereInv /\ [Next]_vars => ThereInv'
  <1> SUFFICES ASSUME Undisturbed, BorderInv, ThereInv, [Next]_vars, duty' \cap Removers = {}
               PROVE  There'
    BY DEF ThereInv
  <1>0. TypeOK /\ TypeOK' /\ UNCHANGED duty  BY TypeNext, DutyFixed DEF BorderInv
  <1>1. duty \cap Removers = {} /\ There /\ RowsAreThere  BY <1>0 DEF ThereInv, There
  <1>2. ASSUME NEW w \in Threads, Continues(w) PROVE There'
    BY <1>0, <1>1, <1>2, ThereContinues DEF Workers
  <1>3. ASSUME NEW w \in Threads, NEW c \in Customers, Opens(w, c) PROVE There'
    BY <1>0, <1>1, <1>3, ThereOpens DEF Workers
  <1>4. UNCHANGED <<session, line>> => LinesGrow(line, line')  BY DEF LinesGrow
  <1>5. ASSUME UNCHANGED <<session, line>>, RowsAreThere', RowsSettle(row, row', line'),
               \A c \in Customers : row[c] # NoRow => row'[c].router = row[c].router
        PROVE  There'
    <2>1. LinesGrow(line, line')  BY <1>4, <1>5
    <2>2. ASSUME NEW v \in Workers, session[v] \in Work
          PROVE  row'[session[v].c].router = row[session[v].c].router
      <3>1. row[session[v].c] # NoRow  BY <1>1, <2>2 DEF There, ReadsAreThere, Seen
      <3> QED  BY <1>5, <2>2, <3>1 DEF Work
    <2>3. \A v \in Workers :
              /\ session'[v] = session[v]
              /\ RowsSettle(row, row', line')
              /\ session[v] \in Work /\ session[v].h = "edit" =>
                    row'[session[v].c].router = row[session[v].c].router
      BY <1>5, <2>2
    <2>4. \A v \in Workers : session'[v] # Idle => session[v] # Idle /\ session'[v].h = session[v].h
      BY <1>5
    <2> QED  BY <1>0, <1>1, <1>5, <2>1, <2>3, <2>4, ThereKept
  <1>6. ASSUME UNCHANGED <<session, line, row>> PROVE There'
    <2>1. RowsAreThere' /\ RowsSettle(row, row', line')
      BY <1>0, <1>1, <1>4, <1>6, SameRowsAreThere
    <2> QED  BY <1>5, <1>6, <2>1
  <1>7. ASSUME NEW c \in Customers, Retry(c) \/ Purge(c) \/ Lapse(c) PROVE There'
    <2>0. Beat \in Workers  BY DEF Workers
    <2>1. CASE OpenRetry(c)  BY <1>0, <1>1, <2>0, <2>1, ThereOpens
    <2>2. CASE CommitRetry  BY <1>0, <1>1, <2>0, <2>2, ThereContinues
    <2>3. CASE Purge(c)  BY <1>6, <2>3 DEF Purge
    <2>4. CASE Lapse(c)
      <3> DEFINE new == [row[c] EXCEPT !.date = "past"]
      <3>1. row[c] # NoRow /\ row[c] \in Row /\ UNCHANGED <<line, session>>
        BY <1>0, <2>4 DEF Lapse, TypeOK
      <3>2. new \in Row /\ new.router = row[c].router /\ new.sync = row[c].sync
        BY <3>1 DEF Row, Dates
      <3>3. row' = [row EXCEPT ![c] = new]  BY <1>0, <2>4 DEF Lapse, TypeOK
      <3> HIDE DEF new
      <3>4. Good(row[c], c, line)  BY <1>1 DEF RowsAreThere
      <3>5. Good(new, c, line')  BY <3>1, <3>2, <3>4 DEF Good
      <3>6. RowsAreThere' /\ row'[c] = new /\ \A d \in Customers \ {c} : row'[d] = row[d]
        BY <1>0, <1>1, <1>4, <3>1, <3>2, <3>3, <3>5, OneRowIsThere
      <3>7. RowsSettle(row, row', line')  BY <3>2, <3>6, RowAssumption DEF RowsSettle
      <3>8. \A d \in Customers : row[d] # NoRow => row'[d].router = row[d].router
        BY <3>2, <3>6
      <3> QED  BY <1>5, <3>1, <3>6, <3>7, <3>8
    <2> QED  BY <1>7, <2>1, <2>2, <2>3, <2>4 DEF Retry
  <1>8. CASE Restart
    <2>1. UNCHANGED <<row, line>> /\ \A v \in Workers : session'[v] = Idle
      BY <1>8 DEF Restart
    <2>2. LinesGrow(line, line')  BY <2>1 DEF LinesGrow
    <2>3. RowsAreThere'  BY <1>0, <1>1, <2>1, <2>2, SameRowsAreThere
    <2> QED  BY <1>0, <1>1, <2>1, <2>2, <2>3, ThereKept
  <1>9. CASE UNCHANGED vars  BY <1>6, <1>9 DEF vars
  <1> QED  BY <1>2, <1>3, <1>7, <1>8, <1>9 DEF Next

\* An account marked Synced has its secret on its own router, whatever push,
\* override, approval, reconciliation, cut-off and retry write, fail to write or
\* lose in a restart, as long as nobody removes secrets and as edits and imports
\* run by themselves.  autoSuspend, too, saves the whole row it read, its sync
\* status and router included, but only after it found the secret on that router.
THEOREM SyncedHasSecret ==
    ASSUME Undisturbed
    PROVE  Spec => []SyncedIsThere
  <1>1. Init => ThereInv
    <2> SUFFICES ASSUME Init PROVE There  BY DEF ThereInv
    <2>1. RowsAreThere  BY DEF Init, RowsAreThere, Good
    <2>2. ReadsAreThere /\ AgreedIsThere
      BY IdleIsNoWork DEF Init, ReadsAreThere, AgreedIsThere
    <2>3. Alone  BY DEF Init, Alone
    <2> QED  BY <2>1, <2>2, <2>3 DEF There
  <1>2. BorderInv /\ ThereInv /\ [Next]_vars => ThereInv'  BY ThereNext
  <1>3. ThereInv => SyncedIsThere
    BY DEF ThereInv, There, RowsAreThere, Good, SyncedIsThere, Removers
  <1> QED  BY <1>1, <1>2, <1>3, BorderInvCorrect, PTL DEF Spec
=============================================================================
