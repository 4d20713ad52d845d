-------------------------- MODULE Couriers_proofs --------------------------
(* Safety of the operations on couriers for any requests and texts. *)
EXTENDS Couriers, FiniteSetTheorems, TLAPS

\* A request has passed the checks of its operation when its statements run.
Checked(p) ==
    /\ UnderWay(p) => /\ call[p] \in Calls /\ call[p].text = "ok" /\ ~Refused(call[p])
                      /\ Promised(couriers, call[p]) \in promised[p]
    /\ At(p, "select") => call[p].op = "get"
    /\ pc[p] \in {"nextval", "insert"} => call[p].op = "create"
    /\ pc[p] \in {"find", "update"} => call[p].op = "update"
    /\ At(p, "update") => call[p].id \in DOMAIN couriers

\* An id that is drawn belongs to one request until its row is there.
FreshId ==
    \A p \in Procs : At(p, "insert") =>
        /\ row[p] \in 1..lastId /\ row[p] \notin DOMAIN couriers
        /\ \A q \in Procs : At(q, "insert") /\ row[q] = row[p] => q = p

IInv == TypeOK /\ (\A p \in Procs : Checked(p)) /\ FreshId /\ TableIsSound /\ AnswersTruthful
-----------------------------------------------------------------------------
LEMMA CallFacts ==
  ASSUME NEW c \in Calls
  PROVE  /\ c \in CallType /\ c # NoCall /\ c.op \in Ops /\ c.text \in {"ok", "garbage", "large"}
         /\ c.id \in Int /\ c.body \in Bodies
         /\ c.op = "create" => \A f \in Fields : c.body[f] # Absent
         /\ c.op = "get" => c.text # "large"
  BY CallsAssumption DEF CallsAssumption, CallType

\* The codes of the answers.
LEMMA CodeValues ==
  /\ Code("get", "ok") = 200 /\ Code("get", "garbage") = 400 /\ Code("get", "invalid") = 400
  /\ Code("get", "notfound") = 404 /\ Code("get", "error") = 500
  /\ Code("create", "ok") = 201 /\ Code("create", "garbage") = 400 /\ Code("create", "large") = 413
  /\ Code("create", "invalid") = 400 /\ Code("create", "conflict") = 409
  /\ Code("create", "error") = 500
  /\ Code("update", "ok") = 200 /\ Code("update", "garbage") = 400 /\ Code("update", "large") = 413
  /\ Code("update", "invalid") = 400 /\ Code("update", "conflict") = 409
  /\ Code("update", "notfound") = 404 /\ Code("update", "error") = 500
  BY DEF Code, Mapped

\* What a request is refused for is what its answer is promised.
LEMMA RefusedIsPromised ==
  ASSUME NEW t, NEW c \in Calls, c.text = "ok"
  PROVE  Refused(c) => Promised(t, c) = 400
  BY CallFacts DEF Refused, Promised, CreateRefused, UpdateRefused, PromisedCreate, PromisedUpdate, Ops

LEMMA CreatePromised ==
  ASSUME NEW t, NEW c \in Calls, c.text = "ok", c.op = "create", ~Refused(c)
  PROVE  Promised(t, c) = IF Taken(t, c.body["phone"], Ids) THEN 409 ELSE 201
  BY CallFacts DEF Refused, Promised, CreateRefused, PromisedCreate

LEMMA UpdatePromised ==
  ASSUME NEW t, NEW c \in Calls, c.text = "ok", c.op = "update", ~Refused(c)
  PROVE  /\ c.id \in DOMAIN t /\ Taken(t, c.body["phone"], Ids \ {c.id}) => Promised(t, c) = 409
         /\ c.id \in DOMAIN t /\ ~Taken(t, c.body["phone"], Ids \ {c.id}) => Promised(t, c) = 200
  BY CallFacts DEF Refused, Promised, UpdateRefused, PromisedUpdate

LEMMA MissingPromised ==
  ASSUME NEW t, NEW c \in Calls, c.text = "ok", c.op = "update", ~Refused(c), c.id \notin DOMAIN t
  PROVE  Promised(t, c) = 404
  BY CallFacts DEF Refused, Promised, UpdateRefused, PromisedUpdate

LEMMA GetPromised ==
  ASSUME NEW t, NEW c \in Calls, c.text = "ok", c.op = "get", ~Refused(c)
  PROVE  Promised(t, c) = IF c.id \in DOMAIN t THEN 200 ELSE 404
  BY CallFacts DEF Refused, Promised

LEMMA PromisedType ==
  ASSUME NEW t, NEW c
  PROVE  Promised(t, c) \in Codes
  BY DEF Promised, PromisedCreate, PromisedUpdate, Codes

LEMMA WithDefaultsType ==
  ASSUME NEW b \in Bodies
  PROVE  /\ WithDefaults(b) \in Rows
         /\ WithDefaults(b)["phone"] = b["phone"]
  BY DEF WithDefaults, Bodies, Rows, Fields, Texts, Transports

LEMMA MergeType ==
  ASSUME NEW b \in Bodies, NEW old \in Rows
  PROVE  /\ Merge(old, b) \in Rows
         /\ \A f \in Fields : Merge(old, b)[f] = IF b[f] = Absent THEN old[f] ELSE b[f]
  BY DEF Merge, Bodies, Rows

LEMMA InitIInv == Init => IInv
<1> SUFFICES ASSUME Init PROVE IInv
  OBVIOUS
<1>1. couriers = <<>> /\ DOMAIN couriers = {}
  BY DEF Init
<1>2. TypeOK
  BY <1>1, BoundsAssumption DEF BoundsAssumption, Init, TypeOK, Results
<1>3. (\A p \in Procs : Checked(p)) /\ FreshId /\ AnswersTruthful
  BY DEF Init, Checked, UnderWay, At, FreshId, AnswersTruthful
<1>4. TableIsSound
  BY <1>1 DEF TableIsSound
<1> QED BY <1>2, <1>3, <1>4 DEF IInv
-----------------------------------------------------------------------------
\* A step of one request that leaves the table alone.
LEMMA LocalInv ==
  ASSUME IInv, NEW p \in Procs, UNCHANGED couriers, UNCHANGED client,
         TypeOK', lastId <= lastId',
         \A q \in Procs \ {p} : /\ pc'[q] = pc[q] /\ call'[q] = call[q] /\ row'[q] = row[q]
                                /\ result'[q] = result[q] /\ promised'[q] = promised[q],
         Checked(p)',
         At(p, "answer")' => Code(call[p].op, result[p])' \in promised'[p],
         At(p, "insert")' => /\ row'[p] \in 1..lastId' /\ row'[p] \notin DOMAIN couriers
                             /\ \A q \in Procs \ {p} : At(q, "insert") => row[q] # row'[p]
  PROVE  IInv'
<1>1. \A q \in Procs : Checked(q)'
  BY DEF IInv, Checked, UnderWay, At
<1>2. FreshId'
  <2>1. lastId \in Int /\ lastId' \in Int
    BY BoundsAssumption DEF IInv, TypeOK, BoundsAssumption
  <2> QED BY <2>1 DEF IInv, FreshId, At
<1>3. TableIsSound'
  BY DEF IInv, TableIsSound
<1>4. AnswersTruthful'
  BY DEF IInv, AnswersTruthful, At
<1> QED BY <1>1, <1>2, <1>3, <1>4 DEF IInv

\* A request ends without an effect: its result must have been promised.
LEMMA ConcludeInv ==
  ASSUME IInv, NEW p \in Procs, NEW r \in Results, Conclude(p, r), UnderWay(p),
         UNCHANGED <<table, call, row, client>>,
         \/ UNCHANGED promised /\ Code(call[p].op, r) \in promised[p]
         \/ r = "error" /\ promised' = [promised EXCEPT ![p] = @ \cup {500}]
  PROVE  IInv'
<1> USE DEF Conclude, Go, table, client
<1>1. call[p] \in Calls /\ call[p].op \in Ops
  BY CallFacts DEF IInv, Checked
<1>2. TypeOK'
  BY DEF IInv, TypeOK, Codes
<1>3. pc'[p] = "answer" /\ result'[p] = r
  BY DEF IInv, TypeOK
<1>4. Code(call[p].op, r) \in promised'[p]
  BY <1>1, CodeValues DEF IInv, TypeOK, Ops
<1>5. Checked(p)'
  BY <1>3 DEF Checked, UnderWay, At
<1>6. \A q \in Procs \ {p} : /\ pc'[q] = pc[q] /\ call'[q] = call[q] /\ row'[q] = row[q]
                             /\ result'[q] = result[q] /\ promised'[q] = promised[q]
  BY DEF IInv, TypeOK
<1>7. lastId <= lastId'
  BY BoundsAssumption DEF BoundsAssumption, IInv, TypeOK
<1> QED BY <1>2, <1>3, <1>4, <1>5, <1>6, <1>7, LocalInv DEF At

LEMMA RefuseInv ==
  ASSUME IInv, NEW p \in Procs, NEW c \in Calls, Refuse(p, c)
  PROVE  IInv'
<1> USE DEF Refuse, Receive, Conclude, Go, table, client
<1>1. c.text \in {"ok", "garbage", "large"} /\ c.op \in Ops
  BY CallFacts
<1>2. PICK r \in {"garbage", "large", "invalid"} :
         /\ pc' = [pc EXCEPT ![p] = "answer"] /\ result' = [result EXCEPT ![p] = r]
         /\ \/ r = c.text
            \/ r = "invalid" /\ c.text = "ok" /\ Refused(c)
  BY <1>1
<1>3. TypeOK'
  BY <1>2, PromisedType DEF IInv, TypeOK, Results
<1>4. pc'[p] = "answer" /\ result'[p] = r /\ call'[p] = c /\ promised'[p] = {Promised(couriers, c)}
  BY <1>2 DEF IInv, TypeOK
<1>5. Code(c.op, r) = Promised(couriers, c)
  <2>1. CASE r = "garbage"
    BY <1>1, <1>2, <2>1, CodeValues DEF Promised, Ops
  <2>2. CASE r = "large"
    BY <1>1, <1>2, <2>2, CodeValues, CallFacts DEF Promised, Ops
  <2>3. CASE r = "invalid"
    <3>1. c.text = "ok" /\ Refused(c)
      BY <1>1, <1>2, <2>3
    <3> QED BY <1>1, <2>3, <3>1, CodeValues, RefusedIsPromised DEF Ops
  <2> QED BY <2>1, <2>2, <2>3
<1>6. Checked(p)'
  BY <1>4 DEF Checked, UnderWay, At
<1>7. \A q \in Procs \ {p} : /\ pc'[q] = pc[q] /\ call'[q] = call[q] /\ row'[q] = row[q]
                             /\ result'[q] = result[q] /\ promised'[q] = promised[q]
  BY <1>2 DEF IInv, TypeOK
<1>8. lastId <= lastId'
  BY BoundsAssumption DEF BoundsAssumption, IInv, TypeOK
<1>9. Code(call[p].op, result[p])' \in promised'[p]
  BY <1>4, <1>5
<1>10. UNCHANGED couriers /\ UNCHANGED client
  OBVIOUS
<1>11. ~At(p, "insert")'
  BY <1>4 DEF At
<1> HIDE DEF Refuse, Receive, Conclude, Go, table, client
<1> QED BY <1>3, <1>6, <1>7, <1>8, <1>9, <1>10, <1>11, LocalInv

LEMMA AcceptInv ==
  ASSUME IInv, NEW p \in Procs, NEW c \in Calls, Accept(p, c)
  PROVE  IInv'
<1> USE DEF Accept, Receive, Go, table, client
<1>1. c.op \in Ops
  BY CallFacts
<1>2. /\ FirstStatement[c.op] \in {"select", "nextval", "find"}
      /\ c.op = "get" => FirstStatement[c.op] = "select"
      /\ c.op = "create" => FirstStatement[c.op] = "nextval"
      /\ c.op = "update" => FirstStatement[c.op] = "find"
  BY <1>1 DEF Ops, FirstStatement
<1>3. TypeOK'
  BY <1>2, PromisedType DEF IInv, TypeOK
<1>4. /\ pc'[p] = FirstStatement[c.op] /\ call'[p] = c
      /\ promised'[p] = {Promised(couriers, c)} /\ couriers' = couriers
  BY DEF IInv, TypeOK
<1>5. Checked(p)'
  <2>1. Promised(couriers, call[p])' = Promised(couriers, c)
    BY <1>4
  <2> QED BY <1>1, <1>2, <1>4, <2>1 DEF Checked, UnderWay, At, Ops
<1>6. \A q \in Procs \ {p} : /\ pc'[q] = pc[q] /\ call'[q] = call[q] /\ row'[q] = row[q]
                             /\ result'[q] = result[q] /\ promised'[q] = promised[q]
  BY DEF IInv, TypeOK
<1>7. lastId <= lastId'
  BY BoundsAssumption DEF BoundsAssumption, IInv, TypeOK
<1>8. ~At(p, "answer")' /\ ~At(p, "insert")'
  BY <1>2, <1>4 DEF At
<1> QED BY <1>3, <1>4, <1>5, <1>6, <1>7, <1>8, LocalInv

LEMMA NextValInv ==
  ASSUME IInv, NEW p \in Procs, NextVal(p)
  PROVE  IInv'
<1> USE DEF NextVal, Go, At, client
<1>1. lastId \in Nat /\ MaxId \in Nat /\ lastId + 1 \in 1..MaxId
  BY BoundsAssumption DEF BoundsAssumption, IInv, TypeOK
<1>2. TypeOK'
  BY <1>1 DEF IInv, TypeOK
<1>3. pc'[p] = "insert" /\ row'[p] = lastId + 1 /\ lastId' = lastId + 1
  BY DEF IInv, TypeOK
<1>4. lastId + 1 \notin DOMAIN couriers /\ \A q \in Procs \ {p} : row[q] # lastId + 1
  BY <1>1 DEF IInv, TypeOK
<1>5. Checked(p)'
  BY <1>3 DEF IInv, Checked, UnderWay
<1>6. \A q \in Procs \ {p} : /\ pc'[q] = pc[q] /\ call'[q] = call[q] /\ row'[q] = row[q]
                             /\ result'[q] = result[q] /\ promised'[q] = promised[q]
  BY DEF IInv, TypeOK
<1> QED BY <1>1, <1>2, <1>3, <1>4, <1>5, <1>6, LocalInv

LEMMA FindInv ==
  ASSUME IInv, NEW p \in Procs, Find(p)
  PROVE  IInv'
<1> USE DEF Find, Go, At, table, client
<1>1. TypeOK'
  BY DEF IInv, TypeOK
<1>2. pc'[p] = "update"
  BY DEF IInv, TypeOK
<1>3. Checked(p)'
  BY <1>2 DEF IInv, Checked, UnderWay
<1>4. \A q \in Procs \ {p} : /\ pc'[q] = pc[q] /\ call'[q] = call[q] /\ row'[q] = row[q]
                             /\ result'[q] = result[q] /\ promised'[q] = promised[q]
  BY DEF IInv, TypeOK
<1>5. lastId <= lastId'
  BY BoundsAssumption DEF BoundsAssumption, IInv, TypeOK
<1> QED BY <1>1, <1>2, <1>3, <1>4, <1>5, LocalInv

LEMMA AnswerInv ==
  ASSUME IInv, NEW p \in Procs, Answer(p)
  PROVE  IInv'
<1> USE DEF Answer, Go, At, table, client
<1>1. TypeOK'
  BY BoundsAssumption DEF BoundsAssumption, IInv, TypeOK, Results
<1>2. pc'[p] = "idle"
  BY DEF IInv, TypeOK
<1>3. Checked(p)'
  BY <1>2 DEF IInv, Checked, UnderWay
<1>4. \A q \in Procs \ {p} : /\ pc'[q] = pc[q] /\ call'[q] = call[q] /\ row'[q] = row[q]
                             /\ result'[q] = result[q] /\ promised'[q] = promised[q]
  BY DEF IInv, TypeOK
<1>5. lastId <= lastId'
  BY BoundsAssumption DEF BoundsAssumption, IInv, TypeOK
<1> QED BY <1>1, <1>2, <1>3, <1>4, <1>5, LocalInv

\* The statements that change nothing.
LEMMA NoEffectInv ==
  ASSUME IInv, NEW p \in Procs,
         Select(p) \/ InsertDuplicate(p) \/ FindNothing(p) \/ UpdateDuplicate(p) \/ Fail(p)
  PROVE  IInv'
<1> USE DEF At, table, client
<1>1. UnderWay(p)
  BY DEF UnderWay, Select, InsertDuplicate, FindNothing, UpdateDuplicate, Fail
<1>2. /\ call[p] \in Calls /\ call[p].text = "ok" /\ ~Refused(call[p])
      /\ Promised(couriers, call[p]) \in promised[p]
  BY <1>1 DEF IInv, Checked
<1>3. CASE Select(p)
  <2>1. call[p].op = "get"
    BY <1>3 DEF Select, IInv, Checked
  <2>2. CASE call[p].id \in DOMAIN couriers
    <3>1. Conclude(p, "ok") /\ Code(call[p].op, "ok") \in promised[p]
      BY <1>2, <1>3, <2>1, <2>2, GetPromised, CodeValues DEF Select
    <3> QED BY <1>1, <1>3, <3>1, ConcludeInv DEF Select, Results
  <2>3. CASE call[p].id \notin DOMAIN couriers
    <3>1. Conclude(p, "notfound") /\ Code(call[p].op, "notfound") \in promised[p]
      BY <1>2, <1>3, <2>1, <2>3, GetPromised, CodeValues DEF Select
    <3> QED BY <1>1, <1>3, <3>1, ConcludeInv DEF Select, Results
  <2> QED BY <2>2, <2>3
<1>4. CASE InsertDuplicate(p)
  <2>1. call[p].op = "create"
    BY <1>4 DEF InsertDuplicate, IInv, Checked
  <2>2. Code(call[p].op, "conflict") \in promised[p]
    BY <1>2, <1>4, <2>1, CreatePromised, CodeValues DEF InsertDuplicate
  <2> QED BY <1>1, <1>4, <2>2, ConcludeInv DEF InsertDuplicate, Results
<1>5. CASE FindNothing(p)
  <2>1. call[p].op = "update"
    BY <1>5 DEF FindNothing, IInv, Checked
  <2>2. Promised(couriers, call[p]) = 404
    <3>1. call[p].id \notin DOMAIN couriers
      BY <1>5 DEF FindNothing
    <3> QED BY <1>2, <2>1, <3>1, MissingPromised
  <2>3. Code(call[p].op, "notfound") = 404
    BY <2>1, CodeValues
  <2>4. Code(call[p].op, "notfound") \in promised[p]
    BY <1>2, <2>2, <2>3
  <2> QED BY <1>1, <1>5, <2>4, ConcludeInv DEF FindNothing, Results
<1>6. CASE UpdateDuplicate(p)
  <2>1. call[p].op = "update" /\ call[p].id \in DOMAIN couriers
    BY <1>6 DEF UpdateDuplicate, IInv, Checked
  <2>2. Code(call[p].op, "conflict") \in promised[p]
    BY <1>2, <1>6, <2>1, UpdatePromised, CodeValues DEF UpdateDuplicate
  <2> QED BY <1>1, <1>6, <2>2, ConcludeInv DEF UpdateDuplicate, Results
<1>7. CASE Fail(p)
  BY <1>1, <1>7, ConcludeInv DEF Fail, Results
<1> QED BY <1>3, <1>4, <1>5, <1>6, <1>7
-----------------------------------------------------------------------------
\* A legal row whose phone nobody else has leaves the table sound.
LEMMA StoredSound ==
  ASSUME IInv, NEW i \in 1..lastId, NEW r \in Rows, couriers' = Stored(i, r), lastId' = lastId,
         \A f \in Fields : r[f] \in Legal[f],
         ~Taken(couriers, r["phone"], Ids \ {i})
  PROVE  /\ DOMAIN couriers' = DOMAIN couriers \cup {i}
         /\ DOMAIN couriers' \subseteq 1..lastId'
         /\ \A j \in DOMAIN couriers' : couriers'[j] \in Rows
         /\ TableIsSound'
<1>1. lastId \in 0..MaxId /\ DOMAIN couriers \subseteq 1..lastId /\ MaxId \in Nat
  BY BoundsAssumption DEF BoundsAssumption, IInv, TypeOK
<1>2. DOMAIN couriers' = DOMAIN couriers \cup {i}
  BY DEF Stored
<1>3. couriers'[i] = r /\ \A j \in DOMAIN couriers : j # i => couriers'[j] = couriers[j]
  BY DEF Stored
<1>4. \A j \in DOMAIN couriers : j # i => couriers[j]["phone"] # r["phone"]
  BY <1>1 DEF Taken, Ids
<1>5. TableIsSound'
  BY <1>2, <1>3, <1>4 DEF IInv, TableIsSound
<1> QED BY <1>1, <1>2, <1>3, <1>5 DEF IInv, TypeOK

\* Other requests meet the new table.
LEMMA OthersChecked ==
  ASSUME IInv, NEW q \in Procs, pc'[q] = pc[q], call' = call,
         promised'[q] = Noted(q, couriers'), DOMAIN couriers \subseteq DOMAIN couriers'
  PROVE  Checked(q)'
  BY DEF IInv, Checked, UnderWay, At, Noted

\* A statement of p that stores a legal row at its place.
LEMMA WrittenInv ==
  ASSUME IInv, NEW p \in Procs, UnderWay(p),
         NEW i \in 1..lastId, NEW r \in Rows, Written(p, Stored(i, r)),
         UNCHANGED <<lastId, call, row, client>>,
         \A f \in Fields : r[f] \in Legal[f],
         ~Taken(couriers, r["phone"], Ids \ {i}),
         i \in DOMAIN couriers \/ (At(p, "insert") /\ i = row[p]),
         Code(call[p].op, "ok") \in promised[p]
  PROVE  IInv'
<1> USE DEF client
<1>1. PICK res \in {"ok", "error"} :
         /\ pc' = [pc EXCEPT ![p] = "answer"] /\ result' = [result EXCEPT ![p] = res]
         /\ promised' = [q \in Procs |-> IF q # p THEN Noted(q, couriers')
                                         ELSE IF res = "error" THEN promised[p] \cup {500}
                                         ELSE promised[p]]
  <2>1. PICK lost \in BOOLEAN :
           /\ Conclude(p, IF lost THEN "error" ELSE "ok")
           /\ promised' = [q \in Procs |-> IF q # p THEN Noted(q, Stored(i, r))
                                           ELSE IF lost THEN promised[p] \cup {500}
                                           ELSE promised[p]]
    BY DEF Written
  <2>2. couriers' = Stored(i, r)
    BY DEF Written
  <2>3. CASE lost = TRUE
    <3>1. /\ pc' = [pc EXCEPT ![p] = "answer"] /\ result' = [result EXCEPT ![p] = "error"]
          /\ promised' = [q \in Procs |-> IF q # p THEN Noted(q, couriers')
                                          ELSE promised[p] \cup {500}]
      BY <2>1, <2>2, <2>3 DEF Conclude, Go
    <3> QED BY <3>1
  <2>4. CASE lost = FALSE
    <3>1. /\ pc' = [pc EXCEPT ![p] = "answer"] /\ result' = [result EXCEPT ![p] = "ok"]
          /\ promised' = [q \in Procs |-> IF q # p THEN Noted(q, couriers') ELSE promised[p]]
      BY <2>1, <2>2, <2>4 DEF Conclude, Go
    <3> QED BY <3>1
  <2> QED BY <2>3, <2>4
<1>2. couriers' = Stored(i, r)
  BY DEF Written
<1>3. /\ DOMAIN couriers' = DOMAIN couriers \cup {i}
      /\ DOMAIN couriers' \subseteq 1..lastId'
      /\ \A j \in DOMAIN couriers' : couriers'[j] \in Rows
      /\ TableIsSound'
  BY <1>2, StoredSound
<1>4. \A q \in Procs : Noted(q, couriers') \in SUBSET Codes
  BY PromisedType DEF IInv, TypeOK, Noted
<1>5. promised' \in [Procs -> SUBSET Codes]
  BY <1>1, <1>4 DEF IInv, TypeOK, Codes
<1>6. TypeOK'
  BY <1>1, <1>3, <1>5 DEF IInv, TypeOK, Results
<1>7. /\ pc'[p] = "answer" /\ result'[p] = res
      /\ \A q \in Procs \ {p} : pc'[q] = pc[q] /\ result'[q] = result[q]
  BY <1>1 DEF IInv, TypeOK
<1>8. \A q \in Procs : Checked(q)'
  <2>1. Checked(p)'
    BY <1>7 DEF Checked, UnderWay, At
  <2>2. ASSUME NEW q \in Procs \ {p} PROVE Checked(q)'
    BY <1>1, <1>3, <1>7, OthersChecked
  <2> QED BY <2>1, <2>2
<1>9. FreshId'
  BY <1>3, <1>7 DEF IInv, FreshId, At
<1>10. AnswersTruthful'
  <2>1. Code(call[p].op, res) \in promised'[p]
    BY <1>1, CodeValues, CallFacts DEF IInv, Checked, Ops
  <2>2. \A q \in Procs \ {p} : At(q, "answer") => promised'[q] = promised[q]
    BY <1>1 DEF Noted, UnderWay, At
  <2> QED BY <1>7, <2>1, <2>2 DEF IInv, AnswersTruthful, At
<1> QED BY <1>3, <1>6, <1>8, <1>9, <1>10 DEF IInv

LEMMA InsertInv ==
  ASSUME IInv, NEW p \in Procs, Insert(p)
  PROVE  IInv'
<1>1. /\ UnderWay(p) /\ call[p] \in Calls /\ call[p].text = "ok" /\ ~Refused(call[p])
      /\ Promised(couriers, call[p]) \in promised[p] /\ call[p].op = "create"
  BY DEF Insert, IInv, Checked, UnderWay, At
<1>2. row[p] \in 1..lastId /\ At(p, "insert")
  BY DEF Insert, IInv, FreshId
<1> DEFINE r == WithDefaults(call[p].body)
<1>3. r \in Rows /\ r["phone"] = call[p].body["phone"]
  BY <1>1, CallFacts, WithDefaultsType
<1>4. \A f \in Fields : r[f] \in Legal[f]
  BY <1>1 DEF Refused, CreateRefused
<1>5. ~Taken(couriers, r["phone"], Ids \ {row[p]})
  BY <1>3 DEF Insert, Taken
<1>6. Code(call[p].op, "ok") \in promised[p]
  BY <1>1, CreatePromised, CodeValues DEF Insert
<1>7. Written(p, Stored(row[p], r)) /\ UNCHANGED <<lastId, call, row, client>>
  BY DEF Insert
<1> HIDE DEF r
<1> QED BY <1>1, <1>2, <1>3, <1>4, <1>5, <1>6, <1>7, WrittenInv

LEMMA UpdateInv ==
  ASSUME IInv, NEW p \in Procs, Update(p)
  PROVE  IInv'
<1>1. /\ UnderWay(p) /\ call[p] \in Calls /\ call[p].text = "ok" /\ ~Refused(call[p])
      /\ Promised(couriers, call[p]) \in promised[p] /\ call[p].op = "update"
      /\ call[p].id \in DOMAIN couriers
  BY DEF Update, IInv, Checked, UnderWay, At
<1> DEFINE i == call[p].id
           b == call[p].body
           r == Merge(couriers[i], b)
<1>2. i \in 1..lastId /\ couriers[i] \in Rows /\ b \in Bodies
  BY <1>1, CallFacts DEF IInv, TypeOK
<1>3. r \in Rows /\ \A f \in Fields : r[f] = IF b[f] = Absent THEN couriers[i][f] ELSE b[f]
  BY <1>2, MergeType
<1>4. \A f \in Fields : r[f] \in Legal[f]
  BY <1>1, <1>3 DEF Refused, UpdateRefused, IInv, TableIsSound
<1>5. ~Taken(couriers, r["phone"], Ids \ {i})
  <2>1. ~Taken(couriers, b["phone"], Ids \ {i})
    BY DEF Update
  <2>2. ~Taken(couriers, couriers[i]["phone"], Ids \ {i})
    BY <1>1 DEF Taken, IInv, TableIsSound
  <2>3. r["phone"] \in {b["phone"], couriers[i]["phone"]}
    BY <1>3 DEF Fields
  <2> QED BY <2>1, <2>2, <2>3
<1>6. Code(call[p].op, "ok") \in promised[p]
  BY <1>1, UpdatePromised, CodeValues DEF Update
<1>7. Written(p, Stored(i, r)) /\ UNCHANGED <<lastId, call, row, client>>
  BY DEF Update
<1> HIDE DEF r, b, i
<1>8. i \in DOMAIN couriers
  BY <1>1 DEF i
<1> QED BY <1>1, <1>2, <1>3, <1>4, <1>5, <1>6, <1>7, <1>8, WrittenInv

LEMMA StatusInv ==
  ASSUME IInv, NEW i \in Ids, NEW s \in {"available", "busy"}, UpdateCourierStatus(i, s)
  PROVE  IInv'
<1> USE DEF UpdateCourierStatus, client
<1> DEFINE r == [couriers[i] EXCEPT !["status"] = s]
<1>1. i \in 1..lastId /\ couriers[i] \in Rows
  BY DEF IInv, TypeOK
<1>2. /\ r \in Rows
      /\ \A f \in Fields : r[f] = IF f = "status" THEN s ELSE couriers[i][f]
  BY <1>1 DEF Rows, Texts, Statuses
<1>3. \A f \in Fields : r[f] \in Legal[f]
  BY <1>2 DEF IInv, TableIsSound, Legal, Statuses
<1>4. ~Taken(couriers, r["phone"], Ids \ {i})
  BY <1>2 DEF Taken, IInv, TableIsSound, Fields
<1>5. couriers' = Stored(i, r) /\ lastId' = lastId
  OBVIOUS
<1> HIDE DEF r
<1>6. /\ DOMAIN couriers' = DOMAIN couriers \cup {i}
      /\ DOMAIN couriers' \subseteq 1..lastId'
      /\ \A j \in DOMAIN couriers' : couriers'[j] \in Rows
      /\ TableIsSound'
  BY <1>1, <1>2, <1>3, <1>4, <1>5, StoredSound
<1>7. promised' \in [Procs -> SUBSET Codes] /\ \A q \in Procs : promised'[q] = Noted(q, couriers')
  BY PromisedType DEF IInv, TypeOK, Noted
<1>8. TypeOK'
  BY <1>6, <1>7 DEF IInv, TypeOK
<1>9. \A q \in Procs : Checked(q)'
  BY <1>6, <1>7, OthersChecked
<1>10. FreshId'
  BY <1>6 DEF IInv, FreshId, At
<1>11. AnswersTruthful'
  BY <1>7 DEF IInv, AnswersTruthful, At, Noted, UnderWay
<1> QED BY <1>6, <1>8, <1>9, <1>10, <1>11 DEF IInv

\* A client that lists couriers reads only.
LEMMA WalkInv ==
  ASSUME IInv, StartWalk \/ NextPage \/ EndWalk
  PROVE  IInv'
<1>1. UNCHANGED <<table, request>>
  BY DEF StartWalk, NextPage, EndWalk
<1>2. walk' \in {"none", "on", "over"} /\ offset' \in Nat /\ owed' \subseteq Ids
  <2>1. offset \in Nat /\ owed \subseteq Ids /\ PageSize \in Nat
    BY BoundsAssumption DEF BoundsAssumption, IInv, TypeOK
  <2>2. DOMAIN couriers \subseteq Ids
    BY BoundsAssumption DEF BoundsAssumption, IInv, TypeOK, Ids
  <2>3. CASE NextPage
    BY <2>1, <2>3 DEF NextPage
  <2> QED BY <2>1, <2>2, <2>3 DEF StartWalk, EndWalk
<1> QED BY <1>1, <1>2 DEF IInv, TypeOK, Checked, UnderWay, At, FreshId, TableIsSound,
        AnswersTruthful, table, request

THEOREM Invariance == Spec => []IInv
<1>1. Init => IInv
  BY InitIInv
<1>2. IInv /\ [Next]_vars => IInv'
  <2> SUFFICES ASSUME IInv, [Next]_vars PROVE IInv'
    OBVIOUS
  <2>1. ASSUME NEW p \in Procs, Step(p) PROVE IInv'
    BY <2>1, RefuseInv, AcceptInv, NextValInv, FindInv, AnswerInv, NoEffectInv, InsertInv, UpdateInv
       DEF Step
  <2>2. ASSUME NEW i \in Ids, NEW s \in {"available", "busy"}, UpdateCourierStatus(i, s) PROVE IInv'
    BY <2>2, StatusInv
  <2>3. CASE StartWalk \/ NextPage \/ EndWalk
    BY <2>3, WalkInv
  <2>4. CASE UNCHANGED vars
    BY <2>4 DEF vars, IInv, TypeOK, Checked, UnderWay, At, FreshId, TableIsSound,
       AnswersTruthful, table, request, client
  <2> QED BY <2>1, <2>2, <2>3, <2>4 DEF Next
<1> QED BY <1>1, <1>2, PTL DEF Spec

(* The variables keep their types. *)
THEOREM TypeCorrect == Spec => []TypeOK
<1>1. IInv => TypeOK
  BY DEF IInv
<1> QED BY <1>1, Invariance, PTL

(* Checks of single requests keep the whole table legal and phones unique. *)
THEOREM TableStaysSound == Spec => []TableIsSound
<1>1. IInv => TableIsSound
  BY DEF IInv
<1> QED BY <1>1, Invariance, PTL

(* Every code but 500 was right at some moment of its request. *)
THEOREM CodesAreTrue == Spec => []AnswersTruthful
<1>1. IInv => AnswersTruthful
  BY DEF IInv
<1> QED BY <1>1, Invariance, PTL
-----------------------------------------------------------------------------
\* What may happen to the fields of a courier in one step.
FieldsAsAsked ==
    \A i \in DOMAIN couriers :
        /\ i \in DOMAIN couriers'
        /\ \A f \in Fields : couriers'[i][f] # couriers[i][f] =>
              \/ f = "status" /\ couriers'[i][f] \in {"available", "busy"}
              \/ \E p \in Procs : /\ At(p, "update") /\ call[p].id = i
                                  /\ call[p].body[f] = couriers'[i][f]

\* An insertion has an id of its own.
LEMMA InsertAsks ==
  ASSUME IInv, NEW p \in Procs, Insert(p)
  PROVE  FieldsAsAsked
<1>1. row[p] \notin DOMAIN couriers
  BY DEF Insert, IInv, FreshId
<1>2. couriers' = Stored(row[p], WithDefaults(call[p].body))
  BY DEF Insert, Written
<1>3. \A i \in DOMAIN couriers : i \in DOMAIN couriers' /\ couriers'[i] = couriers[i]
  BY <1>1, <1>2 DEF Stored
<1> QED BY <1>3 DEF FieldsAsAsked

\* An update writes what it was given on the row as it is.
LEMMA UpdateAsks ==
  ASSUME IInv, NEW p \in Procs, Update(p)
  PROVE  FieldsAsAsked
<1> DEFINE i == call[p].id
           b == call[p].body
<1>1. call[p] \in Calls /\ i \in DOMAIN couriers /\ At(p, "update")
  BY DEF Update, IInv, Checked, UnderWay, At
<1>2. couriers[i] \in Rows /\ b \in Bodies
  BY <1>1, CallFacts DEF IInv, TypeOK
<1>3. couriers' = Stored(i, Merge(couriers[i], b))
  BY DEF Update, Written
<1>4. \A f \in Fields : Merge(couriers[i], b)[f] = IF b[f] = Absent THEN couriers[i][f] ELSE b[f]
  BY <1>2, MergeType
<1> HIDE DEF i, b
<1>5. /\ DOMAIN couriers' = DOMAIN couriers \cup {i}
      /\ couriers'[i] = Merge(couriers[i], b)
      /\ \A j \in DOMAIN couriers : j # i => couriers'[j] = couriers[j]
  BY <1>3 DEF Stored
<1>6. \A f \in Fields : couriers'[i][f] # couriers[i][f] => b[f] = couriers'[i][f]
  BY <1>4, <1>5
<1>7. call[p].id = i /\ call[p].body = b
  BY DEF i, b
<1> QED BY <1>1, <1>5, <1>6, <1>7 DEF FieldsAsAsked

LEMMA StatusAsks ==
  ASSUME IInv, NEW i \in Ids, NEW s \in {"available", "busy"}, UpdateCourierStatus(i, s)
  PROVE  FieldsAsAsked
<1>1. i \in DOMAIN couriers /\ couriers' = Stored(i, [couriers[i] EXCEPT !["status"] = s])
  BY DEF UpdateCourierStatus
<1>2. couriers[i] \in Rows
  BY <1>1 DEF IInv, TypeOK
<1>3. /\ DOMAIN couriers' = DOMAIN couriers \cup {i}
      /\ couriers'[i] = [couriers[i] EXCEPT !["status"] = s]
      /\ \A j \in DOMAIN couriers : j # i => couriers'[j] = couriers[j]
  BY <1>1 DEF Stored
<1>4. \A f \in Fields : couriers'[i][f] = IF f = "status" THEN s ELSE couriers[i][f]
  BY <1>2, <1>3 DEF Rows
<1> QED BY <1>1, <1>3, <1>4 DEF FieldsAsAsked

LEMMA TableUntouched ==
  ASSUME UNCHANGED couriers
  PROVE  FieldsAsAsked
  BY DEF FieldsAsAsked

\* So every step changes only what it was asked to.
LEMMA FieldsStep ==
  ASSUME IInv, [Next]_vars
  PROVE  [FieldsAsAsked]_vars
<1>1. ASSUME NEW p \in Procs, Step(p) PROVE FieldsAsAsked
  <2>1. CASE Insert(p)
    BY <2>1, InsertAsks
  <2>2. CASE Update(p)
    BY <2>2, UpdateAsks
  <2>3. CASE ~Insert(p) /\ ~Update(p)
    <3>1. UNCHANGED couriers
      BY <1>1, <2>3 DEF Step, Refuse, Accept, Receive, Select, NextVal, InsertDuplicate, Find,
         FindNothing, UpdateDuplicate, Fail, Answer, table
    <3> QED BY <3>1, TableUntouched
  <2> QED BY <2>1, <2>2, <2>3
<1>2. ASSUME NEW i \in Ids, NEW s \in {"available", "busy"}, UpdateCourierStatus(i, s)
      PROVE  FieldsAsAsked
  BY <1>2, StatusAsks
<1>3. ASSUME StartWalk \/ NextPage \/ EndWalk \/ UNCHANGED vars PROVE FieldsAsAsked
  <2>1. UNCHANGED couriers
    BY <1>3 DEF StartWalk, NextPage, EndWalk, vars, table
  <2> QED BY <2>1, TableUntouched
<1> QED BY <1>1, <1>2, <1>3 DEF Next

(* No update is lost and none writes a field that it was not given,         *)
(* whatever other requests and deliveries do to the courier meanwhile.      *)
THEOREM NoLostUpdate == Spec => OnlyAskedFields
<1>1. IInv /\ [Next]_vars => [FieldsAsAsked]_vars
  BY FieldsStep
<1>2. [][FieldsAsAsked]_vars => OnlyAskedFields
  BY PTL DEF OnlyAskedFields, FieldsAsAsked
<1> QED BY <1>1, <1>2, Invariance, PTL DEF Spec
-----------------------------------------------------------------------------
\* Ranks in a finite set of ids.
RankIn(S, i) == Cardinality({j \in S : Precedes(j, i)})
PageOf(S, from) == {i \in S : from <= RankIn(S, i) /\ RankIn(S, i) < from + PageSize}

\* They are 0, 1, ... in their order.
LEMMA RankOrder ==
  ASSUME NEW S, IsFiniteSet(S), S \subseteq Int
  PROVE  /\ \A i \in S : RankIn(S, i) \in Nat /\ RankIn(S, i) < Cardinality(S)
         /\ \A i, j \in S : i < j => RankIn(S, i) < RankIn(S, j)
<1> DEFINE Below(i) == {j \in S : Precedes(j, i)}
<1>1. \A i \in S : /\ IsFiniteSet(Below(i)) /\ Cardinality(Below(i)) \in Nat
                   /\ Cardinality(Below(i)) <= Cardinality(S)
                   /\ Cardinality(Below(i)) # Cardinality(S)
  <2> SUFFICES ASSUME NEW i \in S
               PROVE  /\ IsFiniteSet(Below(i)) /\ Cardinality(Below(i)) \in Nat
                      /\ Cardinality(Below(i)) <= Cardinality(S)
                      /\ Cardinality(Below(i)) # Cardinality(S)
    OBVIOUS
  <2>1. Below(i) \in SUBSET S /\ i \notin Below(i)
    BY DEF Precedes
  <2> HIDE DEF Below
  <2> QED BY <2>1, FS_Subset, FS_CardinalityType
<1>2. Cardinality(S) \in Nat
  BY FS_CardinalityType
<1>3. ASSUME NEW i \in S, NEW j \in S, i < j
      PROVE  Cardinality(Below(i)) < Cardinality(Below(j))
  <2>1. \A k \in S : k < i => k < j
    BY <1>3
  <2>2. Below(i) \in SUBSET Below(j) /\ i \in Below(j) /\ i \notin Below(i)
    <3>1. Below(i) \subseteq Below(j)
      BY <2>1 DEF Precedes
    <3>2. i \in Below(j)
      BY <1>3 DEF Precedes
    <3>3. i \notin Below(i)
      BY DEF Precedes
    <3> QED BY <3>1, <3>2, <3>3
  <2> HIDE DEF Below
  <2>3. /\ Cardinality(Below(i)) <= Cardinality(Below(j))
        /\ Cardinality(Below(i)) # Cardinality(Below(j))
    BY <1>1, <2>2, FS_Subset
  <2> QED BY <1>1, <2>3
<1>4. \A i : RankIn(S, i) = Cardinality(Below(i))
  BY DEF RankIn
<1> HIDE DEF Below
<1> QED BY <1>1, <1>2, <1>3, <1>4

LEMMA RankUnique ==
  ASSUME NEW S, IsFiniteSet(S), S \subseteq Int,
         NEW i \in S, NEW j \in S, RankIn(S, i) = RankIn(S, j)
  PROVE  i = j
<1>1. /\ RankIn(S, i) \in Nat /\ RankIn(S, j) \in Nat
      /\ i < j => RankIn(S, i) < RankIn(S, j)
      /\ j < i => RankIn(S, j) < RankIn(S, i)
  BY RankOrder
<1>2. ~(i < j) /\ ~(j < i)
  BY <1>1
<1> QED BY <1>2

\* Every rank below the number of ids is somebody's.
LEMMA RankOnto ==
  ASSUME NEW S, IsFiniteSet(S), S \subseteq Int, NEW k \in Nat, k < Cardinality(S)
  PROVE  \E i \in S : RankIn(S, i) = k
<1> DEFINE n == Cardinality(S)
           rank == [i \in S |-> RankIn(S, i)]
<1>1. n \in Nat
  BY FS_CardinalityType
<1>2. \A i \in S : RankIn(S, i) \in Nat /\ RankIn(S, i) < n
  BY RankOrder
<1>3. k < n
  OBVIOUS
<1> HIDE DEF n
<1>4. IsFiniteSet(0..(n-1)) /\ Cardinality(0..(n-1)) = n
  <2>1. n - 1 \in Int
    BY <1>1
  <2>2. Cardinality(0..(n-1)) = IF 0 > n - 1 THEN 0 ELSE (n - 1) - 0 + 1
    BY <2>1, FS_Interval
  <2>3. (IF 0 > n - 1 THEN 0 ELSE (n - 1) - 0 + 1) = n
    BY <1>1
  <2> QED BY <2>1, <2>2, <2>3, FS_Interval
<1>5. \A i \in S : RankIn(S, i) \in 0..(n-1)
  BY <1>1, <1>2
<1>6. rank \in Injection(S, 0..(n-1))
  BY <1>5, RankUnique DEF Injection, IsInjective
<1> HIDE DEF rank
<1>7. rank \in Surjection(S, 0..(n-1))
  BY <1>4, <1>6, FS_Injection DEF n
<1>8. k \in 0..(n-1)
  BY <1>1, <1>3
<1>9. \E i \in S : rank[i] = k
  BY <1>7, <1>8 DEF Surjection
<1> QED BY <1>9 DEF rank

\* If somebody is to come after a page, the page is full.
LEMMA PageIsFull ==
  ASSUME NEW S, IsFiniteSet(S), S \subseteq Int,
         NEW from \in Nat, NEW last \in S, from + PageSize <= RankIn(S, last)
  PROVE  Cardinality(PageOf(S, from)) = PageSize
<1> DEFINE page == PageOf(S, from)
           rank == [i \in page |-> RankIn(S, i)]
           upto == from + PageSize - 1
<1>1. PageSize \in Nat /\ from <= upto /\ upto \in Int
  BY BoundsAssumption DEF BoundsAssumption
<1>2. IsFiniteSet(from..upto) /\ Cardinality(from..upto) = PageSize
  BY <1>1, FS_Interval
<1>3. page \subseteq S /\ \A i \in page : RankIn(S, i) \in from..upto
  <2>1. \A i \in S : RankIn(S, i) \in Nat
    BY RankOrder
  <2> QED BY <1>1, <2>1 DEF PageOf
<1>4. \A i, j \in page : RankIn(S, i) = RankIn(S, j) => i = j
  BY <1>3, RankUnique
<1>5. \A k \in from..upto : \E i \in page : RankIn(S, i) = k
  <2> SUFFICES ASSUME NEW k \in from..upto PROVE \E i \in page : RankIn(S, i) = k
    OBVIOUS
  <2>1. /\ Cardinality(S) \in Nat /\ RankIn(S, last) < Cardinality(S)
        /\ RankIn(S, last) \in Nat
    BY RankOrder, FS_CardinalityType
  <2>2. k \in Nat /\ k < Cardinality(S)
    BY <1>1, <2>1
  <2>3. PICK i \in S : RankIn(S, i) = k
    BY <2>2, RankOnto
  <2> QED BY <1>1, <2>3 DEF PageOf
<1> HIDE DEF page, upto
<1>6. rank \in Injection(page, from..upto)
  BY <1>3, <1>4 DEF Injection, IsInjective
<1>7. rank \in Surjection(page, from..upto)
  BY <1>5, <1>6 DEF Injection, Surjection
<1> HIDE DEF rank
<1>8. Cardinality(page) = Cardinality(from..upto)
  BY <1>2, <1>6, <1>7, FS_Injection
<1> QED BY <1>2, <1>8 DEF page

\* Ranks only grow with the set.
LEMMA RanksGrow ==
  ASSUME NEW S, NEW T, IsFiniteSet(T), S \subseteq T, NEW i
  PROVE  RankIn(S, i) <= RankIn(T, i)
<1> DEFINE below == {j \in S : Precedes(j, i)}
           now == {j \in T : Precedes(j, i)}
<1>1. now \in SUBSET T /\ below \in SUBSET now
  OBVIOUS
<1>2. RankIn(S, i) = Cardinality(below) /\ RankIn(T, i) = Cardinality(now)
  BY DEF RankIn
<1> HIDE DEF below, now
<1>3. IsFiniteSet(now)
  BY <1>1, FS_Subset
<1> QED BY <1>1, <1>2, <1>3, FS_Subset

LEMMA IdsFinite ==
  ASSUME NEW n \in Int, NEW S \in SUBSET (1..n)
  PROVE  IsFiniteSet(S) /\ S \subseteq Int
<1>1. IsFiniteSet(1..n)
  BY FS_Interval
<1>2. IsFiniteSet(S)
  BY <1>1, FS_Subset
<1>3. S \subseteq Int
  OBVIOUS
<1> QED BY <1>2, <1>3

LEMMA RankIsRankIn ==
  /\ \A i : Rank(i) = RankIn(DOMAIN couriers, i)
  /\ \A from : List(PageSize, from) = PageOf(DOMAIN couriers, from)
  BY DEF Rank, RankIn, List, PageOf
-----------------------------------------------------------------------------
\* Whom the client has still to see is on this page or after it.
Ahead ==
    /\ walk = "on" => \A i \in owed : i \in DOMAIN couriers /\ offset <= RankIn(DOMAIN couriers, i)
    /\ walk # "on" => offset = 0

WalkIInv == Ahead /\ WalkMissesNobody

\* Rows are only added.
LEMMA TableGrows ==
  ASSUME IInv, IInv', WalkIInv, UNCHANGED client, DOMAIN couriers \subseteq DOMAIN couriers'
  PROVE  WalkIInv'
<1>1. /\ IsFiniteSet(DOMAIN couriers) /\ DOMAIN couriers \subseteq Int
      /\ IsFiniteSet(DOMAIN couriers') /\ DOMAIN couriers' \subseteq Int
  <2>1. /\ lastId \in Int /\ DOMAIN couriers \in SUBSET (1..lastId)
        /\ lastId' \in Int /\ DOMAIN couriers' \in SUBSET (1..lastId')
    BY BoundsAssumption DEF BoundsAssumption, IInv, TypeOK
  <2> QED BY <2>1, IdsFinite
<1>2. \A i \in DOMAIN couriers : /\ RankIn(DOMAIN couriers, i) \in Nat
                                 /\ RankIn(DOMAIN couriers', i) \in Nat
                                 /\ RankIn(DOMAIN couriers, i) <= RankIn(DOMAIN couriers', i)
  BY <1>1, RankOrder, RanksGrow
<1>3. offset \in Nat
  BY DEF IInv, TypeOK
<1> QED BY <1>2, <1>3 DEF WalkIInv, Ahead, WalkMissesNobody, client

\* A page that is not full is the last.
LEMMA PageAhead ==
  ASSUME IInv, WalkIInv, NextPage
  PROVE  WalkIInv'
<1> DEFINE D == DOMAIN couriers
           page == PageOf(D, offset)
<1>1. IsFiniteSet(D) /\ D \subseteq Int
  <2>1. lastId \in Int /\ D \in SUBSET (1..lastId)
    BY BoundsAssumption DEF BoundsAssumption, IInv, TypeOK
  <2> QED BY <2>1, IdsFinite
<1>2. offset \in Nat /\ PageSize \in Nat
  BY BoundsAssumption DEF BoundsAssumption, IInv, TypeOK
<1>3. \A i \in owed : i \in D /\ offset <= RankIn(D, i) /\ RankIn(D, i) \in Nat
  BY <1>1, RankOrder DEF NextPage, WalkIInv, Ahead
<1>4. \A i \in owed \ page : i \in D /\ offset + PageSize <= RankIn(D, i)
  BY <1>2, <1>3 DEF PageOf
<1>5. owed' = owed \ page /\ UNCHANGED couriers
  BY RankIsRankIn DEF NextPage, table
<1>6. CASE Cardinality(page) = PageSize
  <2>1. walk' = "on" /\ offset' = offset + PageSize
    BY <1>6, RankIsRankIn DEF NextPage
  <2> QED BY <1>4, <1>5, <2>1 DEF WalkIInv, Ahead, WalkMissesNobody
<1>7. CASE Cardinality(page) # PageSize
  <2>1. walk' = "over" /\ offset' = 0
    BY <1>7, RankIsRankIn DEF NextPage
  <2>2. owed \ page = {}
    BY <1>1, <1>2, <1>4, <1>7, PageIsFull
  <2> QED BY <1>5, <2>1, <2>2 DEF WalkIInv, Ahead, WalkMissesNobody
<1> QED BY <1>6, <1>7

(* A client that lists page by page sees everybody who was there when it   *)
(* began, whoever is added or changed meanwhile.                           *)
THEOREM WalksAreComplete == Spec => []WalkMissesNobody
<1>1. Init => WalkIInv
  BY DEF Init, WalkIInv, Ahead, WalkMissesNobody
<1>2. ASSUME IInv, IInv', WalkIInv, [Next]_vars PROVE WalkIInv'
  <2>1. CASE StartWalk
    <3>1. lastId \in Int /\ DOMAIN couriers \in SUBSET (1..lastId)
      BY <1>2, BoundsAssumption DEF BoundsAssumption, IInv, TypeOK
    <3>2. \A i \in DOMAIN couriers : RankIn(DOMAIN couriers, i) \in Nat
      BY <3>1, IdsFinite, RankOrder
    <3> QED BY <1>2, <2>1, <3>2 DEF StartWalk, WalkIInv, Ahead, WalkMissesNobody, table
  <2>2. CASE NextPage
    BY <1>2, <2>2, PageAhead
  <2>3. CASE EndWalk
    BY <1>2, <2>3 DEF EndWalk, WalkIInv, Ahead, WalkMissesNobody
  <2>4. CASE UNCHANGED vars
    BY <1>2, <2>4, TableGrows DEF vars, table, client
  <2>5. ASSUME NEW p \in Procs, Step(p) PROVE UNCHANGED client
    BY <2>5 DEF Step, Refuse, Accept, Receive, Select, NextVal, Insert, InsertDuplicate, Find,
       FindNothing, Update, UpdateDuplicate, Fail, Answer, Written, client
  <2>6. ASSUME NEW i \in Ids, NEW s \in {"available", "busy"}, UpdateCourierStatus(i, s)
        PROVE  UNCHANGED client
    BY <2>6 DEF UpdateCourierStatus
  <2>7. CASE \/ \E p \in Procs : Step(p)
             \/ \E i \in Ids, s \in {"available", "busy"} : UpdateCourierStatus(i, s)
    <3>1. UNCHANGED client
      BY <2>5, <2>6, <2>7
    <3>2. UNCHANGED vars \/ FieldsAsAsked
      BY <1>2, FieldsStep
    <3>3. DOMAIN couriers \subseteq DOMAIN couriers'
      BY <3>2 DEF FieldsAsAsked, vars, table
    <3> QED BY <1>2, <3>1, <3>3, TableGrows
  <2> QED BY <1>2, <2>1, <2>2, <2>3, <2>4, <2>7 DEF Next
<1>3. WalkIInv => WalkMissesNobody
  BY DEF WalkIInv
<1>4. IInv /\ IInv' /\ WalkIInv /\ [Next]_vars => WalkIInv'
  BY <1>2
<1> QED BY <1>1, <1>3, <1>4, Invariance, PTL DEF Spec
-----------------------------------------------------------------------------
(***************************************************************************)
(* The requests are served as if one by one.                               *)
(***************************************************************************)
Asked == \A p \in Procs : IF At(p, "idle") THEN call[p] = NoCall ELSE call[p] \in Calls

LEMMA AskedNext == TypeOK /\ Asked /\ [Next]_vars => Asked'
<1> SUFFICES ASSUME TypeOK, Asked, [Next]_vars PROVE Asked'
  OBVIOUS
<1>1. ASSUME NEW p \in Procs, Step(p)
      PROVE  Asked'
  <2>1. CASE \E c \in Calls : Refuse(p, c) \/ Accept(p, c)
    BY <2>1, CallFacts DEF Asked, TypeOK, Refuse, Accept, Receive, Conclude, Go, At, FirstStatement, Ops
  <2>2. CASE Answer(p)
    BY <2>2 DEF Asked, TypeOK, Answer, Go, At
  <2>3. CASE ~Answer(p) /\ ~\E c \in Calls : Refuse(p, c) \/ Accept(p, c)
    <3>1. /\ UNCHANGED call /\ pc[p] # "idle"
          /\ \E s \in {"answer", "insert", "update"} : pc' = [pc EXCEPT ![p] = s]
      BY <1>1, <2>3 DEF Step, Select, NextVal, Insert, InsertDuplicate, Find, FindNothing, Update,
         UpdateDuplicate, Fail, Written, Conclude, Go, At, UnderWay, table
    <3> QED BY <3>1 DEF Asked, TypeOK, At
  <2> QED BY <2>1, <2>2, <2>3
<1>2. ASSUME \E i \in Ids, s \in {"available", "busy"} : UpdateCourierStatus(i, s)
      PROVE  Asked'
  BY <1>2 DEF UpdateCourierStatus, Asked, At
<1>3. ASSUME StartWalk \/ NextPage \/ EndWalk \/ UNCHANGED vars
      PROVE  Asked'
  BY <1>3 DEF StartWalk, NextPage, EndWalk, vars, request, Asked, At
<1> QED BY <1>1, <1>2, <1>3 DEF Next

\* The checks let through what is legitimate.
LEMMA ChecksAreRight ==
    ASSUME NEW c \in Calls
    PROVE  Directory!Legitimate(c) <=> c.text = "ok" /\ ~Refused(c)
<1> USE CallFacts
<1>1. c.id \in Int /\ c.op \in Ops /\ c.body \in Bodies
  OBVIOUS
<1>2. Directory!NewRow(c.body) = WithDefaults(c.body)
  BY <1>1 DEF Directory!NewRow, WithDefaults, Bodies, Fields
<1>3. c.id > 0 <=> ~(c.id <= 0)
  BY <1>1
<1> QED BY <1>1, <1>2, <1>3 DEF Directory!Legitimate, Directory!Given, Refused, CreateRefused,
    UpdateRefused, Ops

\* A step of one request moves its code only.
LEMMA CodesMove ==
    ASSUME NEW p \in Procs,
           \A q \in Procs \ {p} : pc'[q] = pc[q] /\ call'[q] = call[q] /\ result'[q] = result[q]
    PROVE  AnswerCodes' = [AnswerCodes EXCEPT ![p] =
                             IF pc'[p] = "answer" THEN Code(call'[p].op, result'[p]) ELSE 0]
BY DEF AnswerCodes, At

LEMMA CodeNotZero == ASSUME NEW o \in Ops, NEW r \in Results PROVE Code(o, r) # 0
<1>1. Code("get", r) # 0
  BY DEF Code, Mapped, Results
<1>2. Code("create", r) # 0
  BY DEF Code, Mapped, Results
<1>3. Code("update", r) # 0
  BY DEF Code, Mapped, Results
<1> QED BY <1>1, <1>2, <1>3 DEF Ops

LEMMA RefuseRejects ==
    ASSUME TypeOK, Asked, NEW p \in Procs, NEW c \in Calls, Refuse(p, c)
    PROVE  Directory!Reject(p, c)
<1>1. /\ call[p] = NoCall /\ call' = [call EXCEPT ![p] = c] /\ call'[p] = c
      /\ UNCHANGED couriers
  BY DEF Refuse, Receive, Asked, At, TypeOK, table
<1>2. PICK r \in Results :
        /\ pc' = [pc EXCEPT ![p] = "answer"] /\ result' = [result EXCEPT ![p] = r]
        /\ \/ c.text # "ok" /\ r = c.text
           \/ c.text = "ok" /\ Refused(c) /\ r = "invalid"
  BY CallFacts DEF Refuse, Conclude, Go, Results
<1>3. AnswerCodes' = [AnswerCodes EXCEPT ![p] = Code(c.op, r)]
  BY <1>1, <1>2, CodesMove DEF TypeOK
<1>4. Code(c.op, r) = IF c.text = "large" THEN 413 ELSE 400
  BY <1>2, CallFacts, CodeValues DEF Ops
<1>5. ~Directory!Legitimate(c)
  BY <1>2, ChecksAreRight
<1> QED BY <1>1, <1>3, <1>4, <1>5 DEF Directory!Reject

LEMMA AcceptAsks ==
    ASSUME TypeOK, Asked, NEW p \in Procs, NEW c \in Calls, Accept(p, c)
    PROVE  Directory!Ask(p, c)
<1>1. /\ call[p] = NoCall /\ call' = [call EXCEPT ![p] = c] /\ At(p, "idle")
      /\ UNCHANGED <<couriers, result>>
  BY DEF Accept, Receive, Asked, At, TypeOK, table
<1>2. \E s \in {"select", "nextval", "find"} : pc' = [pc EXCEPT ![p] = s]
  <2>1. FirstStatement[c.op] \in {"select", "nextval", "find"}
    BY CallFacts DEF FirstStatement, Ops
  <2> QED BY <2>1 DEF Accept, Go
<1>3. AnswerCodes' = [AnswerCodes EXCEPT ![p] = 0]
  BY <1>1, <1>2, CodesMove DEF TypeOK
<1>4. AnswerCodes[p] = 0 /\ AnswerCodes \in [Procs -> {AnswerCodes[q] : q \in Procs}]
  BY <1>1 DEF AnswerCodes, At
<1>5. UNCHANGED AnswerCodes
  BY <1>3, <1>4
<1>6. Directory!Legitimate(c)
  BY ChecksAreRight DEF Accept
<1> QED BY <1>1, <1>5, <1>6 DEF Directory!Ask

\* A request that ends: the table and the code it leaves are an outcome of it,
\* or the code is 500.
LEMMA ConcludeServes ==
    ASSUME TypeOK, Asked, NEW p \in Procs, NEW r \in Results, Conclude(p, r), UnderWay(p),
           UNCHANGED call, NEW n,
           <<couriers', n>> \in Directory!Outcomes(call[p]),
           Code(call[p].op, r) \in {n, 500}
    PROVE  Directory!Serve(p)
<1>1. call[p] # NoCall /\ AnswerCodes[p] = 0
  BY CallFacts DEF Asked, UnderWay, At, AnswerCodes
<1>2. AnswerCodes' = [AnswerCodes EXCEPT ![p] = Code(call[p].op, r)]
  BY CodesMove DEF Conclude, Go, TypeOK
<1>3. PICK lost \in BOOLEAN : Code(call[p].op, r) = IF lost THEN 500 ELSE n
  OBVIOUS
<1>4. PICK o \in Directory!Outcomes(call[p]) : o = <<couriers', n>>
  OBVIOUS
<1>5. /\ couriers' = o[1]
      /\ AnswerCodes' = [AnswerCodes EXCEPT ![p] = IF lost THEN 500 ELSE o[2]]
  BY <1>2, <1>3, <1>4
<1> DEFINE Leaves(x, l) == /\ couriers' = x[1]
                           /\ AnswerCodes' = [AnswerCodes EXCEPT ![p] = IF l THEN 500 ELSE x[2]]
<1>6. Leaves(o, lost)
  BY <1>5
<1> HIDE DEF Leaves
<1>7. \E x \in Directory!Outcomes(call[p]), l \in BOOLEAN : Leaves(x, l)
  BY <1>6
<1>8. Directory!Waits(p)
  BY <1>1 DEF Directory!Waits
<1> QED BY <1>7, <1>8, Zenon DEF Directory!Serve, Leaves

LEMMA SelectServes ==
    ASSUME IInv, Asked, NEW p \in Procs, Select(p)
    PROVE  Directory!Serve(p)
<1> DEFINE r == IF call[p].id \in DOMAIN couriers THEN "ok" ELSE "notfound"
<1>1. UnderWay(p) /\ call[p].op = "get" /\ Conclude(p, r) /\ UNCHANGED <<call, couriers>>
  BY DEF IInv, Checked, Select, At, UnderWay, table
<1>2. Code("get", r) = IF call[p].id \in DOMAIN couriers THEN 200 ELSE 404
  BY CodeValues
<1>3. <<couriers', Code("get", r)>> \in Directory!Outcomes(call[p])
  BY <1>1, <1>2 DEF Directory!Outcomes
<1>4. r \in Results
  BY DEF Results
<1> QED BY <1>1, <1>3, <1>4, ConcludeServes DEF IInv

\* Rows have ids of the directory.
LEMMA TakenIsHeld ==
    ASSUME IInv, NEW f, NEW S
    PROVE  Taken(couriers, f, S) <=> \E i \in DOMAIN couriers \cap S : Directory!HasPhone(f, i)
BY DEF Taken, Directory!HasPhone

LEMMA IdsHold == ASSUME IInv PROVE DOMAIN couriers \subseteq Ids
<1>1. lastId \in Int /\ MaxId \in Int /\ lastId <= MaxId
  BY BoundsAssumption DEF BoundsAssumption, IInv, TypeOK
<1> QED BY <1>1 DEF Ids, IInv, TypeOK

LEMMA InsertServes ==
    ASSUME IInv, Asked, NEW p \in Procs, Insert(p) \/ InsertDuplicate(p)
    PROVE  Directory!Serve(p)
<1> DEFINE b == call[p].body
<1>1. /\ UnderWay(p) /\ call[p] \in Calls /\ call[p].op = "create" /\ UNCHANGED call
      /\ row[p] \in 1..lastId /\ row[p] \notin DOMAIN couriers
  BY DEF IInv, Checked, FreshId, Insert, InsertDuplicate, At, UnderWay
<1>2. WithDefaults(b) = Directory!NewRow(b)
  BY <1>1, CallFacts DEF Directory!NewRow, WithDefaults, Bodies, Fields
<1>3. Taken(couriers, b["phone"], Ids) <=>
        \E i \in DOMAIN couriers : Directory!HasPhone(b["phone"], i)
  BY IdsHold, TakenIsHeld
<1>4. row[p] \in Ids
  <2>1. lastId \in Int /\ MaxId \in Int /\ lastId <= MaxId
    BY BoundsAssumption DEF BoundsAssumption, IInv, TypeOK
  <2> QED BY <1>1, <2>1 DEF Ids
<1>5. CASE Insert(p)
  <2>1. couriers' = Directory!With(row[p], Directory!NewRow(b))
    BY <1>2, <1>5 DEF Insert, Written, Stored, Directory!With
  <2>2. <<couriers', 201>> \in Directory!Outcomes(call[p])
    BY <1>1, <1>3, <1>4, <1>5, <2>1 DEF Insert, Directory!Outcomes
  <2>3. PICK r \in {"ok", "error"} : Conclude(p, r)
    BY <1>5 DEF Insert, Written
  <2>4. Code("create", r) \in {201, 500} /\ r \in Results
    BY CodeValues DEF Results
  <2> QED BY <1>1, <2>2, <2>3, <2>4, ConcludeServes DEF IInv
<1>6. CASE InsertDuplicate(p)
  <2>1. UNCHANGED couriers /\ Conclude(p, "conflict")
    BY <1>6 DEF InsertDuplicate, table
  <2>2. <<couriers', 409>> \in Directory!Outcomes(call[p])
    BY <1>1, <1>3, <1>6, <2>1 DEF InsertDuplicate, Directory!Outcomes
  <2>3. Code("create", "conflict") = 409 /\ "conflict" \in Results
    BY CodeValues DEF Results
  <2> QED BY <1>1, <2>1, <2>2, <2>3, ConcludeServes DEF IInv
<1> QED BY <1>5, <1>6

LEMMA FindNothingServes ==
    ASSUME IInv, Asked, NEW p \in Procs, FindNothing(p)
    PROVE  Directory!Serve(p)
<1>1. /\ UnderWay(p) /\ call[p].op = "update" /\ UNCHANGED <<call, couriers>>
      /\ Conclude(p, "notfound") /\ call[p].id \notin DOMAIN couriers
  BY DEF IInv, Checked, FindNothing, At, UnderWay, table
<1>2. <<couriers', 404>> \in Directory!Outcomes(call[p])
  BY <1>1 DEF Directory!Outcomes
<1>3. Code("update", "notfound") = 404 /\ "notfound" \in Results
  BY CodeValues DEF Results
<1> QED BY <1>1, <1>2, <1>3, ConcludeServes DEF IInv

LEMMA UpdateServes ==
    ASSUME IInv, Asked, NEW p \in Procs, Update(p) \/ UpdateDuplicate(p)
    PROVE  Directory!Serve(p)
<1> DEFINE b == call[p].body
           n == call[p].id
<1>1. /\ UnderWay(p) /\ call[p].op = "update" /\ UNCHANGED call /\ n \in DOMAIN couriers
  BY DEF IInv, Checked, Update, UpdateDuplicate, At, UnderWay
<1>2. Taken(couriers, b["phone"], Ids \ {n}) <=>
        \E i \in DOMAIN couriers \ {n} : Directory!HasPhone(b["phone"], i)
  BY IdsHold, TakenIsHeld
<1>3. CASE Update(p)
  <2>1. couriers' = Directory!With(n, Directory!Changed(couriers[n], b))
    BY <1>3 DEF Update, Written, Stored, Merge, Directory!With, Directory!Changed
  <2>2. <<couriers', 200>> \in Directory!Outcomes(call[p])
    BY <1>1, <1>2, <1>3, <2>1 DEF Update, Directory!Outcomes
  <2>3. PICK r \in {"ok", "error"} : Conclude(p, r)
    BY <1>3 DEF Update, Written
  <2>4. Code("update", r) \in {200, 500} /\ r \in Results
    BY CodeValues DEF Results
  <2> QED BY <1>1, <2>2, <2>3, <2>4, ConcludeServes DEF IInv
<1>4. CASE UpdateDuplicate(p)
  <2>1. UNCHANGED couriers /\ Conclude(p, "conflict")
    BY <1>4 DEF UpdateDuplicate, table
  <2>2. <<couriers', 409>> \in Directory!Outcomes(call[p])
    BY <1>1, <1>2, <1>4, <2>1 DEF UpdateDuplicate, Directory!Outcomes
  <2>3. Code("update", "conflict") = 409 /\ "conflict" \in Results
    BY CodeValues DEF Results
  <2> QED BY <1>1, <2>1, <2>2, <2>3, ConcludeServes DEF IInv
<1> QED BY <1>3, <1>4

LEMMA FailBreaks ==
    ASSUME IInv, Asked, NEW p \in Procs, Fail(p)
    PROVE  Directory!Break(p)
<1>1. UnderWay(p) /\ Conclude(p, "error") /\ UNCHANGED <<call, couriers>> /\ call[p].op \in Ops
  BY CallFacts DEF IInv, Checked, Fail, table
<1>2. call[p] # NoCall /\ AnswerCodes[p] = 0
  BY <1>1, CallFacts DEF Asked, UnderWay, At, AnswerCodes
<1>3. AnswerCodes' = [AnswerCodes EXCEPT ![p] = Code(call[p].op, "error")]
  BY <1>1, CodesMove DEF Conclude, Go, IInv, TypeOK
<1>4. Code(call[p].op, "error") = 500
  BY <1>1, CodeValues DEF Ops
<1> QED BY <1>1, <1>2, <1>3, <1>4 DEF Directory!Break, Directory!Waits

LEMMA AnswerReplies ==
    ASSUME IInv, Asked, NEW p \in Procs, Answer(p)
    PROVE  Directory!Reply(p)
<1>1. AnswerCodes[p] # 0
  <2>1. call[p] \in Calls /\ AnswerCodes[p] = Code(call[p].op, result[p])
    BY DEF Answer, At, Asked, AnswerCodes
  <2> QED BY <2>1, CallFacts, CodeNotZero DEF IInv, TypeOK
<1>2. /\ call' = [call EXCEPT ![p] = NoCall] /\ UNCHANGED couriers
      /\ pc' = [pc EXCEPT ![p] = "idle"] /\ result' = [result EXCEPT ![p] = "ok"]
  BY DEF Answer, Go, table
<1>3. AnswerCodes' = [AnswerCodes EXCEPT ![p] = 0]
  BY <1>2, CodesMove DEF IInv, TypeOK
<1> QED BY <1>1, <1>2, <1>3 DEF Directory!Reply

\* The draw of an id and the search for a row are not seen.
LEMMA HiddenSteps ==
    ASSUME IInv, NEW p \in Procs, NextVal(p) \/ Find(p)
    PROVE  UNCHANGED Directory!vars
<1>1. /\ UNCHANGED <<couriers, call, result>> /\ pc[p] # "answer"
      /\ \E s \in {"insert", "update"} : pc' = [pc EXCEPT ![p] = s]
  BY DEF NextVal, Find, Go, At, table
<1>2. \A q \in Procs : At(q, "answer")' = At(q, "answer")
  BY <1>1 DEF IInv, TypeOK, At
<1> QED BY <1>1, <1>2 DEF AnswerCodes, Directory!vars

LEMMA StatusIsSet ==
    ASSUME NEW i \in Ids, NEW s \in {"available", "busy"}, UpdateCourierStatus(i, s)
    PROVE  Directory!SetStatus(i, s)
<1>1. UNCHANGED AnswerCodes
  BY DEF UpdateCourierStatus, AnswerCodes, At
<1> QED BY <1>1 DEF UpdateCourierStatus, Stored, Directory!SetStatus, Directory!With

LEMMA DirectoryStep == IInv /\ Asked /\ [Next]_vars => [Directory!Next]_(Directory!vars)
<1> SUFFICES ASSUME IInv, Asked, [Next]_vars PROVE Directory!Next \/ UNCHANGED Directory!vars
  OBVIOUS
<1>1. ASSUME NEW p \in Procs, Step(p)
      PROVE  Directory!Next \/ UNCHANGED Directory!vars
  <2>1. ASSUME NEW c \in Calls, Refuse(p, c) \/ Accept(p, c)
        PROVE  Directory!Next
    BY <2>1, RefuseRejects, AcceptAsks DEF IInv, Directory!Next
  <2>2. CASE \/ Select(p) \/ Insert(p) \/ InsertDuplicate(p)
             \/ FindNothing(p) \/ Update(p) \/ UpdateDuplicate(p)
    <3>1. Directory!Serve(p)
      BY <2>2, SelectServes, InsertServes, FindNothingServes, UpdateServes
    <3> QED BY <3>1 DEF Directory!Next
  <2>3. CASE Fail(p)
    BY <2>3, FailBreaks DEF Directory!Next
  <2>4. CASE Answer(p)
    BY <2>4, AnswerReplies DEF Directory!Next
  <2>5. CASE NextVal(p) \/ Find(p)
    BY <2>5, HiddenSteps
  <2> QED BY <1>1, <2>1, <2>2, <2>3, <2>4, <2>5 DEF Step
<1>2. ASSUME NEW i \in Ids, NEW s \in {"available", "busy"}, UpdateCourierStatus(i, s)
      PROVE  Directory!Next
  BY <1>2, StatusIsSet DEF Directory!Next
<1>3. ASSUME StartWalk \/ NextPage \/ EndWalk \/ UNCHANGED vars
      PROVE  UNCHANGED Directory!vars
  BY <1>3 DEF StartWalk, NextPage, EndWalk, vars, table, request, AnswerCodes, At, Directory!vars
<1> QED BY <1>1, <1>2, <1>3 DEF Next

(* To its clients the service is one directory that serves a request at a  *)
(* time: each has the effect and the code of what it met, all of it or, if *)
(* the answer is 500, perhaps nothing.                                     *)
THEOREM ServedOneByOne == Spec => ImplementsDirectory
<1>1. Init => Asked /\ Directory!Init
  BY DEF Init, Asked, At, AnswerCodes, Directory!Init
<1>2. IInv /\ Asked /\ [Next]_vars => Asked'
  BY AskedNext DEF IInv
<1>3. IInv /\ Asked /\ [Next]_vars => [Directory!Next]_(Directory!vars)
  BY DirectoryStep
<1> QED BY <1>1, <1>2, <1>3, Invariance, PTL DEF Spec, ImplementsDirectory, Directory!Spec
=============================================================================
