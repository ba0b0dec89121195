-------------------------- MODULE ServerFormsProofs --------------------------
(***************************************************************************)
(* Proofs about ServerForms.  The inductive invariant adds to the types    *)
(* that open forms, pending updates and running tests are about records of *)
(* the kind at hand (HandleInv), that the merge of an update keeps what it *)
(* read (PutInv), and that a test is about the form it was started with as *)
(* long as nobody touched that (FreshInv).                                 *)
(***************************************************************************)
EXTENDS ServerForms, TLAPS

\* Servers have a host; the SMTP block is nobody's uuid but its own.
HandleInv ==
  /\ IsServer => \A u \in Known : saved[u].host \in Hosts
  /\ kind = "mail" => used = {}
  /\ form # NotOpen => (IsServer => form.rec.host \in Hosts) /\ (form.uuid = MainConf <=> kind = "mail")
  /\ test.step # "none" => (IsServer => test.rec.host \in Hosts) /\ (test.uuid = MainConf <=> kind = "mail")

\* What an update is about to save has a secret, and an SSH pin, if the record
\* it read had one.
PutInv ==
  put # NoPut =>
    /\ put.uuid \in used /\ IsServer /\ put.rec.host \in Hosts
    /\ put.seen.secret # None => put.rec.secret # None
    /\ kind = "ssh" /\ put.seen.pin # None => put.rec.pin # None

\* A fresh test is about the host and the secret that saving its form stores.
FreshInv ==
  test.fresh =>
    /\ test.step # "none" /\ form # NotOpen /\ form.uuid = test.uuid
    /\ test.uuid = New => test.rec.host = form.rec.host /\ test.rec.secret = form.rec.secret
    /\ kind = "mail" => /\ test.rec.host = form.rec.host
                        /\ test.rec.secret = Keep(form.rec.secret, saved[MainConf].secret)

IInv == TypeOK /\ HandleInv /\ PutInv /\ FreshInv

\* The names of records and the empty field are told apart.
LEMMA Marks == New # MainConf /\ New \notin Uuids /\ MainConf \notin Uuids /\ None \notin Hosts /\ None \notin Secrets
  BY ServerFormsAssumption

\* Nothing open, pending or tested has the type of what can be.
LEMMA Empty ==
  /\ NoRecord \in Record /\ NotOpen \in Form /\ NoPut \in Put /\ NoTest \in Test
  /\ NotOpen.uuid = New /\ NoPut.uuid = New /\ NoTest.uuid = New /\ NoTest.step = "none"
<1>1. NoRecord \in Record
  BY DEF NoRecord, Record
<1> QED BY <1>1 DEF NotOpen, NoPut, NoTest, Form, Put, Test, Handles

\* saveItem replaces or adds one record.
LEMMA SaveItem ==
  ASSUME NEW u, NEW rec, saveItem(u, rec)
  PROVE  /\ Known' = Known \cup {u} /\ saved'[u] = rec
         /\ \A v \in Known \ {u} : saved'[v] = saved[v]
  BY DEF saveItem, Known

\* What a form, a merge and a test make of a record is a record, and its host
\* the one it had.
LEMMA Records ==
  ASSUME NEW rec \in Record, NEW old \in Record
  PROVE  /\ Shown(rec) \in Record /\ Shown(rec).host = rec.host
         /\ PreserveSsh(rec, old) \in Record /\ PreserveSsh(rec, old).host = rec.host
         /\ PreservePbs(rec, old) \in Record /\ PreservePbs(rec, old).host = rec.host
         /\ Captured(rec) \in Record /\ Captured(rec).host = rec.host /\ Captured(rec).secret = rec.secret
         /\ [rec EXCEPT !.secret = Keep(@, old.secret)] \in Record
  BY DEF Record, Shown, PreserveSsh, PreservePbs, Captured, Keep

\* What is typed into a form makes a record.
LEMMA TypedRecord ==
  ASSUME NEW rec \in Record, NEW h \in Hosts, NEW s \in Secrets \cup {None}, NEW p \in Hosts \cup {None}
  PROVE  Typed(rec, h, s, p) \in Record /\ Typed(rec, h, s, p).host = h
  BY DEF Record, Typed

\* The initial states satisfy the invariant.
LEMMA IInit == Init => IInv
<1> SUFFICES ASSUME Init
             PROVE  IInv
  OBVIOUS
<1>1. NoRecord \in Record
  BY Empty
<1>2. /\ Known = IF kind = "mail" THEN {MainConf} ELSE {}
      /\ \A u \in Known : saved[u] = NoRecord
  BY DEF Init, Known
<1>3. form = NotOpen /\ put = NoPut /\ test = NoTest /\ used = {} /\ kind \in {"ssh", "pbs", "mail"}
  BY DEF Init
<1>4. TypeOK
  BY <1>1, <1>2, <1>3, Empty DEF TypeOK
<1>5. HandleInv
  BY <1>2, <1>3 DEF HandleInv, IsServer, NoTest
<1>6. PutInv /\ FreshInv
  BY <1>3 DEF PutInv, FreshInv, NoTest
<1> QED BY <1>4, <1>5, <1>6 DEF IInv

\* Every step keeps the types and what they are about.
LEMMA TypeStep == TypeOK /\ HandleInv /\ PutInv /\ [Next]_vars => TypeOK' /\ HandleInv'
<1> SUFFICES ASSUME TypeOK, HandleInv, PutInv, [Next]_vars
             PROVE  TypeOK' /\ HandleInv'
  OBVIOUS
<1> USE DEF TypeOK, HandleInv, IsServer
<1>0. /\ NotOpen \in Form /\ NotOpen.uuid = New /\ NoPut \in Put /\ NoPut.uuid = New
      /\ NoTest \in Test /\ NoTest.uuid = New /\ NoTest.step = "none"
  BY Empty
<1>a. ASSUME FormChanges
      PROVE  test' \in Test /\ test'.rec = test.rec /\ test'.uuid = test.uuid /\ test'.step = test.step
  BY <1>a DEF FormChanges, Test
<1>1. ASSUME NEW h \in Hosts, NEW s \in Secrets \cup {None}, NEW p \in Hosts \cup {None}, newForm(h, s, p)
      PROVE  TypeOK' /\ HandleInv'
  <2>1. form' \in Form /\ form'.rec.host \in Hosts /\ form'.uuid = New
    BY <1>1, Empty, TypedRecord DEF newForm, Form, Handles
  <2> QED BY <1>1, <1>a, <2>1, Marks DEF newForm, Known
<1>2. ASSUME NEW u \in Uuids \cup {MainConf}, editForm(u)
      PROVE  TypeOK' /\ HandleInv'
  <2>1. form' \in Form /\ form'.rec.host = saved[u].host /\ form'.uuid = u /\ u \in Known
    BY <1>2, Records DEF editForm, Form, Handles
  <2>2. u = MainConf <=> kind = "mail"
    BY <2>1
  <2>3. TypeOK'
    BY <1>2, <1>a, <2>1 DEF editForm, Known
  <2>4. HandleInv'
    BY <1>2, <1>a, <2>1, <2>2 DEF editForm, Known
  <2> QED BY <2>3, <2>4
<1>3. ASSUME NEW h \in Hosts, NEW s \in Secrets \cup {None}, NEW p \in Hosts \cup {None}, EditFields(h, s, p)
      PROVE  TypeOK' /\ HandleInv'
  <2>1. form' \in Form /\ form'.rec.host \in Hosts /\ form'.uuid = form.uuid
    BY <1>3, TypedRecord DEF EditFields, Form
  <2> QED BY <1>3, <1>a, <2>1 DEF EditFields, Known
<1>4. CASE closeEditor
  BY <1>0, <1>4, <1>a DEF closeEditor, Known
<1>5. ASSUME NEW u \in Uuids, CreateServer(u)
      PROVE  TypeOK' /\ HandleInv'
  <2>1. /\ Known' = Known \cup {u} /\ saved'[u] = form.rec
        /\ \A v \in Known \ {u} : saved'[v] = saved[v]
    BY <1>5, SaveItem DEF CreateServer
  <2>2. form.rec \in Record /\ form.rec.host \in Hosts
    BY <1>5 DEF CreateServer, Form
  <2> QED BY <1>0, <1>5, <1>a, <2>1, <2>2, Marks DEF CreateServer
<1>6. CASE UpdateRead
  <2>1. form.uuid \in Known /\ saved[form.uuid] \in Record /\ form.rec \in Record /\ form.uuid \in used
    BY <1>6 DEF UpdateRead, Form
  <2>2. put' \in Put /\ put'.uuid \in used
    BY <1>6, <2>1, Records DEF UpdateRead, Put, Handles
  <2> QED BY <1>0, <1>6, <1>a, <2>2 DEF UpdateRead, Known
<1>7. CASE UpdateSave
  <2>1. /\ Known' = Known \cup {put.uuid} /\ saved'[put.uuid] = put.rec
        /\ \A v \in Known \ {put.uuid} : saved'[v] = saved[v]
    BY <1>7, SaveItem DEF UpdateSave
  <2>2. put.uuid \in used /\ put.rec \in Record /\ put.rec.host \in Hosts /\ put.uuid # MainConf /\ put' = NoPut
    BY <1>7, Marks DEF UpdateSave, PutInv, Put
  <2> QED BY <1>0, <1>7, <2>1, <2>2 DEF UpdateSave
<1>8. CASE SavePrefs
  <2>1. MainConf \in Known /\ [form.rec EXCEPT !.secret = Keep(@, saved[MainConf].secret)] \in Record
    BY <1>8, Records DEF SavePrefs, Form
  <2>2. /\ Known' = Known \cup {MainConf} /\ saved'[MainConf] = [form.rec EXCEPT !.secret = Keep(@, saved[MainConf].secret)]
        /\ \A v \in Known \ {MainConf} : saved'[v] = saved[v]
    BY <1>8, SaveItem DEF SavePrefs
  <2> QED BY <1>8, <1>a, <2>1, <2>2 DEF SavePrefs
<1>9. ASSUME NEW u \in Uuids, DeleteServer(u)
      PROVE  TypeOK' /\ HandleInv'
  <2>1. Known' = Known \ {u} /\ \A v \in Known' : saved'[v] = saved[v]
    BY <1>9 DEF DeleteServer, Known, Restrict
  <2> QED BY <1>9, <2>1, Marks DEF DeleteServer
<1>10. CASE TestBegin
  <2>1. form.uuid \in Known => saved[form.uuid] \in Record /\ (IsServer => saved[form.uuid].host \in Hosts)
    OBVIOUS
  <2>2. CASE kind = "mail"
    <3>1. MainConf \in Known /\ TestedMail \in Record
      BY <2>2, Records DEF TestedMail, Form
    <3>2. test' \in Test /\ test'.uuid = form.uuid
      BY <1>10, <2>2, <3>1 DEF TestBegin, Test, Form
    <3> QED BY <1>10, <2>2, <3>2 DEF TestBegin, Known
  <2>3. CASE kind # "mail"
    <3>1. /\ TestedSsh \in Record /\ TestedPbs \in Record
          /\ TestedSsh.host \in Hosts /\ TestedPbs.host \in Hosts
      BY <1>10, <2>1, <2>3 DEF TestBegin, TestedSsh, TestedPbs, Form
    <3>2. test' \in Test /\ test'.rec.host \in Hosts /\ test'.uuid = form.uuid
      BY <1>10, <2>3, <3>1 DEF TestBegin, Test, Form
    <3> QED BY <1>10, <2>3, <3>2 DEF TestBegin, Known
  <2> QED BY <2>2, <2>3
<1>11. CASE SshTestEnds
  <2>1. Captured(test.rec) \in Record /\ Captured(test.rec).host = test.rec.host
    BY Records DEF Test
  <2>2. test' \in Test /\ test'.rec = Captured(test.rec) /\ test'.uuid = test.uuid
    BY <1>11, <2>1 DEF SshTestEnds, Test
  <2>3. CASE test.uuid = New
    BY <1>11, <2>1, <2>2, <2>3 DEF SshTestEnds, Known
  <2>4. CASE test.uuid # New
    <3>1. /\ Known' = Known \cup {test.uuid} /\ saved'[test.uuid] = Captured(test.rec)
          /\ \A v \in Known \ {test.uuid} : saved'[v] = saved[v]
      BY <1>11, <2>4, SaveItem DEF SshTestEnds
    <3> QED BY <1>11, <2>1, <2>2, <2>4, <3>1 DEF SshTestEnds
  <2> QED BY <2>3, <2>4
<1>12. CASE PbsTestEnds \/ MailTestEnds \/ TestFails
  <2>1. Captured(test.rec) \in Record /\ Captured(test.rec).host = test.rec.host
    BY Records DEF Test
  <2>2. test' \in Test /\ test'.rec.host = test.rec.host /\ test'.uuid = test.uuid /\ test.step = "running"
    BY <1>12, <2>1 DEF PbsTestEnds, MailTestEnds, TestFails, Test
  <2> QED BY <1>12, <2>1, <2>2 DEF PbsTestEnds, MailTestEnds, TestFails, Known
<1>13. CASE TestAnswered
  <2>1. test.rec.pin \in Hosts \cup {None}
    BY DEF Test, Record
  <2>2. /\ form' \in Form /\ form'.rec.host = form.rec.host /\ form'.uuid = form.uuid
        /\ form = NotOpen => form' = form
    BY <1>13, <2>1 DEF TestAnswered, Form, Record
  <2> QED BY <1>0, <1>13, <2>2 DEF TestAnswered, Known
<1>14. CASE UNCHANGED vars
  BY <1>14 DEF vars, Known
<1> QED BY <1>1, <1>2, <1>3, <1>4, <1>5, <1>6, <1>7, <1>8, <1>9, <1>10, <1>11, <1>12, <1>13, <1>14 DEF Next

\* Every step keeps the merge of a pending update no poorer than what it read.
LEMMA PutStep == TypeOK /\ HandleInv /\ PutInv /\ [Next]_vars => PutInv'
<1> SUFFICES ASSUME TypeOK, HandleInv, PutInv, [Next]_vars
             PROVE  PutInv'
  OBVIOUS
<1>1. ASSUME UNCHANGED <<kind, put>>, used \subseteq used'
      PROVE  PutInv'
  BY <1>1 DEF PutInv, IsServer
<1>2. CASE UpdateRead
  <2>1. /\ IsServer /\ form # NotOpen /\ form.uuid \in Known /\ kind' = kind /\ used' = used
        /\ put'.uuid = form.uuid /\ put'.seen = saved[form.uuid]
        /\ put'.rec = IF kind = "ssh" THEN PreserveSsh(form.rec, saved[form.uuid]) ELSE PreservePbs(form.rec, saved[form.uuid])
    BY <1>2 DEF UpdateRead
  <2>2. form.rec \in Record /\ saved[form.uuid] \in Record /\ form.uuid \in used /\ form.rec.host \in Hosts
    BY <2>1 DEF TypeOK, HandleInv, Form, IsServer
  <2>3. put'.rec.host \in Hosts
    <3>1. /\ PreserveSsh(form.rec, saved[form.uuid]).host = form.rec.host
          /\ PreservePbs(form.rec, saved[form.uuid]).host = form.rec.host
      BY <2>2, Records
    <3> QED BY <2>1, <2>2, <3>1
  <2>4. /\ put'.rec.secret = Keep(form.rec.secret, saved[form.uuid].secret)
        /\ kind = "ssh" => put'.rec.pin = Keep(form.rec.pin, saved[form.uuid].pin)
    BY <2>1, <2>2 DEF PreserveSsh, PreservePbs, Record
  <2> QED BY <2>1, <2>2, <2>3, <2>4 DEF PutInv, Keep, IsServer
<1>3. CASE UpdateSave
  BY <1>3 DEF UpdateSave, PutInv
<1>4. CASE UNCHANGED vars
  BY <1>1, <1>4 DEF vars
<1> QED
  BY <1>1, <1>2, <1>3, <1>4 DEF Next, newForm, editForm, EditFields, closeEditor, CreateServer, DeleteServer,
     SavePrefs, TestBegin, SshTestEnds, PbsTestEnds, MailTestEnds, TestFails, TestAnswered

\* Every step keeps a fresh test about its form.
LEMMA FreshStep == TypeOK /\ HandleInv /\ PutInv /\ FreshInv /\ [Next]_vars => FreshInv'
<1> SUFFICES ASSUME TypeOK, HandleInv, PutInv, FreshInv, [Next]_vars, test'.fresh
             PROVE  FreshInv'
  BY DEF FreshInv
<1>1. test \in Test
  BY DEF TypeOK
<1>2. ~FormChanges
  BY <1>1 DEF FormChanges, Test
<1>3. ASSUME UNCHANGED <<kind, form, test>>, kind = "mail" => saved'[MainConf] = saved[MainConf]
      PROVE  FreshInv'
  BY <1>3 DEF FreshInv
<1>4. CASE UpdateSave
  <2>1. kind # "mail"
    BY <1>4 DEF UpdateSave, PutInv, IsServer
  <2> QED BY <1>3, <1>4, <2>1 DEF UpdateSave
<1>5. ASSUME NEW u \in Uuids, DeleteServer(u)
      PROVE  FreshInv'
  <2>1. kind # "mail"
    BY <1>5 DEF DeleteServer, IsServer
  <2> QED BY <1>3, <1>5, <2>1 DEF DeleteServer
<1>6. CASE TestBegin
  <2>1. /\ form # NotOpen /\ test'.step = "running" /\ test'.uuid = form.uuid
        /\ test'.rec = CASE kind = "ssh" -> TestedSsh [] kind = "pbs" -> TestedPbs [] OTHER -> TestedMail
        /\ form' = form /\ kind' = kind /\ saved' = saved
        /\ form.uuid = New \/ form.uuid \in Known
    BY <1>6 DEF TestBegin
  <2>2. form.rec \in Record /\ kind \in {"ssh", "pbs", "mail"}
    BY DEF TypeOK, Form
  <2>3. CASE kind = "mail"
    <3>1. TestedMail.host = form.rec.host /\ TestedMail.secret = Keep(form.rec.secret, saved[MainConf].secret)
      BY <2>2 DEF TestedMail, Record
    <3>2. test'.rec = TestedMail
      BY <2>1, <2>3
    <3>3. form.uuid = MainConf
      BY <2>1, <2>3 DEF HandleInv
    <3> QED BY <2>1, <2>3, <3>1, <3>2, <3>3, Marks DEF FreshInv
  <2>4. CASE kind # "mail"
    <3>1. form.uuid # MainConf
      BY <2>1, <2>4 DEF HandleInv
    <3>2. form.uuid = New => test'.rec = form.rec
      BY <2>1, <2>2, <2>4 DEF TestedSsh, TestedPbs
    <3> QED BY <2>1, <2>4, <3>1, <3>2 DEF FreshInv
  <2> QED BY <2>3, <2>4
<1>7. CASE SshTestEnds \/ PbsTestEnds \/ MailTestEnds \/ TestFails
  <2>1. /\ test'.fresh = test.fresh /\ test'.uuid = test.uuid /\ test'.step # "none" /\ test.rec \in Record
        /\ test'.rec \in {test.rec, Captured(test.rec)} /\ kind' = kind /\ form' = form
        /\ kind = "mail" => saved' = saved
    BY <1>1, <1>7 DEF SshTestEnds, PbsTestEnds, MailTestEnds, TestFails, Test
  <2>2. test'.rec.host = test.rec.host /\ test'.rec.secret = test.rec.secret
    BY <2>1, Records
  <2> QED BY <2>1, <2>2 DEF FreshInv
<1>8. CASE TestAnswered
  BY <1>8 DEF TestAnswered, NoTest
<1>9. CASE UNCHANGED vars
  BY <1>3, <1>9 DEF vars
<1> QED
  BY <1>2, <1>4, <1>5, <1>6, <1>7, <1>8, <1>9 DEF Next, newForm, editForm, EditFields, closeEditor, CreateServer,
     UpdateRead, SavePrefs

\* The invariant holds of every state.
LEMMA Invariance == Spec => []IInv
<1>1. IInv /\ [Next]_vars => IInv'
  BY TypeStep, PutStep, FreshStep DEF IInv
<1> QED BY IInit, <1>1, PTL DEF Spec

\* Types, and that whoever holds a uuid holds one that was handed out: routes,
\* forms and pool threads never meet a record of another kind.
THEOREM FormsTypeCorrect == Spec => []TypeOK
<1>1. IInv => TypeOK
  BY DEF IInv
<1> QED BY Invariance, <1>1, PTL

-----------------------------------------------------------------------------
\* What a step stores for a record that stays.
LEMMA StoredStep ==
  ASSUME IInv, Next, NEW u \in Known \cap Known'
  PROVE  \/ saved'[u] = saved[u]
         \/ UpdateSave /\ u = put.uuid /\ saved'[u] = put.rec
         \/ SavePrefs /\ u = MainConf
            /\ saved'[u] = [form.rec EXCEPT !.secret = Keep(@, saved[u].secret)]
         \/ SshTestEnds /\ u = test.uuid /\ saved'[u] = Captured(test.rec)
<1>1. ASSUME saved' = saved
      PROVE  saved'[u] = saved[u]
  BY <1>1
<1>2. ASSUME NEW v \in Uuids, CreateServer(v)
      PROVE  saved'[u] = saved[u]
  <2>1. v # u
    BY <1>2, Marks DEF CreateServer, IInv, TypeOK
  <2> QED BY <1>2, <2>1, SaveItem DEF CreateServer
<1>3. ASSUME NEW v \in Uuids, DeleteServer(v)
      PROVE  saved'[u] = saved[u]
  BY <1>3 DEF DeleteServer, Known, Restrict
<1>4. ASSUME UpdateSave
      PROVE  IF u = put.uuid THEN saved'[u] = put.rec ELSE saved'[u] = saved[u]
  BY <1>4, SaveItem DEF UpdateSave
<1>5. ASSUME SavePrefs
      PROVE  IF u = MainConf THEN saved'[u] = [form.rec EXCEPT !.secret = Keep(@, saved[u].secret)]
                             ELSE saved'[u] = saved[u]
  BY <1>5, SaveItem DEF SavePrefs
<1>6. ASSUME SshTestEnds
      PROVE  \/ saved' = saved
             \/ IF u = test.uuid THEN saved'[u] = Captured(test.rec) ELSE saved'[u] = saved[u]
  BY <1>6, SaveItem DEF SshTestEnds
<1> QED
  BY <1>1, <1>2, <1>3, <1>4, <1>5, <1>6 DEF Next, newForm, editForm, EditFields, closeEditor, UpdateRead,
     TestBegin, PbsTestEnds, MailTestEnds, TestFails, TestAnswered

\* "preserved if omitted": no request and no test takes a secret or an SSH pin
\* away from a record that stays, whatever overlaps with what, except a writer
\* that saves over what it has not read.
THEOREM SecretsKept == Spec => SecretsSurvive
<1>1. ASSUME IInv, Next, NEW u \in Known \cap Known', ~StaleWriter(u)
      PROVE  /\ saved[u].secret # None => saved'[u].secret # None
             /\ kind = "ssh" /\ saved[u].pin # None => saved'[u].pin # None
  <2> USE <1>1 DEF IInv
  <2>1. saved[u] \in Record /\ test.rec \in Record /\ form.rec \in Record
    BY DEF TypeOK, Test, Form
  <2>2. CASE UpdateSave /\ u = put.uuid /\ saved'[u] = put.rec
    <3>1. put # NoPut /\ put' = NoPut /\ put.seen = saved[u]
      BY <2>2 DEF UpdateSave, StaleWriter
    <3> QED BY <2>2, <3>1 DEF PutInv
  <2>3. CASE SavePrefs /\ u = MainConf /\ saved'[u] = [form.rec EXCEPT !.secret = Keep(@, saved[u].secret)]
    <3>1. kind = "mail" /\ saved'[u].secret = Keep(form.rec.secret, saved[u].secret)
      BY <2>1, <2>3 DEF SavePrefs, Record
    <3> QED BY <3>1 DEF Keep
  <2>4. CASE SshTestEnds /\ u = test.uuid /\ saved'[u] = Captured(test.rec)
    <3>1. test.rec = saved[u] /\ test.rec.host \in Hosts
      BY <2>4 DEF SshTestEnds, StaleWriter, HandleInv, IsServer
    <3>2. saved'[u].secret = saved[u].secret /\ saved'[u].pin \in Hosts
      BY <2>1, <2>4, <3>1 DEF Captured, Record
    <3> QED BY <3>2, Marks
  <2> QED BY <2>2, <2>3, <2>4, StoredStep
<1>2. IInv /\ [Next]_vars
        => [\A u \in Known \cap Known' :
              \/ StaleWriter(u)
              \/ /\ saved[u].secret # None => saved'[u].secret # None
                 /\ kind = "ssh" /\ saved[u].pin # None => saved'[u].pin # None]_vars
  BY <1>1
<1> QED BY <1>2, Invariance, PTL DEF Spec, SecretsSurvive

\* A test that ends writes to the server it tested and leaves that pinned to the
\* key of the host stored with it, for any number of servers, whatever was saved
\* or deleted since it began.
THEOREM TestPinsKept == Spec => TestPinsTested
<1> DEFINE Pins ==
      test.step = "running" /\ test'.step = "ok" =>
        /\ \A u \in Uuids \ {test.uuid} : (u \in Known <=> u \in Known') /\ (u \in Known => saved'[u] = saved[u])
        /\ test.uuid \in Known' /\ kind = "ssh" =>
             /\ saved'[test.uuid].pin = saved'[test.uuid].host
             /\ StaleWriter(test.uuid) \/ [saved'[test.uuid] EXCEPT !.pin = saved[test.uuid].pin] = saved[test.uuid]
<1>1. ASSUME IInv, Next, test.step = "running", test'.step = "ok"
      PROVE  SshTestEnds \/ PbsTestEnds \/ MailTestEnds
  <2>1. test \in Test
    BY <1>1 DEF IInv, TypeOK
  <2>2. FormChanges => test'.step = test.step
    BY <2>1 DEF FormChanges, Test
  <2>3. ~TestBegin
    BY <1>1 DEF TestBegin, NoTest
  <2>4. ~TestFails
    BY <1>1, <2>1 DEF TestFails, Test
  <2>5. ~TestAnswered
    BY <1>1 DEF TestAnswered, NoTest
  <2> QED
    BY <1>1, <2>2, <2>3, <2>4, <2>5 DEF Next, newForm, editForm, EditFields, closeEditor, CreateServer, DeleteServer,
       UpdateRead, UpdateSave, SavePrefs
<1>2. ASSUME PbsTestEnds \/ MailTestEnds
      PROVE  Pins
  <2>1. saved' = saved /\ Known' = Known /\ kind # "ssh"
    BY <1>2 DEF PbsTestEnds, MailTestEnds, Known
  <2> QED BY <2>1
<1>3. ASSUME IInv, SshTestEnds
      PROVE  Pins
  <2>1. test.rec \in Record
    BY <1>3 DEF IInv, TypeOK, Test
  <2>2. CASE test.uuid = New
    <3>1. New \notin Known /\ saved' = saved
      BY <1>3, <2>2, Marks DEF SshTestEnds, IInv, TypeOK
    <3> QED BY <2>2, <3>1 DEF Known
  <2>3. CASE test.uuid # New
    <3>1. /\ Known' = Known \cup {test.uuid} /\ saved'[test.uuid] = Captured(test.rec)
          /\ \A v \in Known \ {test.uuid} : saved'[v] = saved[v]
      BY <1>3, <2>3, SaveItem DEF SshTestEnds
    <3>2. Captured(test.rec).pin = Captured(test.rec).host
      BY <2>1 DEF Captured, Record
    <3>3. StaleWriter(test.uuid) \/ test.rec = saved[test.uuid]
      BY <1>3 DEF StaleWriter, SshTestEnds
    <3>4. [Captured(test.rec) EXCEPT !.pin = test.rec.pin] = test.rec
      BY <2>1 DEF Captured, Record
    <3> QED BY <3>1, <3>2, <3>3, <3>4
  <2> QED BY <2>2, <2>3
<1>4. IInv /\ [Next]_vars => [Pins]_vars
  BY <1>1, <1>2, <1>3
<1> QED BY <1>4, Invariance, PTL DEF Spec, TestPinsTested

\* A form that is saved as it was tested stores the host and the secret that
\* the test was about, for all three kinds of record.
THEOREM TestedIsSaved == Spec => SavedAsTested
<1> DEFINE Stored ==
      \A u \in Known' :
        /\ test.fresh /\ saved' # saved
        /\ u = MainConf \/ (u \notin Known /\ form # NotOpen /\ form' = NotOpen)
        => saved'[u].host = test.rec.host /\ saved'[u].secret = test.rec.secret
<1>1. ASSUME IInv, Next, test.fresh, saved' # saved, NEW u \in Known',
             u = MainConf \/ (u \notin Known /\ form # NotOpen /\ form' = NotOpen)
      PROVE  saved'[u].host = test.rec.host /\ saved'[u].secret = test.rec.secret
  <2> USE <1>1 DEF IInv
  <2>1. form.rec \in Record /\ form # NotOpen /\ form.uuid = test.uuid
    BY DEF TypeOK, Form, FreshInv
  <2>2. TypeOK' /\ kind' = kind
    BY TypeStep DEF Next, newForm, editForm, EditFields, closeEditor, CreateServer, DeleteServer, UpdateRead,
       UpdateSave, SavePrefs, TestBegin, SshTestEnds, PbsTestEnds, MailTestEnds, TestFails, TestAnswered
  <2>3. u = MainConf => kind = "mail"
    BY <2>2 DEF TypeOK
  <2>4. ASSUME NEW v \in Uuids, CreateServer(v)
        PROVE  saved'[u].host = test.rec.host /\ saved'[u].secret = test.rec.secret
    <3>1. Known' = Known \cup {v} /\ saved'[v] = form.rec /\ form.uuid = New /\ kind # "mail"
      BY <2>4, SaveItem DEF CreateServer, IsServer
    <3> QED BY <2>1, <2>3, <3>1 DEF FreshInv
  <2>5. CASE SavePrefs
    <3>1. /\ kind = "mail" /\ form' = form
          /\ Known' = Known \cup {MainConf}
          /\ saved'[MainConf] = [form.rec EXCEPT !.secret = Keep(@, saved[MainConf].secret)]
      BY <2>5, SaveItem DEF SavePrefs
    <3>2. /\ saved'[MainConf].host = form.rec.host
          /\ saved'[MainConf].secret = Keep(form.rec.secret, saved[MainConf].secret)
      BY <2>1, <3>1 DEF Record
    <3> QED BY <3>1, <3>2 DEF FreshInv
  <2>6. ASSUME NEW v \in Uuids, DeleteServer(v)
        PROVE  u \in Known /\ u # MainConf
    BY <2>3, <2>6 DEF DeleteServer, IsServer, Known, Restrict
  <2>7. UpdateSave => form' = form /\ kind # "mail"
    BY DEF UpdateSave, PutInv, IsServer
  <2>8. SshTestEnds => form' = form /\ kind # "mail"
    BY DEF SshTestEnds
  <2> QED
    BY <2>1, <2>3, <2>4, <2>5, <2>6, <2>7, <2>8 DEF Next, newForm, editForm, EditFields, closeEditor, UpdateRead,
       TestBegin, PbsTestEnds, MailTestEnds, TestFails, TestAnswered
<1>2. IInv /\ [Next]_vars => [Stored]_vars
  BY <1>1
<1> QED BY <1>2, Invariance, PTL DEF Spec, SavedAsTested

=============================================================================
