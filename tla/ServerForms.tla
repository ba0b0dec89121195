------------------------------ MODULE ServerForms ------------------------------
(***************************************************************************)
(* Records with secrets that are edited in a form of var/www/js/app.js,    *)
(* tested over the network and saved by webserver/apirouter.cpp: SSH       *)
(* servers ("ssh") and Proxmox backup servers ("pbs"), which live in a     *)
(* singleton each, and the SMTP block of main.conf ("mail").  A test takes *)
(* up to 40 seconds and runs on a pool thread with a copy of the record    *)
(* taken before; meanwhile the routes go on.  The update of a server reads *)
(* and saves in two calls of the singleton, each atomic by its mutex.      *)
(*                                                                         *)
(* Data abstraction.  Name, host, port, user and key file are one value,   *)
(* the host, whose key or certificate is written as the host itself.  The  *)
(* passwords and passphrases of a record, each kept by the same rule, are  *)
(* one value, the secret; what was pinned (hostkey, fingerprint) another.  *)
(* One form and one test are open at a time; the form may be another       *)
(* session's by the time the test ends.                                    *)
(***************************************************************************)
EXTENDS Functions

CONSTANTS Uuids,     \* identities of saved servers
          New,       \* the form's empty uuid
          MainConf,  \* stands for the uuid of the one SMTP block
          Hosts, Secrets,
          None       \* an empty field

ASSUME ServerFormsAssumption == /\ New \notin Uuids \cup {MainConf} /\ MainConf \notin Uuids
                                /\ None \notin Hosts \cup Secrets

Record == [host : Hosts \cup {None}, secret : Secrets \cup {None}, pin : Hosts \cup {None}]
NoRecord == [host |-> None, secret |-> None, pin |-> None]
Handles == Uuids \cup {New, MainConf}
Form == [uuid : Handles, rec : Record]
Put == [uuid : Handles, rec : Record, seen : Record]
Test == [uuid : Handles, rec : Record, fresh : BOOLEAN, step : {"none", "running", "ok", "failed"}]

NotOpen == [uuid |-> New, rec |-> NoRecord]
NoPut == [uuid |-> New, rec |-> NoRecord, seen |-> NoRecord]
NoTest == [uuid |-> New, rec |-> NoRecord, fresh |-> FALSE, step |-> "none"]

VARIABLES kind,    \* which of the three: chosen at the start, never changed
          saved,   \* uuid -> record
          used,    \* uuids handed out
          form,    \* sshForm, pbsForm or prefs.smtp while it shows, or NotOpen
          put,     \* an update between its two calls, with what it read, or NoPut
          test     \* the test whose answer is awaited, with the record it tests;
                   \* history: fresh while the form is the one it began with

vars == <<kind, saved, used, form, put, test>>

Init == /\ kind \in {"ssh", "pbs", "mail"}
        /\ saved = IF kind = "mail" THEN [u \in {MainConf} |-> NoRecord] ELSE << >>
        /\ used = {}
        /\ form = NotOpen /\ put = NoPut /\ test = NoTest

Known == DOMAIN saved
IsServer == kind \in {"ssh", "pbs"}

\* History: the form changes, or what is stored for it.
FormChanges == test' = [test EXCEPT !.fresh = FALSE]

saveItem(u, rec) == saved' = [v \in Known \cup {u} |-> IF v = u THEN rec ELSE saved[v]]

\* The main thread serves one request at a time.
MainFree == put = NoPut

-----------------------------------------------------------------------------
(* The form.                                                               *)

\* The pin is a field of the Proxmox form only; a captured key stays in the form.
Typed(rec, h, s, p) == [host |-> h, secret |-> s, pin |-> IF kind = "pbs" THEN p ELSE rec.pin]

newForm(h, s, p) ==
  /\ IsServer /\ form = NotOpen
  /\ form' = [uuid |-> New, rec |-> Typed(NoRecord, h, s, p)]
  /\ FormChanges
  /\ UNCHANGED <<kind, saved, used, put>>

\* GET of one server, of the settings: no secret is sent, and no host key.
Shown(rec) == [rec EXCEPT !.secret = None, !.pin = IF kind = "pbs" THEN @ ELSE None]

editForm(u) ==
  /\ MainFree /\ form = NotOpen /\ u \in Known
  /\ form' = [uuid |-> u, rec |-> Shown(saved[u])]
  /\ FormChanges
  /\ UNCHANGED <<kind, saved, used, put>>

EditFields(h, s, p) ==
  /\ form # NotOpen
  /\ form' = [form EXCEPT !.rec = Typed(@, h, s, p)]
  /\ FormChanges
  /\ UNCHANGED <<kind, saved, used, put>>

closeEditor ==
  /\ form # NotOpen
  /\ form' = NotOpen
  /\ FormChanges
  /\ UNCHANGED <<kind, saved, used, put>>

-----------------------------------------------------------------------------
(* The routes that save.                                                   *)

\* An empty field means "keep".
Keep(new, old) == IF new = None THEN old ELSE new

\* POST /api/ssh, POST /api/pbs: the record gets a fresh uuid.
CreateServer(u) ==
  /\ IsServer /\ MainFree /\ form # NotOpen /\ form.uuid = New
  /\ u \in Uuids \ used
  /\ saveItem(u, form.rec)
  /\ used' = used \cup {u}
  /\ form' = NotOpen
  /\ FormChanges
  /\ UNCHANGED <<kind, put>>

\* A plausible bug: an update that keeps the passphrase and not the pin.
MutPreserveSsh(rec, old) == [rec EXCEPT !.secret = Keep(@, old.secret)]

PreserveSsh(rec, old) == [rec EXCEPT !.secret = Keep(@, old.secret), !.pin = Keep(@, old.pin)]
PreservePbs(rec, old) == [rec EXCEPT !.secret = Keep(@, old.secret)]

\* PUT /api/ssh/<uuid>, PUT /api/pbs/<uuid>, up to the merge with what
\* getItemByUuid returned.
UpdateRead ==
  /\ IsServer /\ MainFree /\ form # NotOpen /\ form.uuid \in Known
  /\ LET old == saved[form.uuid] IN
     put' = [uuid |-> form.uuid, seen |-> old,
             rec |-> IF kind = "ssh" THEN PreserveSsh(form.rec, old) ELSE PreservePbs(form.rec, old)]
  /\ form' = NotOpen
  /\ FormChanges
  /\ UNCHANGED <<kind, saved, used>>

\* The same request: its saveItem.
UpdateSave ==
  /\ put # NoPut
  /\ saveItem(put.uuid, put.rec)
  /\ put' = NoPut
  /\ UNCHANGED <<kind, used, form, test>>

\* PUT /api/prefs, the smtp block, on the main thread alone.  The form stays,
\* with the password typed in it.
SavePrefs ==
  /\ kind = "mail" /\ form # NotOpen
  /\ saveItem(MainConf, [form.rec EXCEPT !.secret = Keep(@, saved[MainConf].secret)])
  /\ FormChanges
  /\ UNCHANGED <<kind, used, form, put>>

\* DELETE /api/ssh/<uuid>, DELETE /api/pbs/<uuid>.
DeleteServer(u) ==
  /\ IsServer /\ MainFree /\ u \in Known
  /\ saved' = Restrict(saved, Known \ {u})
  /\ UNCHANGED <<kind, used, form, put, test>>

-----------------------------------------------------------------------------
(* The tests.                                                              *)

\* A plausible bug: a test mail sent with the stored password in any case.
MutTestedMail == [form.rec EXCEPT !.secret = saved[MainConf].secret]

\* A saved server is tested as it is stored, whatever the form says by now; a
\* test mail takes the form, and the stored password if none was typed.
TestedSsh == IF form.uuid = New THEN form.rec ELSE saved[form.uuid]
TestedPbs == IF form.uuid = New THEN form.rec ELSE saved[form.uuid]
TestedMail == [form.rec EXCEPT !.secret = Keep(@, saved[MainConf].secret)]

\* POST /api/ssh/test, /api/pbs/test, /api/prefs/test-mail; the last refuses a
\* form without a server.
TestBegin ==
  /\ MainFree /\ form # NotOpen /\ test = NoTest
  /\ form.uuid = New \/ form.uuid \in Known
  /\ kind = "mail" => form.rec.host # None
  /\ test' = [uuid |-> form.uuid, step |-> "running", fresh |-> TRUE,
              rec |-> CASE kind = "ssh" -> TestedSsh [] kind = "pbs" -> TestedPbs [] OTHER -> TestedMail]
  /\ UNCHANGED <<kind, saved, used, form, put>>

Captured(rec) == [rec EXCEPT !.pin = rec.host]

\* A plausible bug: a test saves the record of a form that was never saved.
MutSshTestEnds ==
  /\ kind = "ssh" /\ test.step = "running"
  /\ saveItem(test.uuid, Captured(test.rec))
  /\ test' = [test EXCEPT !.step = "ok", !.rec = Captured(test.rec)]
  /\ UNCHANGED <<kind, used, form, put>>

\* A plausible bug: the record is read again for the save, the key is not that
\* of the host it has by then.
MutSshTestEndsReread ==
  /\ kind = "ssh" /\ test.step = "running"
  /\ IF test.uuid \notin Known THEN UNCHANGED saved
                               ELSE saveItem(test.uuid, [saved[test.uuid] EXCEPT !.pin = test.rec.host])
  /\ test' = [test EXCEPT !.step = "ok", !.rec = Captured(test.rec)]
  /\ UNCHANGED <<kind, used, form, put>>

\* The pool thread: sshClient::test returns and a saved server is pinned.
SshTestEnds ==
  /\ kind = "ssh" /\ test.step = "running"
  /\ IF test.uuid = New THEN UNCHANGED saved ELSE saveItem(test.uuid, Captured(test.rec))
  /\ test' = [test EXCEPT !.step = "ok", !.rec = Captured(test.rec)]
  /\ UNCHANGED <<kind, used, form, put>>

\* The pool thread: the answer carries the certificate that was presented.
PbsTestEnds ==
  /\ kind = "pbs" /\ test.step = "running"
  /\ test' = [test EXCEPT !.step = "ok", !.rec = Captured(test.rec)]
  /\ UNCHANGED <<kind, saved, used, form, put>>

MailTestEnds ==
  /\ kind = "mail" /\ test.step = "running"
  /\ test' = [test EXCEPT !.step = "ok"]
  /\ UNCHANGED <<kind, saved, used, form, put>>

TestFails ==
  /\ test.step = "running"
  /\ test' = [test EXCEPT !.step = "failed"]
  /\ UNCHANGED <<kind, saved, used, form, put>>

\* testSsh and testPbs after their await: the key goes to whatever form shows now.
TestAnswered ==
  /\ test.step \in {"ok", "failed"}
  /\ form' = IF IsServer /\ test.step = "ok" /\ form # NotOpen
               THEN [form EXCEPT !.rec.pin = test.rec.pin] ELSE form
  /\ test' = NoTest
  /\ UNCHANGED <<kind, saved, used, put>>

Next == \/ \E h \in Hosts, s \in Secrets \cup {None}, p \in Hosts \cup {None} :
             newForm(h, s, p) \/ EditFields(h, s, p)
        \/ closeEditor
        \/ \E u \in Uuids \cup {MainConf} : editForm(u)
        \/ \E u \in Uuids : CreateServer(u) \/ DeleteServer(u)
        \/ UpdateRead \/ UpdateSave \/ SavePrefs
        \/ TestBegin \/ SshTestEnds \/ PbsTestEnds \/ MailTestEnds \/ TestFails \/ TestAnswered

Spec == Init /\ [][Next]_vars

-----------------------------------------------------------------------------
(* Properties.                                                             *)

\* Types; every saved server has a uuid that was handed out, and so does the
\* record an update is about to save and the one a test was started with.
TypeOK ==
  /\ kind \in {"ssh", "pbs", "mail"}
  /\ used \subseteq Uuids
  /\ Known \subseteq used \cup {MainConf} /\ (MainConf \in Known <=> kind = "mail")
  /\ \A u \in Known : saved[u] \in Record
  /\ form \in Form /\ put \in Put /\ test \in Test
  /\ {form.uuid, put.uuid, test.uuid} \subseteq used \cup {New, MainConf}

\* An update in its second call, or a test that ends, whose copy of u is no
\* longer what is stored.
StaleWriter(u) == \/ put # NoPut /\ put' = NoPut /\ put.uuid = u /\ put.seen # saved[u]
                  \/ test.step = "running" /\ test.uuid = u /\ (u \notin Known \/ test.rec # saved[u])

\* "hostkey/keypass preserved if omitted", "secrets preserved if omitted" (PUT),
\* "an omitted/empty field means keep the current password" (settings): no step
\* takes a secret or an SSH pin away from a record that stays, although no form
\* ever has them, unless a writer saves over what it has not read.
SecretsSurvive ==
  [][\A u \in Known \cap Known' :
       \/ StaleWriter(u)
       \/ /\ saved[u].secret # None => saved'[u].secret # None
          /\ kind = "ssh" /\ saved[u].pin # None => saved'[u].pin # None]_vars

\* "For an existing server (uuid set) the freshly captured key is pinned
\* immediately": a test that ends writes to the server it tested only, and what
\* it pins is the key of the host that is stored then; if nobody saved or deleted
\* that server meanwhile, nothing but its pin changes.
TestPinsTested ==
  [][test.step = "running" /\ test'.step = "ok" =>
       /\ \A u \in Uuids \ {test.uuid} : (u \in Known <=> u \in Known') /\ (u \in Known => saved'[u] = saved[u])
       /\ test.uuid \in Known' /\ kind = "ssh" =>
            /\ saved'[test.uuid].pin = saved'[test.uuid].host
            /\ StaleWriter(test.uuid) \/ [saved'[test.uuid] EXCEPT !.pin = saved[test.uuid].pin] = saved[test.uuid]]_vars

\* "supplied fields let the admin test UNSAVED changes", and the inline fields
\* of a server not saved yet: a form saved as it was when its test began, over
\* the record of that time, stores the host and the secret that were tested.
SavedAsTested ==
  [][\A u \in Known' :
       /\ test.fresh /\ saved' # saved
       /\ u = MainConf \/ (u \notin Known /\ form # NotOpen /\ form' = NotOpen)
       => saved'[u].host = test.rec.host /\ saved'[u].secret = test.rec.secret]_vars

\* A test changes the pin of the server it tested and nothing else, whatever
\* happened meanwhile ("config singleton is mutex-protected").
TestOnlyPins ==
  [][test.step = "running" /\ test'.step = "ok" =>
       /\ Known' = Known
       /\ \A u \in Known : [saved'[u] EXCEPT !.pin = saved[u].pin] = saved[u]]_vars

\* "Whether a host key has been pinned yet (drives the "verified" UI state)": a
\* server shown as verified is pinned to the key of its own host.
PinIsOfHost == kind = "ssh" => \A u \in Known : saved[u].pin \in {None, saved[u].host}

=============================================================================
