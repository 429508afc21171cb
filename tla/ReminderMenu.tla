---------------------------- MODULE ReminderMenu ----------------------------
(***************************************************************************)
(* The reminders of one vehicle, and the date of its inspection (ITP).     *)
(*                                                                         *)
(*   api/src/ops/reminders.service.ts        the menu of reminders         *)
(*   api/src/ops/reminder-sync.ts            when an entry is on it        *)
(*   api/src/ops/itp-sync.ts                 one date in three places      *)
(*   api/src/ops/documents.service.ts, costs.service.ts,                   *)
(*   maintenance.service.ts, api/src/fleet/maintenance-plan.service.ts,    *)
(*   fleet.service.ts                        the entries                   *)
(*                                                                         *)
(* A document, a cost, a maintenance entry, an item of the maintenance     *)
(* plan and the vehicle's own profile each have a due date.  The menu      *)
(* keeps a copy of it, which a request brings up to date after it has      *)
(* written the entry, in a statement whose failure it swallows.  An        *)
(* inspection recorded in one place is then copied to the profile and to   *)
(* the certificate, in statements whose failure it swallows too.           *)
(*                                                                         *)
(* Abstractions: one entry of each kind, so the newest certificate is the  *)
(* only one; an entry is not made anew while a request about a deleted one *)
(* is in flight.  The due kilometres go the way of the due date.  A plan's *)
(* date is any that its interval, last service or manual override may      *)
(* give.  Titles, and closing a reminder without removing it, are left     *)
(* out.                                                                    *)
(***************************************************************************)
EXTENDS Integers

CONSTANTS
    MaxDate,    \* bound: due dates
    Savers      \* requests in flight

ASSUME ReminderAssumption == MaxDate \in Nat \ {0}

Sources == {"profile", "cert", "cost", "service", "plan"}
NoDate == 0
DueDates == 0..MaxDate

VARIABLES
    entries,    \* the row of each source: what is due, whether to warn, on the menu or not
    menu,       \* ReminderAction rows: the date each source's reminder shows, or NoDate
    saves,      \* what each request in flight has written or read
    astray,     \* history: sources whose reminder was left to itself (see each use)
    muddled     \* history: an inspection date was not copied, or two requests overlapped

reminderVars == <<entries, menu, saves, astray, muddled>>

\* type: documentTypeCode itp_cert, category ITP or costAllocationCode itp, or another;
\* warn: reminderOffsetsDays are set; sync: reminderMenuSyncEnabled.
OpsEntry == [type : {"itp", "other", "none"}, due : DueDates, warn : BOOLEAN, sync : BOOLEAN]
\* Every entry but a plan's item and the profile is an inspection or not.
TypesOf(s) == CASE s = "profile" -> {"itp"} [] s = "plan" -> {"other"} [] OTHER -> {"itp", "other"}
EntriesOf == [s \in Sources |-> {row \in OpsEntry : row.type \in TypesOf(s)}]
NoEntry == [type |-> "none", due |-> NoDate, warn |-> FALSE, sync |-> FALSE]

SaveSteps == {"idle", "reread", "sync", "profile", "certificate", "link", "unlist"}
Save == [pc : SaveSteps, of : Sources \cup {"none"}, row : OpsEntry, off : BOOLEAN, link : BOOLEAN]
NoSave == [pc |-> "idle", of |-> "none", row |-> NoEntry, off |-> FALSE, link |-> FALSE]

ReminderTypeOK ==
    /\ entries \in [Sources -> OpsEntry] /\ entries["profile"] # NoEntry
    /\ menu \in [Sources -> DueDates]
    /\ saves \in [Savers -> Save]
    /\ astray \subseteq Sources /\ muddled \in BOOLEAN

\* A vehicle without an inspection date.
ReminderInit ==
    /\ entries = [s \in Sources |->
         IF s = "profile" THEN [type |-> "itp", due |-> NoDate, warn |-> FALSE, sync |-> TRUE]
         ELSE NoEntry]
    /\ menu = [s \in Sources |-> NoDate]
    /\ saves = [c \in Savers |-> NoSave]
    /\ astray = {} /\ muddled = FALSE
-----------------------------------------------------------------------------
Exists(s) == entries[s] # NoEntry
InFlight(s) == \E c \in Savers : saves[c].of = s
SaverAt(c, pc) == saves[c].pc = pc
GoesTo(c, pc) == saves' = [saves EXCEPT ![c] = IF pc = "idle" THEN NoSave ELSE [@ EXCEPT !.pc = pc]]
GoesAstray(S) == astray' = astray \cup S

\* What may write an inspection date.
TouchesItp(s, row) == s \in {"profile", "cert"} \/ row.type = "itp"

\* Another request about the same entry, or another one about the inspection, has begun.
Overlaps(s, row) ==
    /\ GoesAstray({t \in {s} : InFlight(t)})
    /\ muddled' = (muddled \/ \E d \in Savers :
         \/ saves[d].of = s
         \/ ~SaverAt(d, "idle") /\ TouchesItp(s, row) /\ TouchesItp(saves[d].of, saves[d].row))

(***************************************************************************)
(* A request writes its entry ...                                          *)
(***************************************************************************)
\* reminderMenuSyncEnabledForCreate, reminderMenuSyncEnabledPatchValue.
SyncFlag(s, off, on) == IF off THEN FALSE ELSE ~Exists(s) \/ on \/ entries[s].sync

\* An edited cost, maintenance entry or vehicle is read again before the menu is brought
\* up to date, and so is the cost of a quote (postCost), made in a transaction; the others
\* are used as written.
StepsAfterWrite(s) ==
    IF Exists(s) THEN {IF s \in {"cost", "service", "profile"} THEN "reread" ELSE "sync"}
    ELSE {"sync"} \cup (IF s = "cost" THEN {"reread"} ELSE {})

\* create and patch; a profile that loses its date loses its warnings.  A new document
\* may bring a cost along, and a new cost a document.
SaveEntry(c, s, row, off, link) ==
    /\ Exists(s) \/ ~InFlight(s)
    /\ s = "profile" /\ entries[s].due # NoDate /\ row.due = NoDate => ~row.warn
    /\ \E on \in BOOLEAN : row.sync = SyncFlag(s, off, on)
    /\ link => ~Exists(s) /\ s \in {"cert", "cost"}
    /\ entries' = [entries EXCEPT ![s] = row]
    /\ \E pc \in StepsAfterWrite(s) :
         /\ link => pc = "sync"
         /\ saves' = [saves EXCEPT ![c] = [pc |-> pc, of |-> s, row |-> row, off |-> off, link |-> link]]
    /\ Overlaps(s, row)
    /\ UNCHANGED menu

\* markPerformed: a plan's item with its next date, and as it was on the menu.
MarkPerformed(c, due) ==
    LET row == [entries["plan"] EXCEPT !.due = due] IN
    /\ SaverAt(c, "idle") /\ Exists("plan")
    /\ entries' = [entries EXCEPT !["plan"] = row]
    /\ saves' = [saves EXCEPT ![c] = [NoSave EXCEPT !.pc = "sync", !.of = "plan", !.row = row]]
    /\ Overlaps("plan", row)
    /\ UNCHANGED menu

\* delete of an entry takes its reminder with it.
DeleteEntry(s) ==
    /\ s # "profile" /\ Exists(s)
    /\ entries' = [entries EXCEPT ![s] = NoEntry]
    /\ menu' = [menu EXCEPT ![s] = NoDate]
    /\ UNCHANGED <<saves, astray, muddled>>
-----------------------------------------------------------------------------
(***************************************************************************)
(* ... and then brings the menu up to date.                                *)
(***************************************************************************)
\* getById finds the entry gone and answers 404.
RereadEntry(c) ==
    /\ SaverAt(c, "reread")
    /\ LET s == saves[c].of IN
         IF Exists(s) THEN saves' = [saves EXCEPT ![c].pc = "sync", ![c].row = entries[s]]
         ELSE saves' = [saves EXCEPT ![c] = NoSave]
    /\ UNCHANGED <<entries, menu, astray, muddled>>

\* shouldRunReminderMenuSync and hasReminderSyncConstraints; the profile's own flag alone
\* counts.
Listed_Flaw(s, row, off) == ~off /\ row.due # NoDate /\ row.warn
Listed(s, row, off) ==
    /\ row.sync /\ (s = "profile" \/ ~off)
    /\ row.due # NoDate /\ row.warn

\* An inspection is copied to the profile and on to the certificate; that of the
\* certificate to the profile alone, that of the profile to the certificate alone.
AfterSync_Flaw(save) ==
    IF save.row.type = "itp" /\ save.row.due # NoDate /\ save.of # "profile"
    THEN "profile" ELSE IF save.link THEN "link" ELSE "idle"
AfterSync(save) ==
    IF save.row.type = "itp" /\ save.row.due # NoDate
    THEN IF save.of = "profile" THEN "certificate" ELSE "profile"
    ELSE IF save.link THEN "link" ELSE "idle"
AfterCopy(save) == IF save.link THEN "link" ELSE "idle"

\* syncFromDocument and its four likes: the row of the source is made or overwritten, or
\* deleted; a reminder of a deleted entry is refused.
SyncReminder(c) ==
    LET s == saves[c].of
        listed == Listed(s, saves[c].row, saves[c].off)
    IN
    /\ SaverAt(c, "sync")
    /\ listed => Exists(s)
    /\ menu' = [menu EXCEPT ![s] = IF listed THEN saves[c].row.due ELSE NoDate]
    /\ GoesTo(c, AfterSync(saves[c]))
    /\ UNCHANGED <<entries, astray, muddled>>

\* The statement fails; the request goes on and answers reminderSyncFailed.
FailSync(c) ==
    /\ SaverAt(c, "sync")
    /\ GoesTo(c, AfterSync(saves[c]))
    /\ GoesAstray({saves[c].of})
    /\ UNCHANGED <<entries, menu, muddled>>
-----------------------------------------------------------------------------
(***************************************************************************)
(* An inspection is recorded elsewhere: the reminders of what it is copied *)
(* to are not brought up to date.                                          *)
(***************************************************************************)
CopyDate(s, due) ==
    /\ entries' = [entries EXCEPT ![s].due = due]
    /\ GoesAstray({t \in {s} : entries[t].due # due})

\* syncVehicleItpFromOps.
CopyToProfile(c) ==
    /\ SaverAt(c, "profile")
    /\ CopyDate("profile", saves[c].row.due)
    /\ GoesTo(c, IF saves[c].of = "cert" THEN AfterCopy(saves[c]) ELSE "certificate")
    /\ UNCHANGED <<menu, muddled>>

\* syncItpCertDocument, when there is a certificate.
CopyToCertificate(c) ==
    /\ SaverAt(c, "certificate")
    /\ IF entries["cert"].type = "itp" THEN CopyDate("cert", saves[c].row.due)
       ELSE UNCHANGED <<entries, astray>>
    /\ GoesTo(c, AfterCopy(saves[c]))
    /\ UNCHANGED <<menu, muddled>>

FailCopy(c) ==
    /\ SaverAt(c, "profile") \/ SaverAt(c, "certificate")
    /\ GoesTo(c, AfterCopy(saves[c]))
    /\ muddled' = TRUE
    /\ UNCHANGED <<entries, menu, astray>>

\* linkedCost of a document: a cost due when the document expires.  linkedDocument of a
\* cost: a document of any type and date.  Neither warns, nor copies an inspection date.
Link(c, type, due) ==
    LET from == saves[c].of
        to == IF from = "cert" THEN "cost" ELSE "cert"
    IN
    /\ SaverAt(c, "link") /\ ~Exists(to) /\ ~InFlight(to)
    /\ from = "cert" => due = saves[c].row.due
    /\ entries' = [entries EXCEPT ![to] = [type |-> type, due |-> due, warn |-> FALSE, sync |-> TRUE]]
    /\ muddled' = (muddled \/ (to = "cert" /\ type = "itp" /\ due # entries["profile"].due))
    /\ GoesTo(c, "idle")
    /\ UNCHANGED <<menu, astray>>
-----------------------------------------------------------------------------
(***************************************************************************)
(* The menu itself.                                                        *)
(***************************************************************************)
\* delete of a reminder first takes its entry off the menu, for good ...
TakeOff(c, s) ==
    /\ SaverAt(c, "idle")
    /\ menu[s] # NoDate
    /\ entries' = [entries EXCEPT ![s].sync = FALSE]
    /\ saves' = [saves EXCEPT ![c] = [NoSave EXCEPT !.pc = "unlist", !.of = s]]
    /\ GoesAstray({t \in {s} : InFlight(t)})
    /\ UNCHANGED <<menu, muddled>>

\* ... and then deletes the reminder.
Unlist(c) ==
    /\ SaverAt(c, "unlist")
    /\ menu' = [menu EXCEPT ![saves[c].of] = NoDate]
    /\ GoesTo(c, "idle")
    /\ UNCHANGED <<entries, astray, muddled>>

\* patch of a reminder; create of one for a document or a maintenance entry that has none.
WriteReminder(s, due) ==
    /\ due # NoDate
    /\ menu[s] # NoDate \/ (s \in {"cert", "service"} /\ Exists(s))
    /\ menu' = [menu EXCEPT ![s] = due]
    /\ GoesAstray({s})
    /\ UNCHANGED <<entries, saves, muddled>>

\* The process stops between two statements.
DropSave(c) ==
    /\ ~SaverAt(c, "idle")
    /\ GoesTo(c, "idle")
    /\ GoesAstray({saves[c].of})
    /\ muddled' = (muddled \/ TouchesItp(saves[c].of, saves[c].row))
    /\ UNCHANGED <<entries, menu>>

WriteNext(c) ==
    /\ SaverAt(c, "idle")
    /\ \E s \in Sources, off, link \in BOOLEAN :
         \E row \in EntriesOf[s] : SaveEntry(c, s, row, off, link)

SyncNext(c) ==
    \/ \E due \in DueDates : MarkPerformed(c, due)
    \/ RereadEntry(c) \/ SyncReminder(c) \/ FailSync(c)
    \/ CopyToProfile(c) \/ CopyToCertificate(c) \/ FailCopy(c)
    \/ \E type \in {"itp", "other"}, due \in DueDates : Link(c, type, due)
    \/ \E s \in Sources : TakeOff(c, s)
    \/ Unlist(c) \/ DropSave(c)

RowNext == \E s \in Sources : DeleteEntry(s) \/ \E due \in DueDates : WriteReminder(s, due)

ReminderNext == (\E c \in Savers : WriteNext(c) \/ SyncNext(c)) \/ RowNext

ReminderSpec == ReminderInit /\ [][ReminderNext]_reminderVars
-----------------------------------------------------------------------------
(***************************************************************************)
(* Properties.                                                             *)
(***************************************************************************)
\* The menu reminds of what is due: when no request about an entry is in flight, its
\* reminder shows the entry's date if the entry is dated, warns and is wanted on the menu,
\* and is absent otherwise, whatever happens to the other entries meanwhile.  Excepted are
\* entries with two requests at once, with a failure or a stop before the menu was
\* written, with a reminder edited by hand, and those an inspection recorded elsewhere
\* has dated anew.  No reminder outlives its entry.
MenuFollowsEntries ==
    /\ \A s \in Sources \ astray :
         ~InFlight(s) => menu[s] = IF entries[s].sync /\ entries[s].warn THEN entries[s].due ELSE NoDate
    /\ \A s \in Sources : ~Exists(s) => menu[s] = NoDate

\* The profile and the certificate, when both bear a date, bear the same one, wherever
\* inspections are recorded, edited, moved to and from other types and deleted; excepted
\* are copies that failed, requests about the inspection that overlapped, and a certificate
\* recorded along with a cost.
ItpDatesAgree ==
    ~muddled /\ (\A c \in Savers : ~TouchesItp(saves[c].of, saves[c].row)) =>
        \/ entries["cert"].type # "itp"
        \/ NoDate \in {entries["cert"].due, entries["profile"].due}
        \/ entries["cert"].due = entries["profile"].due
=============================================================================
