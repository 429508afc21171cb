---------------------------- MODULE PartnerOutbox ----------------------------
(***************************************************************************)
(* The outbox of mails to the partners and the timer that sends them.      *)
(*                                                                         *)
(*   api/src/partner/partner-notification.service.ts     enqueue           *)
(*   api/src/partner/partner-notification.processor.ts   processPending    *)
(*                                                                         *)
(* The timer starts processPending once a minute and waits for nothing, so *)
(* a run that is still talking to a slow mail server meets the next one.   *)
(* A run reads its batch once; then, row by row, it sends the mail and     *)
(* marks the row in a separate update.  A failure of either counts as an   *)
(* attempt.  When counting fails too the run ends there.  A crash ends all *)
(* runs; the service starts again, with a run, when it is next up.         *)
(*                                                                         *)
(* Abstractions: mails are numbered in the order of createdAt; their text  *)
(* is left out, and so is a deployment without SMTP, where nothing runs.   *)
(***************************************************************************)
EXTENDS Integers, FiniteSets

CONSTANTS
    MaxMails,       \* bound: PartnerNotificationOutbox rows
    Ticks,          \* runs of processPending that may overlap
    BATCH,          \* rows a run reads
    MAX_ATTEMPTS,   \* attempts after which a row is given up
    MaxFaults       \* bound: failed updates and crashes

MailIds == 1..MaxMails

ASSUME OutboxAssumption ==
    /\ MaxMails \in Nat /\ MaxFaults \in Nat
    /\ BATCH \in Nat \ {0} /\ MAX_ATTEMPTS \in Nat \ {0}
    /\ IsFiniteSet(Ticks)

VARIABLES
    outbox,     \* the rows; "absent" before the enqueue
    tick,       \* what each run still has to do
    received,   \* history: how often each mail has reached its addressee
    lapses,     \* history: events that may have a mail sent once more
    faults      \* failed updates and crashes so far

outboxVars == <<outbox, tick, received, lapses, faults>>

MailRow == [status : {"absent", "queued", "sent"}, attempts : Nat]
TickState == [pc : {"idle", "send", "mark", "count"}, batch : SUBSET MailIds]
IdleTick == [pc |-> "idle", batch |-> {}]

OutboxTypeOK ==
    /\ outbox \in [MailIds -> MailRow]
    /\ tick \in [Ticks -> TickState]
    /\ \A t \in Ticks : tick[t].batch = {} <=> tick[t] = IdleTick
    /\ received \in [MailIds -> Nat]
    /\ lapses \in [MailIds -> Nat]
    /\ faults \in 0..MaxFaults

OutboxInit ==
    /\ outbox = [m \in MailIds |-> [status |-> "absent", attempts |-> 0]]
    /\ tick = [t \in Ticks |-> IdleTick]
    /\ received = [m \in MailIds |-> 0]
    /\ lapses = [m \in MailIds |-> 0]
    /\ faults = 0
-----------------------------------------------------------------------------
Least(S) == CHOOSE m \in S : \A n \in S : m =< n
Current(t) == Least(tick[t].batch)

\* The next row of the batch, or the end of the run.
Advanced_Flaw(t) == [pc |-> "send", batch |-> tick[t].batch \ {Current(t)}]
Advanced(t) == LET rest == tick[t].batch \ {Current(t)}
               IN  IF rest = {} THEN IdleTick ELSE [pc |-> "send", batch |-> rest]
Goes(t, pc) == tick' = [tick EXCEPT ![t].pc = pc]

Fault == faults < MaxFaults /\ faults' = faults + 1

Enqueue(m) ==
    /\ outbox[m].status = "absent" /\ \A n \in 1..(m - 1) : outbox[n].status # "absent"
    /\ outbox' = [outbox EXCEPT ![m].status = "queued"]
    /\ UNCHANGED <<tick, received, lapses, faults>>

\* The rows a run takes: unsent, not given up, oldest first.
Pending == {m \in MailIds : outbox[m].status = "queued" /\ outbox[m].attempts < MAX_ATTEMPTS}
FirstOf(S) == {m \in S : Cardinality({n \in S : n =< m}) =< BATCH}
Taken_Flaw == FirstOf({m \in MailIds : outbox[m].status # "absent"
                                       /\ outbox[m].attempts < MAX_ATTEMPTS})
Taken == FirstOf(Pending)

\* A row that another run holds may be sent by both.
StartTick(t) ==
    /\ tick[t] = IdleTick /\ Taken # {}
    /\ tick' = [tick EXCEPT ![t] = [pc |-> "send", batch |-> Taken]]
    /\ lapses' = [m \in MailIds |-> IF m \in Taken
                    THEN lapses[m] + Cardinality({u \in Ticks : m \in tick[u].batch})
                    ELSE lapses[m]]
    /\ UNCHANGED <<outbox, received, faults>>

\* mail.send succeeds, or it throws.
SendMail(t) ==
    /\ tick[t].pc = "send"
    /\ \/ /\ received' = [received EXCEPT ![Current(t)] = @ + 1]
          /\ Goes(t, "mark")
       \/ UNCHANGED received /\ Goes(t, "count")
    /\ UNCHANGED <<outbox, lapses, faults>>

MarkSent(t) ==
    /\ tick[t].pc = "mark"
    /\ outbox' = [outbox EXCEPT ![Current(t)].status = "sent"]
    /\ tick' = [tick EXCEPT ![t] = Advanced(t)]
    /\ UNCHANGED <<received, lapses, faults>>

\* The update that marks fails: the catch counts an attempt of a mail that has gone.
MarkFails(t) ==
    /\ tick[t].pc = "mark" /\ Fault
    /\ lapses' = [lapses EXCEPT ![Current(t)] = @ + 1]
    /\ Goes(t, "count")
    /\ UNCHANGED <<outbox, received>>

CountAttempt_Flaw(t) ==
    /\ tick[t].pc = "count"
    /\ tick' = [tick EXCEPT ![t] = Advanced(t)]
    /\ UNCHANGED <<outbox, received, lapses, faults>>
CountAttempt(t) ==
    /\ tick[t].pc = "count"
    /\ outbox' = [outbox EXCEPT ![Current(t)].attempts = @ + 1]
    /\ tick' = [tick EXCEPT ![t] = Advanced(t)]
    /\ UNCHANGED <<received, lapses, faults>>

\* The run reads, or counts, in vain: it ends.
TickFails(t) ==
    /\ tick[t].pc = "count" /\ Fault
    /\ tick' = [tick EXCEPT ![t] = IdleTick]
    /\ UNCHANGED <<outbox, received, lapses>>

\* A mail that was sent and not marked will be sent again.
CrashOutbox ==
    /\ Fault
    /\ \E t \in Ticks : tick[t] # IdleTick
    /\ tick' = [t \in Ticks |-> IdleTick]
    /\ lapses' = [m \in MailIds |-> lapses[m] +
                    Cardinality({t \in Ticks : tick[t].pc = "mark" /\ Current(t) = m})]
    /\ UNCHANGED <<outbox, received>>

TickStep(t) == SendMail(t) \/ MarkSent(t) \/ CountAttempt(t)

OutboxNext ==
    \/ \E m \in MailIds : Enqueue(m)
    \/ \E t \in Ticks : StartTick(t) \/ TickStep(t) \/ MarkFails(t) \/ TickFails(t)
    \/ CrashOutbox

\* The timer starts runs for as long as the service is up, and mail.send and the
\* updates return or throw (SMTP and database time-outs): nothing is assumed of
\* which of the two they do.
OutboxFairness == \A t \in Ticks : WF_outboxVars(StartTick(t)) /\ WF_outboxVars(TickStep(t))

OutboxSpec == OutboxInit /\ [][OutboxNext]_outboxVars /\ OutboxFairness
-----------------------------------------------------------------------------
\* A mail reaches its addressee once, and once more at most for each run that took the
\* row while another held it, each mark that failed and each crash before a mark; and
\* a row is marked sent only when its mail has gone.
MailedOnce ==
    \A m \in MailIds :
        /\ received[m] =< 1 + lapses[m]
        /\ outbox[m].status = "sent" => received[m] > 0

\* Every mail is sent or given up after MAX_ATTEMPTS attempts: an address that always
\* fails does not hold up the mails behind it, whatever the size of a batch.
MailSettles ==
    \A m \in MailIds :
        outbox[m].status = "queued"
            ~> outbox[m].status = "sent" \/ outbox[m].attempts >= MAX_ATTEMPTS
=============================================================================
