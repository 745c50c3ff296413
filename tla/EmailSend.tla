----------------------------- MODULE EmailSend ------------------------------
(***************************************************************************)
(* One mail: send-email, send-notification (adapters/cli/commands/email)   *)
(* or the summary mail of a backup, down to the delivery by btx_lib_mail   *)
(* (adapters/email/transport.py), which is external.                       *)
(*                                                                         *)
(* "barred" is an attachment whose extension the list in force blocks,     *)
(* the configured one or the library's.  Every delivery attempt is a step: *)
(* a host that fails makes the library try the next one for the recipient, *)
(* and after the last one it goes on with the next recipient.              *)
(***************************************************************************)
EXTENDS EmailConfig, Naturals, Sequences, FiniteSets

CONSTANTS
    Section,    \* [email] sections a configuration has
    Hosts,      \* number of hosts a configured list names
    Rcpts       \* sequence of the configured recipients

ASSUME EmailAssumption == Hosts \in Nat \ {0} /\ Rcpts \in Seq(STRING) \ {<<>>}

VARIABLES
    section,    \* config_dict["email"]
    opts,       \* the command and its options
    pc,
    fields,     \* the EmailConfig: key -> kind, set keys only
    hosts,      \* number of hosts of the EmailConfig
    queue,      \* recipients not served
    tried,      \* hosts that failed for the first of them
    got,        \* recipients that have the mail
    failed,     \* recipients all hosts failed for
    enclosed,   \* the mail carries the attachment
    logged,     \* an error was logged
    code        \* exit code

vars == <<section, opts, pc, fields, hosts, queue, tried, got, failed, enclosed, logged, code>>

Options ==
    {o \in [cmd : {"send-email", "send-notification", "summary"},
            to : {"none", "one", "bad"}, from : BOOLEAN,
            smtp_host : {"none", "fine", "bad"},
            file : {"none", "fine", "missing", "barred"},
            raise_on_missing_attachments : {"none", "true", "false"}, dev : BOOLEAN] :
        /\ o.file # "none" => o.cmd = "send-email"
        /\ o.raise_on_missing_attachments # "none" => o.file # "none"
        /\ o.cmd = "summary" => o.to = "none" /\ ~o.from /\ o.smtp_host = "none"}

NoFields == [k \in {} |-> "null"]
Codes == {"none", "ok", "general", "notfound", "argument", "unavailable",
          "refused", "config", "exception"}

TypeOK ==
    /\ section \in Section /\ opts \in Options
    /\ pc \in {"load", "override", "send", "policy", "deliver", "ended"}
    /\ \A k \in DOMAIN fields : Accepts(k, fields[k])
    /\ hosts \in 0 .. Hosts
    /\ queue \in {SubSeq(Rcpts, i, Len(Rcpts)) : i \in 1 .. Len(Rcpts) + 1} \cup {<<Rcpts[1]>>}
    /\ tried \in 0 .. Hosts
    /\ got \cup failed \subseteq {Rcpts[i] : i \in 1 .. Len(Rcpts)}
    /\ enclosed \in BOOLEAN
    /\ logged \in BOOLEAN
    /\ code \in Codes /\ (pc = "ended" <=> code # "none")

Init ==
    /\ section \in Section /\ opts \in Options
    /\ pc = "load"
    /\ fields = NoFields /\ hosts = 0
    /\ queue = <<>> /\ tried = 0 /\ got = {} /\ failed = {}
    /\ enclosed = FALSE
    /\ logged = FALSE /\ code = "none"

-----------------------------------------------------------------------------
Given(k)   == k \in DOMAIN fields /\ fields[k] \in {"text", "list", "number"}
Command    == opts.cmd # "summary"
Recipients ==   \* _resolve_recipients
    IF opts.to # "none" THEN <<Rcpts[1]>> ELSE IF Given("recipients") THEN Rcpts ELSE <<>>

End(c) == pc' = "ended" /\ code' = c

\* Mutant: a failed delivery is reported as invalid parameters.
RaiseDelivery(kind) ==
    /\ logged' = TRUE
    /\ End(IF kind = "delivery" THEN "argument" ELSE "general")

\* execute_with_email_error_handling, and _send_summary_email for the summary:
\* the exit code by what was raised.
Raise(kind) ==
    /\ logged' = TRUE
    /\ IF ~Command THEN End("ok")
       ELSE CASE kind = "configuration" -> End("config")
              [] kind = "value"         -> End("argument")
              [] kind = "not found"     -> End("notfound")
              [] kind = "security"      -> End("refused")
              [] kind = "delivery"      -> End("unavailable")
              [] kind = "other"         -> End(IF opts.dev THEN "exception" ELSE "general")

\* load_and_validate_email_config: a command refuses a section without hosts
\* at once, the summary only when it sends.
LoadAndValidate ==
    /\ pc = "load"
    /\ LET loaded == Translate(section)
           named  == "smtp_hosts" \in DOMAIN loaded /\ loaded["smtp_hosts"] = "list"
       IN IF Invalid(section) \/ (Command /\ ~named)
          THEN Raise("configuration") /\ UNCHANGED <<fields, hosts>>
          ELSE /\ fields' = loaded
               /\ hosts' = IF named THEN Hosts ELSE 0
               /\ pc' = "override"
               /\ UNCHANGED <<logged, code>>
    /\ UNCHANGED <<section, opts, queue, tried, got, failed, enclosed>>

\* apply_validated_overrides: the options are validated with the rest.
ApplyValidatedOverrides ==
    /\ pc = "override"
    /\ IF opts.smtp_host = "bad"
       THEN Raise("value") /\ UNCHANGED hosts
       ELSE /\ hosts' = IF opts.smtp_host = "fine" THEN 1 ELSE hosts
            /\ pc' = "send"
            /\ UNCHANGED <<logged, code>>
    /\ UNCHANGED <<section, opts, fields, queue, tried, got, failed, enclosed>>

\* send_email: _resolve_sender, _validate_smtp_hosts, _resolve_recipients.
SendEmail ==
    /\ pc = "send"
    /\ IF ~opts.from /\ ~Given("from_address")
       THEN Raise("value") /\ queue' = queue
       ELSE IF hosts = 0 THEN Raise("configuration") /\ queue' = queue
       ELSE IF opts.to = "bad" \/ Recipients = <<>> THEN Raise("value") /\ queue' = queue
       ELSE queue' = Recipients /\ pc' = "policy" /\ UNCHANGED <<logged, code>>
    /\ UNCHANGED <<section, opts, fields, hosts, tried, got, failed, enclosed>>

\* What the switch in force says, the option's value before the configured
\* one (_common.py: EmailConfigOverrides); the library's default is to raise.
MissingRaises ==
    opts.raise_on_missing_attachments = "true"
        \/ /\ opts.raise_on_missing_attachments = "none"
           /\ "raise_on_missing_attachments" \in DOMAIN fields
                  => fields["raise_on_missing_attachments"] = "true"
ViolationRaises ==
    "raise_on_security_violation" \in DOMAIN fields
        => fields["raise_on_security_violation"] = "true"

\* An empty blocked list blocks nothing.
Barred == /\ opts.file = "barred"
          /\ "blocked_extensions" \in DOMAIN fields
                 => fields["blocked_extensions"] # "emptylist"

\* Before it delivers anything, the library refuses what exceeds a limit (a
\* number is 1 here) and a file that is missing or barred; with its switch off
\* such a file is left out of the mail.
Policy ==
    /\ pc = "policy"
    /\ \/ IF Given("recipient_max_count") /\ Len(queue) > 1
          THEN Raise("value") /\ UNCHANGED enclosed
          ELSE IF opts.file = "missing" /\ MissingRaises
          THEN Raise("not found") /\ UNCHANGED enclosed
          ELSE IF Barred /\ ViolationRaises THEN Raise("security") /\ UNCHANGED enclosed
          ELSE /\ pc' = "deliver"
               /\ enclosed' = (opts.file \notin {"none", "missing"} /\ ~Barred)
               /\ UNCHANGED <<logged, code>>
       \/ Raise("other") /\ UNCHANGED enclosed
    /\ UNCHANGED <<section, opts, fields, hosts, queue, tried, got, failed>>

\* An attempt succeeds, fails at one host, or at the last one.
Attempt ==
    /\ pc = "deliver" /\ queue # <<>>
    /\ \/ got' = got \cup {Head(queue)} /\ queue' = Tail(queue) /\ tried' = 0
          /\ UNCHANGED failed
       \/ tried + 1 < hosts /\ tried' = tried + 1 /\ UNCHANGED <<got, failed, queue>>
       \/ tried + 1 = hosts /\ failed' = failed \cup {Head(queue)} /\ queue' = Tail(queue)
          /\ tried' = 0 /\ UNCHANGED got
    /\ UNCHANGED <<section, opts, pc, fields, hosts, enclosed, logged, code>>

\* Mutant: a command ends well whatever the library returned.
HandleSendResultBlind ==
    /\ pc = "deliver" /\ queue = <<>>
    /\ End("ok") /\ UNCHANGED logged
    /\ UNCHANGED <<section, opts, fields, hosts, queue, tried, got, failed, enclosed>>

\* send_email turns the library's error for the recipients that failed into a
\* DeliveryError; _handle_send_result: it may also return False.  The summary
\* only logs what it was told.
HandleSendResult ==
    /\ pc = "deliver" /\ queue = <<>>
    /\ \/ failed # {} /\ Raise("delivery")
       \/ failed = {} /\ End("ok") /\ UNCHANGED logged
       \/ failed = {} /\ End(IF Command THEN "unavailable" ELSE "ok") /\ UNCHANGED logged
    /\ UNCHANGED <<section, opts, fields, hosts, queue, tried, got, failed, enclosed>>

Next == \/ LoadAndValidate \/ ApplyValidatedOverrides \/ SendEmail \/ Policy
        \/ Attempt \/ HandleSendResult

Spec == Init /\ [][Next]_vars

-----------------------------------------------------------------------------
(* Properties                                                              *)

\* A switch is written as false.
WrittenOff(table, k) == k \in DOMAIN table /\ table[k] = "false"

\* A code that blames the command line, the configuration or an attachment
\* (2, 22, 77, 78) means that nobody has the mail: it can be sent again.
RefusedBeforeDelivery ==
    code \in {"notfound", "argument", "refused", "config"} => got = {}

\* Exit code 0 of a command means that every recipient, those of --to or else
\* the configured ones, has the mail (_resolve_recipients, _handle_send_result).
SuccessReachesAll ==
    code = "ok" /\ Command
        => got = {Recipients[i] : i \in 1 .. Len(Recipients)} /\ got # {}

\* A barred file is never sent, and a mail goes out without its attachment
\* only when the section or the option says so in so many words: no blank,
\* empty or misplaced setting switches the attachment checks off
\* (_refused_keys, _means_unset; transport.py).
ProtectionNeverOff ==
    /\ enclosed => opts.file = "fine"
    /\ got # {} /\ opts.file = "barred" => WrittenOff(section.table, "raise_on_security_violation")
    /\ got # {} /\ opts.file = "missing" =>
           \/ opts.raise_on_missing_attachments = "false"
           \/ /\ opts.raise_on_missing_attachments = "none"
              /\ WrittenOff(section.top, "raise_on_missing_attachments")

\* What the keys of a table say is in force, and they are keys of that table.
InForce(table, keys) ==
    \A k \in DOMAIN table \ {"attachments"} :
        table[k] \notin {"blank", "null", "emptylist"}
            => k \in keys /\ k \in DOMAIN fields /\ fields[k] = FieldValue(k, table[k])

\* Every key written with a value is in force or the section is refused: no
\* typo, and no key in the wrong table, leaves a setting at its default.
NoSettingIgnored ==
    pc \notin {"load", "ended"} \/ got # {} =>
        InForce(section.top, SectionKeys) /\ InForce(section.table, AttachmentKeys)
=============================================================================
