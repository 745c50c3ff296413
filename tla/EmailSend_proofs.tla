------------------------- MODULE EmailSend_proofs ---------------------------
(***************************************************************************)
(* Proofs about EmailSend for every configuration, every number of hosts   *)
(* and every list of recipients.                                           *)
(***************************************************************************)
EXTENDS EmailSend, SequenceTheorems, TLAPS

Blaming == {"notfound", "argument", "refused", "config"}
Earlier == {"load", "override", "send", "policy"}

\* Why a mail may go out without its file: the section or the option says so.
Excused ==
    /\ opts.file = "barred" => WrittenOff(section.table, "raise_on_security_violation")
    /\ opts.file = "missing" =>
           \/ opts.raise_on_missing_attachments = "false"
           \/ /\ opts.raise_on_missing_attachments = "none"
              /\ WrittenOff(section.top, "raise_on_missing_attachments")

\* After the load the fields are those of a section that was not refused.
Loaded ==
    /\ pc = "load" => got = {} /\ fields = NoFields
    /\ pc \notin {"load", "ended"} \/ got # {}
           => ~Invalid(section) /\ fields = Translate(section)

\* Nobody has the mail before delivery begins, and the file that is missing or
\* barred does not get that far without excuse; the codes that blame somebody
\* are given before it.
RefusalInv ==
    /\ Loaded
    /\ pc \in Earlier => got = {} /\ code = "none"
    /\ pc = "deliver" => code = "none" /\ Excused
    /\ code \in Blaming => got = {}
    /\ enclosed => opts.file = "fine"
    /\ got # {} => Excused

\* No section yields an empty blocked list, which would switch the attachment
\* protection off (_means_unset).
LEMMA NeverEmptyList ==
    ASSUME NEW s, "blocked_extensions" \in DOMAIN Translate(s)
    PROVE  Translate(s)["blocked_extensions"] # "emptylist"
<1> DEFINE k == "blocked_extensions"
           written == Written(s)
           kept == {l \in DOMAIN written \ {"attachments"} : ~MeansUnset(l, written[l])}
<1>1. Translate(s) = [l \in kept |-> FieldValue(l, written[l])]
  BY DEF Translate
<1>2. k \in kept
  BY <1>1
<1>3. written[k] # "emptylist"
  BY <1>2 DEF MeansUnset, EmptyListMeansDefault
<1>4. FieldValue(k, written[k]) = written[k]
  BY DEF FieldValue, OneOrMany, ZeroMeansNoLimit
<1>5. QED
  BY <1>1, <1>2, <1>3, <1>4

\* The keys of the two tables are different ones.
LEMMA TwoTables == SectionKeys \cap AttachmentKeys = {}
  BY DEF SectionKeys, AttachmentKeys

\* A value is in force only when a section that is not refused has it under a
\* key of the right table.
LEMMA InRightTable ==
    ASSUME NEW s, ~Invalid(s), NEW k \in DOMAIN Translate(s)
    PROVE  \/ /\ k \in DOMAIN s.top /\ k \in SectionKeys
              /\ Translate(s)[k] = FieldValue(k, s.top[k])
           \/ /\ k \in DOMAIN s.table /\ k \in AttachmentKeys
              /\ Translate(s)[k] = FieldValue(k, s.table[k])
<1>1. RefusedKeys(s) = {}
  BY DEF Invalid
<1>2. \A l \in DOMAIN s.top : l \in SectionKeys
  BY <1>1 DEF RefusedKeys
<1>3. ~("attachments" \in DOMAIN s.top /\ s.top["attachments"] # "table")
  BY <1>1 DEF RefusedKeys
<1>4. \A l \in DOMAIN s.table : l \in AttachmentKeys
  BY <1>1, <1>3 DEF RefusedKeys
<1>5. k \in DOMAIN Written(s) /\ Translate(s)[k] = FieldValue(k, Written(s)[k])
  BY DEF Translate
<1>6. CASE k \in DOMAIN s.top
  <2>1. Written(s)[k] = s.top[k]
    BY <1>5, <1>6 DEF Written
  <2>2. QED
    BY <1>2, <1>5, <1>6, <2>1
<1>7. CASE k \notin DOMAIN s.top
  <2>1. k \in DOMAIN s.table /\ Written(s)[k] = s.table[k]
    BY <1>5, <1>7 DEF Written
  <2>2. QED
    BY <1>4, <1>5, <2>1
<1>8. QED
  BY <1>6, <1>7

\* A switch that is off is written as false in its table.
LEMMA OffIsWritten ==
    ASSUME NEW s, ~Invalid(s), NEW k \in Switches, k \in DOMAIN Translate(s),
           Translate(s)[k] # "true"
    PROVE  /\ k \in SectionKeys => WrittenOff(s.top, k)
           /\ k \in AttachmentKeys => WrittenOff(s.table, k)
<1>1. Accepts(k, Translate(s)[k])
  BY DEF Invalid
<1>2. Translate(s)[k] = "false"
  BY <1>1 DEF Accepts, Switches, ZeroMeansNoLimit
<1>3. \A v : FieldValue(k, v) = v
  BY DEF FieldValue, Switches, OneOrMany, ZeroMeansNoLimit
<1>4. QED
  BY <1>2, <1>3, InRightTable, TwoTables DEF WrittenOff

\* What the library lets through without raising is excused, and a file that
\* goes along is a fine one.
LEMMA LetThrough ==
    ASSUME ~Invalid(section), fields = Translate(section), opts \in Options,
           ~(opts.file = "missing" /\ MissingRaises), ~(Barred /\ ViolationRaises)
    PROVE  Excused /\ (opts.file \notin {"none", "missing"} /\ ~Barred => opts.file = "fine")
<1>1. opts.file = "barred" => Barred
  BY NeverEmptyList DEF Barred
<1>2. opts.file = "barred" => WrittenOff(section.table, "raise_on_security_violation")
  <2>1. "raise_on_security_violation" \in Switches
        /\ "raise_on_security_violation" \in AttachmentKeys
    BY DEF Switches, AttachmentKeys
  <2>2. QED
    BY <1>1, <2>1, OffIsWritten DEF ViolationRaises
<1>3. /\ opts.file \in {"none", "fine", "missing", "barred"}
      /\ opts.raise_on_missing_attachments \in {"none", "true", "false"}
  BY DEF Options
<1>4. opts.file = "missing" =>
          \/ opts.raise_on_missing_attachments = "false"
          \/ /\ opts.raise_on_missing_attachments = "none"
             /\ WrittenOff(section.top, "raise_on_missing_attachments")
  <2>1. "raise_on_missing_attachments" \in Switches
        /\ "raise_on_missing_attachments" \in SectionKeys
    BY DEF Switches, SectionKeys
  <2>2. QED
    BY <1>3, <2>1, OffIsWritten DEF MissingRaises
<1>5. QED
  BY <1>1, <1>2, <1>3, <1>4 DEF Excused

\* What Raise ends a command with, and the summary.
LEMMA RaiseCodes ==
    ASSUME NEW kind \in {"configuration", "value", "not found", "security", "delivery", "other"},
           Raise(kind)
    PROVE  /\ pc' = "ended"
           /\ kind = "delivery" => code' \in {"ok", "unavailable"}
           /\ kind = "delivery" /\ Command => code' = "unavailable"
           /\ Command => code' # "ok"
  BY DEF Raise, End

\* RefusalInv holds in the initial states ...
LEMMA RefusalInit == Init => RefusalInv
  BY DEF Init, RefusalInv, Loaded, NoFields, Earlier, Blaming

\* The options and the section stay what they were.
LEMMA SameMail == [Next]_vars => opts' = opts /\ section' = section
  BY DEF Next, LoadAndValidate, ApplyValidatedOverrides, SendEmail, Policy, Attempt,
     HandleSendResult, vars

\* ... and every step keeps it.
LEMMA RefusalStep == opts \in Options /\ RefusalInv /\ [Next]_vars => RefusalInv'
<1> SUFFICES ASSUME opts \in Options, RefusalInv, [Next]_vars PROVE RefusalInv'
  OBVIOUS
<1>0. opts' = opts /\ section' = section /\ (Excused' <=> Excused)
  BY SameMail DEF Excused
<1>1. CASE LoadAndValidate
  <2>1. pc = "load" /\ got' = {} /\ got = {} /\ enclosed' = enclosed
    BY <1>1 DEF LoadAndValidate, RefusalInv, Loaded
  <2>2. \/ pc' = "ended"
        \/ pc' = "override" /\ code' = code /\ ~Invalid(section) /\ fields' = Translate(section)
    BY <1>1, RaiseCodes DEF LoadAndValidate
  <2>3. Loaded'
    BY <1>0, <2>1, <2>2 DEF Loaded
  <2>4. QED
    BY <1>0, <2>1, <2>2, <2>3 DEF RefusalInv, Earlier, Blaming
<1>2. CASE ApplyValidatedOverrides
  <2>1. /\ pc = "override" /\ got = {} /\ UNCHANGED <<fields, got, enclosed>>
    BY <1>2 DEF ApplyValidatedOverrides, RefusalInv, Earlier
  <2>2. pc' = "ended" \/ (pc' = "send" /\ code' = code)
    BY <1>2, RaiseCodes DEF ApplyValidatedOverrides
  <2>3. Loaded'
    BY <1>0, <2>1, <2>2 DEF Loaded, RefusalInv
  <2>4. QED
    BY <1>0, <2>1, <2>2, <2>3 DEF RefusalInv, Earlier, Blaming
<1>3. CASE SendEmail
  <2>1. /\ pc = "send" /\ got = {} /\ UNCHANGED <<fields, got, enclosed>>
    BY <1>3 DEF SendEmail, RefusalInv, Earlier
  <2>2. pc' = "ended" \/ (pc' = "policy" /\ code' = code)
    BY <1>3, RaiseCodes DEF SendEmail
  <2>3. Loaded'
    BY <1>0, <2>1, <2>2 DEF Loaded, RefusalInv
  <2>4. QED
    BY <1>0, <2>1, <2>2, <2>3 DEF RefusalInv, Earlier, Blaming
<1>4. CASE Policy
  <2>1. /\ pc = "policy" /\ got = {} /\ UNCHANGED <<fields, got>>
        /\ ~Invalid(section) /\ fields = Translate(section)
    BY <1>4 DEF Policy, RefusalInv, Loaded, Earlier
  <2>2. \/ pc' = "ended" /\ enclosed' = enclosed
        \/ /\ pc' = "deliver" /\ code' = code
           /\ ~(opts.file = "missing" /\ MissingRaises) /\ ~(Barred /\ ViolationRaises)
           /\ enclosed' = (opts.file \notin {"none", "missing"} /\ ~Barred)
    BY <1>4, RaiseCodes DEF Policy
  <2>3. Loaded'
    BY <1>0, <2>1, <2>2 DEF Loaded
  <2>4. \/ pc' = "ended" /\ enclosed' = enclosed
        \/ pc' = "deliver" /\ code' = code /\ Excused /\ (enclosed' => opts.file = "fine")
    BY <2>1, <2>2, LetThrough
  <2>5. QED
    BY <1>0, <2>1, <2>3, <2>4 DEF RefusalInv, Earlier, Blaming
<1>5. CASE Attempt
  <2>1. pc = "deliver" /\ UNCHANGED <<fields, pc, enclosed, code>> /\ code = "none" /\ Excused
    BY <1>5 DEF Attempt, RefusalInv
  <2>2. Loaded'
    BY <1>0, <2>1 DEF Loaded, RefusalInv
  <2>3. QED
    BY <1>0, <2>1, <2>2 DEF RefusalInv, Earlier, Blaming
<1>6. CASE HandleSendResult
  <2>1. pc = "deliver" /\ UNCHANGED <<fields, got, enclosed>> /\ Excused
    BY <1>6 DEF HandleSendResult, RefusalInv
  <2>2. pc' = "ended" /\ code' \in {"ok", "unavailable"}
    BY <1>6, RaiseCodes DEF HandleSendResult, End
  <2>3. Loaded'
    BY <1>0, <2>1, <2>2 DEF Loaded, RefusalInv
  <2>4. QED
    BY <1>0, <2>1, <2>2, <2>3 DEF RefusalInv, Earlier, Blaming
<1>7. CASE UNCHANGED vars
  <2>1. UNCHANGED <<pc, fields, got, enclosed, code>>
    BY <1>7 DEF vars
  <2>2. Loaded'
    BY <1>0, <2>1 DEF Loaded, RefusalInv
  <2>3. QED
    BY <1>0, <2>1, <2>2 DEF RefusalInv
<1>8. QED
  BY <1>1, <1>2, <1>3, <1>4, <1>5, <1>6, <1>7 DEF Next

\* RefusalInv holds all the time, with options of the command line.
LEMMA RefusalAlways == Spec => [](opts \in Options /\ RefusalInv)
<1>1. Init => opts \in Options /\ RefusalInv
  BY RefusalInit DEF Init
<1>2. opts \in Options /\ RefusalInv /\ [Next]_vars => (opts \in Options /\ RefusalInv)'
  BY RefusalStep, SameMail
<1>3. QED
  BY <1>1, <1>2, PTL DEF Spec

\* A code that blames the command line, the configuration or an attachment
\* means that nobody has the mail, whatever the library does and however many
\* hosts and recipients there are.
THEOREM RefusalsDeliverNothing == Spec => []RefusedBeforeDelivery
<1>1. RefusalInv => RefusedBeforeDelivery
  BY DEF RefusalInv, RefusedBeforeDelivery, Blaming
<1>2. QED
  BY <1>1, RefusalAlways, PTL

\* Whatever the section says, a barred file is never sent, and a mail goes out
\* without its attachment only when a switch is written as false or the option
\* says so.
THEOREM ProtectionHolds == Spec => []ProtectionNeverOff
<1>1. RefusalInv => ProtectionNeverOff
  BY DEF RefusalInv, ProtectionNeverOff, Excused
<1>2. QED
  BY <1>1, RefusalAlways, PTL

-----------------------------------------------------------------------------
\* The members of a sequence.
Members(q) == {q[i] : i \in 1 .. Len(q)}

\* Who is not in the queue has the mail or failed; the recipients stay what
\* they were.
ReachInv ==
    /\ Recipients \in Seq(STRING)
    /\ pc \in Earlier => got = {} /\ code = "none"
    /\ pc = "policy" => queue = Recipients /\ queue # <<>>
    /\ pc = "deliver" => /\ code = "none" /\ queue \in Seq(STRING)
                         /\ got \cup failed \cup Members(queue) = Members(Recipients)
                         /\ Recipients # <<>>
    /\ pc \in Earlier => failed = {}
    /\ code = "ok" /\ Command => got = Members(Recipients) /\ Recipients # <<>>

\* Serving the head of a queue moves it from the queue to those who have it.
LEMMA ServeHead ==
    ASSUME NEW q \in Seq(STRING), q # <<>>
    PROVE  /\ Tail(q) \in Seq(STRING)
           /\ Members(q) = {Head(q)} \cup Members(Tail(q))
<1>1. /\ Len(q) \in Nat /\ Len(q) > 0 /\ Len(Tail(q)) = Len(q) - 1
      /\ \A i \in 1 .. Len(q) - 1 : Tail(q)[i] = q[i + 1]
      /\ Head(q) = q[1] /\ Tail(q) \in Seq(STRING)
  OBVIOUS
<1>2. ASSUME NEW i \in 1 .. Len(q) PROVE q[i] \in {Head(q)} \cup Members(Tail(q))
  <2>1. CASE i = 1
    BY <1>1, <2>1
  <2>2. CASE i # 1
    <3>1. i - 1 \in 1 .. Len(Tail(q)) /\ Tail(q)[i - 1] = q[i]
      BY <1>1, <2>2
    <3>2. QED
      BY <3>1 DEF Members
  <2>3. QED
    BY <2>1, <2>2
<1>3. ASSUME NEW i \in 1 .. Len(Tail(q)) PROVE Tail(q)[i] \in Members(q)
  <2>1. i + 1 \in 1 .. Len(q) /\ Tail(q)[i] = q[i + 1]
    BY <1>1
  <2>2. QED
    BY <2>1 DEF Members
<1>4. Head(q) \in Members(q)
  BY <1>1 DEF Members
<1>5. QED
  BY <1>1, <1>2, <1>3, <1>4 DEF Members

\* The recipients are a sequence, by --to or by the configuration.
LEMMA RecipientsSequence == Recipients \in Seq(STRING)
<1>1. Rcpts \in Seq(STRING) /\ Rcpts # <<>>
  BY EmailAssumption
<1>2. <<Rcpts[1]>> \in Seq(STRING)
  BY <1>1
<1>3. <<>> \in Seq(STRING)
  OBVIOUS
<1>4. QED
  BY <1>1, <1>2, <1>3 DEF Recipients

\* Nothing but the loading changes who the recipients are.
LEMMA SameRecipients ==
    ASSUME opts' = opts, fields' = fields
    PROVE  Recipients' = Recipients /\ (Command' <=> Command)
  BY DEF Recipients, Given, Command

\* Exit code 0 of a command means that every recipient has the mail.
THEOREM SuccessComplete == Spec => []SuccessReachesAll
<1>1. Init => ReachInv
  BY RecipientsSequence DEF Init, ReachInv
<1>2. ReachInv /\ [Next]_vars => ReachInv'
  <2> SUFFICES ASSUME ReachInv, [Next]_vars PROVE ReachInv'
    OBVIOUS
  <2>0. (Recipients \in Seq(STRING))'
    <3>1. <<Rcpts[1]>> \in Seq(STRING) /\ Rcpts \in Seq(STRING) /\ <<>> \in Seq(STRING)
      BY EmailAssumption
    <3>2. QED
      BY <3>1 DEF Recipients
  <2>1. CASE LoadAndValidate
    <3>1. got' = {} /\ failed' = {} /\ (Command' <=> Command)
      BY <2>1 DEF LoadAndValidate, ReachInv, Earlier, Command
    <3>2. \/ pc' = "override" /\ code' = "none"
          \/ pc' = "ended" /\ (Command => code' # "ok")
      BY <2>1, RaiseCodes DEF LoadAndValidate, ReachInv, Earlier
    <3>3. QED
      BY <2>0, <3>1, <3>2 DEF ReachInv, Earlier
  <2>2. CASE ApplyValidatedOverrides
    <3>1. got' = {} /\ failed' = {} /\ (Command' <=> Command)
      BY <2>2 DEF ApplyValidatedOverrides, ReachInv, Earlier, Command
    <3>2. \/ pc' = "send" /\ code' = "none"
          \/ pc' = "ended" /\ (Command => code' # "ok")
      BY <2>2, RaiseCodes DEF ApplyValidatedOverrides, ReachInv, Earlier
    <3>3. QED
      BY <2>0, <3>1, <3>2 DEF ReachInv, Earlier
  <2>3. CASE SendEmail
    <3>1. got' = {} /\ failed' = {} /\ opts' = opts /\ fields' = fields
      BY <2>3 DEF SendEmail, ReachInv, Earlier
    <3>2. \/ pc' = "policy" /\ code' = "none" /\ queue' = Recipients /\ Recipients # <<>>
          \/ pc' = "ended" /\ (Command => code' # "ok")
      BY <2>3, RaiseCodes DEF SendEmail, ReachInv, Earlier
    <3>3. QED
      BY <2>0, <3>1, <3>2, SameRecipients DEF ReachInv, Earlier
  <2>4. CASE Policy
    <3>1. /\ got' = {} /\ failed' = {} /\ opts' = opts /\ fields' = fields /\ queue' = queue
          /\ queue = Recipients /\ queue # <<>>
      BY <2>4 DEF Policy, ReachInv, Earlier
    <3>2. \/ pc' = "deliver" /\ code' = "none"
          \/ pc' = "ended" /\ (Command => code' # "ok")
      BY <2>4, RaiseCodes DEF Policy, ReachInv, Earlier
    <3>3. QED
      BY <2>0, <3>1, <3>2, SameRecipients DEF ReachInv, Earlier
  <2>5. CASE Attempt
    <3>1. /\ pc = "deliver" /\ UNCHANGED <<opts, fields, pc, code>>
          /\ queue \in Seq(STRING) /\ queue # <<>> /\ code = "none"
          /\ got \cup failed \cup Members(queue) = Members(Recipients) /\ Recipients # <<>>
      BY <2>5 DEF Attempt, ReachInv
    <3>2. \/ got' \cup failed' = got \cup failed \cup {Head(queue)} /\ queue' = Tail(queue)
          \/ got' \cup failed' = got \cup failed /\ queue' = queue
      BY <2>5 DEF Attempt
    <3>3. got' \cup failed' \cup Members(queue') = Members(Recipients) /\ queue' \in Seq(STRING)
      BY <3>1, <3>2, ServeHead
    <3>4. QED
      BY <2>0, <3>1, <3>3, SameRecipients DEF ReachInv, Earlier
  <2>6. CASE HandleSendResult
    <3>1. /\ pc = "deliver" /\ queue = <<>> /\ got' = got /\ pc' = "ended"
          /\ opts' = opts /\ fields' = fields
      BY <2>6, RaiseCodes DEF HandleSendResult, End
    <3>2. got \cup failed = Members(Recipients) /\ Recipients # <<>>
      BY <3>1 DEF ReachInv, Members
    <3>3. code' = "ok" /\ Command => failed = {}
      BY <2>6, RaiseCodes DEF HandleSendResult
    <3>4. QED
      BY <2>0, <3>1, <3>2, <3>3, SameRecipients DEF ReachInv, Earlier
  <2>7. CASE UNCHANGED vars
    BY <2>0, <2>7, SameRecipients DEF vars, ReachInv
  <2>8. QED
    BY <2>1, <2>2, <2>3, <2>4, <2>5, <2>6, <2>7 DEF Next
<1>3. ReachInv => SuccessReachesAll
  <2> SUFFICES ASSUME ReachInv, code = "ok", Command
      PROVE  got = Members(Recipients) /\ got # {}
    BY DEF SuccessReachesAll, Members
  <2>1. got = Members(Recipients) /\ Recipients \in Seq(STRING) /\ Recipients # <<>>
    BY DEF ReachInv
  <2>2. QED
    BY <2>1, ServeHead
<1>4. QED
  BY <1>1, <1>2, <1>3, PTL DEF Spec

-----------------------------------------------------------------------------
\* A key of a section that is not refused belongs to its table, and has the
\* field its value means.
LEMMA WrittenKept ==
    ASSUME NEW s, ~Invalid(s)
    PROVE  /\ \A k \in DOMAIN s.top \ {"attachments"} :
                  s.top[k] \notin {"blank", "null", "emptylist"}
                      => /\ k \in SectionKeys /\ k \in DOMAIN Translate(s)
                         /\ Translate(s)[k] = FieldValue(k, s.top[k])
           /\ \A k \in DOMAIN s.table \ {"attachments"} :
                  s.table[k] \notin {"blank", "null", "emptylist"}
                      => /\ k \in AttachmentKeys /\ k \in DOMAIN Translate(s)
                         /\ Translate(s)[k] = FieldValue(k, s.table[k])
<1>1. RefusedKeys(s) = {}
  BY DEF Invalid
<1>2. \A l \in DOMAIN s.top : l \in SectionKeys
  BY <1>1 DEF RefusedKeys
<1>3. ~("attachments" \in DOMAIN s.top /\ s.top["attachments"] # "table")
  BY <1>1 DEF RefusedKeys
<1>4. \A l \in DOMAIN s.table : l \in AttachmentKeys
  BY <1>1, <1>3 DEF RefusedKeys
<1>5. ASSUME NEW k \in DOMAIN s.top \ {"attachments"},
             s.top[k] \notin {"blank", "null", "emptylist"}
      PROVE  /\ k \in SectionKeys /\ k \in DOMAIN Translate(s)
             /\ Translate(s)[k] = FieldValue(k, s.top[k])
  <2>1. k \in DOMAIN Written(s) /\ Written(s)[k] = s.top[k]
    BY <1>5 DEF Written
  <2>2. ~MeansUnset(k, Written(s)[k])
    BY <1>5, <2>1 DEF MeansUnset
  <2>3. QED
    BY <1>2, <1>5, <2>1, <2>2 DEF Translate
<1>6. ASSUME NEW k \in DOMAIN s.table \ {"attachments"},
             s.table[k] \notin {"blank", "null", "emptylist"}
      PROVE  /\ k \in AttachmentKeys /\ k \in DOMAIN Translate(s)
             /\ Translate(s)[k] = FieldValue(k, s.table[k])
  <2>1. k \in AttachmentKeys /\ k \notin DOMAIN s.top
    BY <1>2, <1>4, <1>6, TwoTables
  <2>2. k \in DOMAIN Written(s) /\ Written(s)[k] = s.table[k]
    BY <1>6, <2>1 DEF Written
  <2>3. ~MeansUnset(k, Written(s)[k])
    BY <1>6, <2>2 DEF MeansUnset
  <2>4. QED
    BY <1>6, <2>1, <2>2, <2>3 DEF Translate
<1>7. QED
  BY <1>5, <1>6

\* Every key written with a value is in force or the section is refused, for
\* every section and whichever table a key is written in.
THEOREM SettingsInForce == Spec => []NoSettingIgnored
<1>1. RefusalInv => NoSettingIgnored
  BY WrittenKept DEF RefusalInv, Loaded, NoSettingIgnored, InForce
<1>2. QED
  BY <1>1, RefusalAlways, PTL

-----------------------------------------------------------------------------
(* Sending comes to an end.                                                *)

\* How far a mail is from its delivery.
StepsLeft ==
    [l \in Earlier \cup {"deliver", "ended"} |->
        CASE l = "load" -> 5 [] l = "override" -> 4 [] l = "send" -> 3
          [] l = "policy" -> 2 [] l = "deliver" -> 1 [] l = "ended" -> 0]

\* Every recipient is tried at every host at most once: an attempt is made
\* while a host is left, and either serves the recipient for good or uses up
\* a host; the mail is never taken up again from an earlier step.
EveryAttemptCounts ==
    [][/\ StepsLeft[pc'] <= StepsLeft[pc]
       /\ got \subseteq got'
       /\ Attempt => /\ tried < hosts /\ hosts' = hosts
                     /\ \/ Len(queue') = Len(queue) - 1
                        \/ queue' = queue /\ tried' = tried + 1
       /\ \/ StepsLeft[pc'] < StepsLeft[pc]
          \/ Attempt]_vars

\* An attempt has a host left, and there is one as soon as anything is sent.
TriesInv ==
    /\ pc \in Earlier \cup {"deliver", "ended"}
    /\ hosts \in Nat /\ tried \in Nat
    /\ queue \in Seq(STRING)
    /\ pc \in Earlier => tried = 0
    /\ pc \in {"policy", "deliver"} => hosts > 0
    /\ pc = "deliver" => tried < hosts

\* Serving the first of a queue leaves a shorter one.
LEMMA ShorterTail ==
    ASSUME NEW q \in Seq(STRING), q # <<>>
    PROVE  Tail(q) \in Seq(STRING) /\ Len(Tail(q)) = Len(q) - 1
  OBVIOUS

\* There is no host or recipient at first ...
LEMMA TriesInit == Init => TriesInv
  BY DEF Init, TriesInv, Earlier

\* ... and every step of a mail keeps the account of the hosts.
LEMMA TriesStep == TriesInv /\ [Next]_vars => TriesInv'
<1> SUFFICES ASSUME TriesInv, [Next]_vars PROVE TriesInv'
  OBVIOUS
<1>1. CASE LoadAndValidate
  <2>1. tried = 0 /\ UNCHANGED <<queue, tried>>
    BY <1>1 DEF LoadAndValidate, TriesInv, Earlier
  <2>2. hosts' \in Nat /\ pc' \in {"override", "ended"}
    BY <1>1, RaiseCodes, EmailAssumption DEF LoadAndValidate, TriesInv
  <2>3. QED
    BY <2>1, <2>2 DEF TriesInv, Earlier
<1>2. CASE ApplyValidatedOverrides
  <2>1. tried = 0 /\ UNCHANGED <<queue, tried>>
    BY <1>2 DEF ApplyValidatedOverrides, TriesInv, Earlier
  <2>2. hosts' \in Nat
    BY <1>2 DEF ApplyValidatedOverrides, TriesInv
  <2>3. pc' \in {"send", "ended"}
    BY <1>2, RaiseCodes DEF ApplyValidatedOverrides
  <2>4. QED
    BY <2>1, <2>2, <2>3 DEF TriesInv, Earlier
<1>3. CASE SendEmail
  <2>1. tried = 0 /\ UNCHANGED <<hosts, tried>>
    BY <1>3 DEF SendEmail, TriesInv, Earlier
  <2>2. queue' \in Seq(STRING)
    BY <1>3, RecipientsSequence DEF SendEmail, TriesInv
  <2>3. pc' = "ended" \/ (pc' = "policy" /\ hosts # 0)
    BY <1>3, RaiseCodes DEF SendEmail
  <2>4. QED
    BY <2>1, <2>2, <2>3 DEF TriesInv, Earlier
<1>4. CASE Policy
  <2>1. tried = 0 /\ hosts > 0 /\ UNCHANGED <<hosts, queue, tried>>
    BY <1>4 DEF Policy, TriesInv, Earlier
  <2>2. pc' \in {"deliver", "ended"}
    BY <1>4, RaiseCodes DEF Policy
  <2>3. QED
    BY <2>1, <2>2 DEF TriesInv, Earlier
<1>5. CASE Attempt
  <2>1. pc = "deliver" /\ queue # <<>> /\ tried < hosts /\ hosts' = hosts
    BY <1>5 DEF Attempt, TriesInv
  <2>2. /\ pc' = pc
        /\ \/ queue' = Tail(queue) /\ tried' = 0
           \/ queue' = queue /\ tried' = tried + 1 /\ tried + 1 < hosts
    BY <1>5 DEF Attempt
  <2>3. QED
    BY <2>1, <2>2, ShorterTail DEF TriesInv, Earlier
<1>6. CASE HandleSendResult
  <2>1. pc' = "ended" /\ UNCHANGED <<hosts, tried, queue>>
    BY <1>6, RaiseCodes DEF HandleSendResult, End
  <2>2. QED
    BY <2>1 DEF TriesInv, Earlier
<1>7. CASE UNCHANGED vars
  BY <1>7 DEF vars, TriesInv
<1>8. QED
  BY <1>1, <1>2, <1>3, <1>4, <1>5, <1>6, <1>7 DEF Next

\* A mail makes at most one attempt per recipient and host, and has at most
\* five more steps, for any number of both.
THEOREM SendingComesToAnEnd == Spec => EveryAttemptCounts
<1> DEFINE Counts ==
        /\ StepsLeft[pc'] <= StepsLeft[pc]
        /\ got \subseteq got'
        /\ Attempt => /\ tried < hosts /\ hosts' = hosts
                      /\ \/ Len(queue') = Len(queue) - 1
                         \/ queue' = queue /\ tried' = tried + 1
        /\ \/ StepsLeft[pc'] < StepsLeft[pc]
           \/ Attempt
<1>1. TriesInv /\ [Next]_vars => [Counts]_vars
  <2> SUFFICES ASSUME TriesInv, Next PROVE Counts
    OBVIOUS
  <2>0. /\ StepsLeft["load"] = 5 /\ StepsLeft["override"] = 4 /\ StepsLeft["send"] = 3
        /\ StepsLeft["policy"] = 2 /\ StepsLeft["deliver"] = 1 /\ StepsLeft["ended"] = 0
    BY DEF StepsLeft, Earlier
  <2>1. CASE Attempt
    <3>1. /\ pc = "deliver" /\ pc' = pc /\ hosts' = hosts
          /\ tried < hosts /\ got \subseteq got'
      BY <2>1 DEF Attempt, TriesInv
    <3>2. \/ Len(queue') = Len(queue) - 1
          \/ queue' = queue /\ tried' = tried + 1
      BY <2>1, ShorterTail DEF Attempt, TriesInv
    <3>3. QED
      BY <2>0, <2>1, <3>1, <3>2
  <2>2. CASE ~Attempt
    <3>1. got' = got
      BY <2>2 DEF Next, LoadAndValidate, ApplyValidatedOverrides, SendEmail, Policy,
         HandleSendResult
    <3>2. \/ pc = "load" /\ pc' \in {"override", "ended"}
          \/ pc = "override" /\ pc' \in {"send", "ended"}
          \/ pc = "send" /\ pc' \in {"policy", "ended"}
          \/ pc = "policy" /\ pc' \in {"deliver", "ended"}
          \/ pc = "deliver" /\ pc' = "ended"
      BY <2>2, RaiseCodes DEF Next, LoadAndValidate, ApplyValidatedOverrides, SendEmail,
         Policy, HandleSendResult, End
    <3>3. QED
      BY <2>0, <2>2, <3>1, <3>2
  <2>3. QED
    BY <2>1, <2>2
<1>2. QED
  BY <1>1, TriesInit, TriesStep, PTL DEF Spec, EveryAttemptCounts

-----------------------------------------------------------------------------
(* Types.                                                                  *)

\* What a mail may have left to serve.
Queues == {SubSeq(Rcpts, i, Len(Rcpts)) : i \in 1 .. Len(Rcpts) + 1} \cup {<<Rcpts[1]>>}

\* The names of the recipients.
Names == {Rcpts[i] : i \in 1 .. Len(Rcpts)}

\* The configured recipients are a sequence with a first member.
LEMMA RcptsSequence ==
    Rcpts \in Seq(STRING) /\ Len(Rcpts) \in Nat /\ Len(Rcpts) >= 1 /\ Rcpts[1] \in Names
<1>1. Rcpts \in Seq(STRING) /\ Rcpts # <<>>
  BY EmailAssumption
<1>2. Len(Rcpts) \in Nat /\ Len(Rcpts) >= 1
  BY <1>1
<1>3. QED
  BY <1>1, <1>2 DEF Names

\* The whole list, the one recipient of --to and nobody are such.
LEMMA RecipientsQueued == Recipients \in Queues
<1>1. SubSeq(Rcpts, 1, Len(Rcpts)) = Rcpts
  BY RcptsSequence, SubSeqFull
<1>2. SubSeq(Rcpts, Len(Rcpts) + 1, Len(Rcpts)) = <<>>
  BY RcptsSequence, SubSeqEmpty
<1>3. 1 \in 1 .. Len(Rcpts) + 1 /\ Len(Rcpts) + 1 \in 1 .. Len(Rcpts) + 1
  BY RcptsSequence
<1>4. Rcpts \in Queues /\ <<>> \in Queues /\ <<Rcpts[1]>> \in Queues
  BY <1>1, <1>2, <1>3 DEF Queues
<1>5. QED
  BY <1>4 DEF Recipients

\* Serving the first leaves such a queue, and it was a recipient.
LEMMA ServedFromQueue ==
    ASSUME NEW q \in Queues, q # <<>>
    PROVE  Tail(q) \in Queues /\ Head(q) \in Names
<1>0. Rcpts \in Seq(STRING) /\ Len(Rcpts) \in Nat /\ Len(Rcpts) >= 1
  BY RcptsSequence
<1>1. CASE q = <<Rcpts[1]>>
  <2>1. Tail(q) = <<>> /\ Head(q) = Rcpts[1]
    BY <1>1
  <2>2. SubSeq(Rcpts, Len(Rcpts) + 1, Len(Rcpts)) = <<>>
    BY <1>0, SubSeqEmpty
  <2>3. Len(Rcpts) + 1 \in 1 .. Len(Rcpts) + 1
    BY <1>0
  <2>4. Tail(q) \in Queues
    BY <2>1, <2>2, <2>3 DEF Queues
  <2>5. QED
    BY <2>1, <2>4, RcptsSequence
<1>2. ASSUME NEW i \in 1 .. Len(Rcpts) + 1, q = SubSeq(Rcpts, i, Len(Rcpts))
      PROVE  Tail(q) \in Queues /\ Head(q) \in Names
  <2>1. i <= Len(Rcpts)
    BY <1>0, <1>2, SubSeqEmpty
  <2>2. Head(q) = Rcpts[i] /\ Tail(q) = SubSeq(Rcpts, i + 1, Len(Rcpts))
    BY <1>0, <1>2, <2>1, HeadTailOfSubSeq
  <2>3. i \in 1 .. Len(Rcpts) /\ i + 1 \in 1 .. Len(Rcpts) + 1
    BY <1>0, <2>1
  <2>4. QED
    BY <2>2, <2>3 DEF Queues, Names
<1>3. QED
  BY <1>1, <1>2 DEF Queues

\* What is raised ends the mail with a code.
LEMMA RaiseTypes ==
    ASSUME NEW kind \in {"configuration", "value", "not found", "security", "delivery", "other"},
           Raise(kind)
    PROVE  pc' = "ended" /\ code' \in Codes \ {"none"}
  BY DEF Raise, End, Codes

\* The fields of a section that is not refused are what the model accepts.
LEMMA LoadedAccepted ==
    ASSUME NEW s, ~Invalid(s)
    PROVE  \A k \in DOMAIN Translate(s) : Accepts(k, Translate(s)[k])
  BY DEF Invalid

\* Every mail is well typed: whatever the section and the options, an
\* EmailConfig is one that its validators accept, what is left to serve is an
\* end of the list of recipients, and a mail is over exactly when it has a code.
THEOREM TypeCorrect == Spec => []TypeOK
<1> DEFINE Fields == \A k \in DOMAIN fields : Accepts(k, fields[k])
           Place == /\ pc \in Earlier \cup {"deliver", "ended"}
                    /\ code \in Codes /\ (pc = "ended" <=> code # "none")
           Counts == hosts \in 0 .. Hosts /\ tried \in 0 .. Hosts
           Served == queue \in Queues /\ got \cup failed \subseteq Names
           Given0 == section \in Section /\ opts \in Options /\ {logged, enclosed} \subseteq BOOLEAN
           Inv == TriesInv /\ Given0 /\ Fields /\ Place /\ Counts /\ Served
<1>1. Init => Inv
  <2> SUFFICES ASSUME Init PROVE Given0 /\ Fields /\ Place /\ Counts /\ Served
    BY TriesInit
  <2>1. SubSeq(Rcpts, Len(Rcpts) + 1, Len(Rcpts)) = <<>> /\ Len(Rcpts) + 1 \in 1 .. Len(Rcpts) + 1
    BY RcptsSequence, SubSeqEmpty
  <2>2. Served
    BY <2>1 DEF Init, Queues
  <2>3. Fields
    BY DEF Init, NoFields
  <2>4. Given0 /\ Place
    BY DEF Init, Earlier, Codes
  <2>5. Counts
    <3>1. Hosts \in Nat
      BY EmailAssumption
    <3>2. QED
      BY <3>1 DEF Init
  <2>6. QED
    BY <2>2, <2>3, <2>4, <2>5
<1>2. Inv /\ [Next]_vars => Inv'
  <2> SUFFICES ASSUME Inv, [Next]_vars PROVE Given0' /\ Fields' /\ Place' /\ Counts' /\ Served'
    BY TriesStep
  <2>1. CASE LoadAndValidate
    <3>1. UNCHANGED <<section, opts, queue, tried, got, failed, enclosed>> /\ pc = "load"
      BY <2>1 DEF LoadAndValidate
    <3>2. Fields'
      BY <2>1, LoadedAccepted DEF LoadAndValidate
    <3>3. hosts' \in 0 .. Hosts
      BY <2>1, EmailAssumption DEF LoadAndValidate
    <3>4. \/ pc' = "ended" /\ code' \in Codes \ {"none"} /\ logged' = TRUE
          \/ pc' = "override" /\ code' = code /\ logged' = logged
      BY <2>1, RaiseTypes DEF LoadAndValidate, Raise
    <3>5. QED
      BY <3>1, <3>2, <3>3, <3>4 DEF Earlier
  <2>2. CASE ApplyValidatedOverrides
    <3>1. UNCHANGED <<section, opts, fields, queue, tried, got, failed, enclosed>>
          /\ pc = "override"
      BY <2>2 DEF ApplyValidatedOverrides
    <3>2. hosts' \in 0 .. Hosts
      BY <2>2, EmailAssumption DEF ApplyValidatedOverrides
    <3>3. \/ pc' = "ended" /\ code' \in Codes \ {"none"} /\ logged' = TRUE
          \/ pc' = "send" /\ code' = code /\ logged' = logged
      BY <2>2, RaiseTypes DEF ApplyValidatedOverrides, Raise
    <3>4. QED
      BY <3>1, <3>2, <3>3 DEF Earlier
  <2>3. CASE SendEmail
    <3>1. UNCHANGED <<section, opts, fields, hosts, tried, got, failed, enclosed>>
          /\ pc = "send"
      BY <2>3 DEF SendEmail
    <3>2. queue' \in Queues
      BY <2>3, RecipientsQueued DEF SendEmail
    <3>3. \/ pc' = "ended" /\ code' \in Codes \ {"none"} /\ logged' = TRUE
          \/ pc' = "policy" /\ code' = code /\ logged' = logged
      BY <2>3, RaiseTypes DEF SendEmail, Raise
    <3>4. QED
      BY <3>1, <3>2, <3>3 DEF Earlier
  <2>4. CASE Policy
    <3>1. UNCHANGED <<section, opts, fields, hosts, queue, tried, got, failed>> /\ pc = "policy"
          /\ (enclosed' = enclosed \/ enclosed' \in BOOLEAN)
      BY <2>4 DEF Policy
    <3>2. \/ pc' = "ended" /\ code' \in Codes \ {"none"} /\ logged' = TRUE
          \/ pc' = "deliver" /\ code' = code /\ logged' = logged
      BY <2>4, RaiseTypes DEF Policy, Raise
    <3>3. QED
      BY <3>1, <3>2 DEF Earlier
  <2>5. CASE Attempt
    <3>1. /\ UNCHANGED <<section, opts, pc, fields, hosts, enclosed, logged, code>>
          /\ pc = "deliver" /\ queue # <<>>
          /\ tried < hosts /\ tried \in Nat /\ hosts \in 0 .. Hosts
      BY <2>5 DEF Attempt, TriesInv
    <3>2. \/ /\ queue' = Tail(queue) /\ tried' = 0
             /\ got' \cup failed' = got \cup failed \cup {Head(queue)}
          \/ queue' = queue /\ got' \cup failed' = got \cup failed /\ tried' = tried + 1
      BY <2>5 DEF Attempt
    <3>3. Served'
      BY <3>1, <3>2, ServedFromQueue
    <3>4. Counts'
      <4>1. Hosts \in Nat
        BY EmailAssumption
      <4>2. QED
        BY <3>1, <3>2, <4>1
    <3>5. QED
      BY <3>1, <3>3, <3>4 DEF Earlier
  <2>6. CASE HandleSendResult
    <3>1. UNCHANGED <<section, opts, fields, hosts, queue, tried, got, failed, enclosed>>
      BY <2>6 DEF HandleSendResult
    <3>2. /\ pc' = "ended" /\ code' \in Codes \ {"none"}
          /\ (logged' = TRUE \/ logged' = logged)
      BY <2>6, RaiseTypes DEF HandleSendResult, Raise, End, Codes
    <3>3. QED
      BY <3>1, <3>2 DEF Earlier
  <2>7. CASE UNCHANGED vars
    BY <2>7 DEF vars
  <2>8. QED
    BY <2>1, <2>2, <2>3, <2>4, <2>5, <2>6, <2>7 DEF Next
<1>3. Inv => TypeOK
  BY DEF TypeOK, Queues, Names, Earlier
<1>4. QED
  BY <1>1, <1>2, <1>3, PTL DEF Spec
=============================================================================
