---------------------------- MODULE EmailConfig -----------------------------
(***************************************************************************)
(* The [email] section of the merged configuration turned into an          *)
(* EmailConfig (adapters/email/config.py).                                 *)
(*                                                                         *)
(* A section is a record of two functions from file keys to the kind of    *)
(* value written: top, and table for [email.attachments].  One key stands  *)
(* for each class of keys the code tells apart, and a field has the name   *)
(* of its key (FILE_KEY_TO_FIELD renames six of them one to one).  Kinds:  *)
(*    null, blank, text, bad (text that is no address), number, zero,      *)
(*    list, badlist, emptylist, holed (a list with a blank entry), table,  *)
(*    true, false.                                                         *)
(***************************************************************************)
SectionKeys == {"smtp_hosts", "from_address", "recipients", "recipient_max_count",
                "raise_on_missing_attachments", "attachments"}
AttachmentKeys == {"blocked_extensions", "max_count", "raise_on_security_violation"}

BlankTextMeansUnset  == {"smtp_hosts", "recipients", "from_address"}
EmptyListMeansDefault == {"blocked_extensions"}
ZeroMeansNoLimit     == {"recipient_max_count", "max_count"}
OneOrMany            == {"smtp_hosts", "recipients"}
Switches == {"raise_on_missing_attachments", "raise_on_security_violation"}

IsListForm(v)    == v \in {"list", "badlist", "emptylist", "holed", "null", "blank"}
HasBlankEntry(v) == v = "holed"

\* Mutant: [email.attachments] is not searched for unknown keys.
RefusedKeysOfTop(s) ==
    {k \in DOMAIN s.top : k \notin SectionKeys}
        \cup {k \in DOMAIN s.table \cap EmptyListMeansDefault :
                 ~IsListForm(s.table[k]) \/ HasBlankEntry(s.table[k])}

\* _refused_keys: unknown keys, attachments that are no table, and in it the
\* lists of another form or with a blank entry.
RefusedKeys(s) ==
    {k \in DOMAIN s.top : k \notin SectionKeys}
        \cup IF "attachments" \in DOMAIN s.top /\ s.top["attachments"] # "table"
             THEN {"attachments"}
             ELSE {k \in DOMAIN s.table : k \notin AttachmentKeys}
                  \cup {k \in DOMAIN s.table \cap EmptyListMeansDefault :
                           ~IsListForm(s.table[k]) \/ HasBlankEntry(s.table[k])}

\* Mutant: an empty list is passed through.
MeansUnsetBlank(k, v) ==
    v = "blank" /\ k \in BlankTextMeansUnset \cup EmptyListMeansDefault

\* _means_unset
MeansUnset(k, v) ==
    \/ k \in EmptyListMeansDefault /\ v \in {"null", "emptylist", "blank"}
    \/ k \in BlankTextMeansUnset /\ v = "blank"

\* _field_value: a lone host or address becomes a list, a limit of 0 none.
FieldValue(k, v) ==
    IF k \in OneOrMany /\ v = "text" THEN "list"
    ELSE IF k \in OneOrMany /\ v = "bad" THEN "badlist"
    ELSE IF k \in ZeroMeansNoLimit /\ v = "zero" THEN "null"
    ELSE v

\* The keys of both tables with their values; a section no key of which is
\* refused has no key in both.
Written(s) ==
    [k \in DOMAIN s.top \cup DOMAIN s.table |->
        IF k \in DOMAIN s.top THEN s.top[k] ELSE s.table[k]]

\* _translate and _attachment_fields, for a section no key of which is refused
Translate(s) ==
    LET kept == {k \in DOMAIN Written(s) \ {"attachments"} : ~MeansUnset(k, Written(s)[k])}
    IN [k \in kept |-> FieldValue(k, Written(s)[k])]

\* What the model takes: EmailConfig's validators and ConfMail's.  It forbids
\* a name that is no field, but allow_empty_blocklists is one.
Accepts(k, v) ==
    CASE k = "smtp_hosts"   -> v \in {"list", "emptylist", "null"}
      [] k = "from_address" -> v \in {"text", "null", "blank"}
      [] k = "recipients"   -> v \in {"list", "emptylist", "null"}
      [] k \in ZeroMeansNoLimit -> v \in {"number", "null"}
      [] k = "blocked_extensions" -> v \in {"list", "emptylist"}
      [] k \in Switches -> v \in {"true", "false"}
      [] OTHER -> k = "allow_empty_blocklists"

\* load_email_config_from_dict raises a ValidationError.
Invalid(s) ==
    \/ RefusedKeys(s) # {}
    \/ \E k \in DOMAIN Translate(s) : ~Accepts(k, Translate(s)[k])
=============================================================================
