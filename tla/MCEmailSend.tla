---------------------------- MODULE MCEmailSend -----------------------------
(***************************************************************************)
(* Instances of EmailSend for TLC: the working section with any two of its *)
(* keys changed, with one key in the wrong table, and as shipped.          *)
(***************************************************************************)
EXTENDS EmailSend, TLC

Kinds == [smtp_hosts          |-> {"list", "text", "blank", "null", "emptylist", "number"},
          from_address        |-> {"text", "blank", "bad", "null"},
          recipients          |-> {"list", "text", "blank", "bad", "null", "number"},
          recipient_max_count |-> {"zero", "number", "text"},
          raise_on_missing_attachments |-> {"true", "false", "blank"},
          smtp_host           |-> {"text"},
          attachments         |-> {"table", "text"},
          blocked_extensions  |-> {"list", "null", "blank", "emptylist", "text", "holed"},
          max_count           |-> {"zero", "number"},
          raise_on_security_violation |-> {"true", "false", "blank"},
          allow_empty_blocklists |-> {"number"}]

Kind == UNION {Kinds[k] : k \in DOMAIN Kinds}

Working == [smtp_hosts |-> "list", from_address |-> "text", recipients |-> "list",
            attachments |-> "table"]

\* written is Working with the values of change laid over it.
AsSection(written) ==
    LET inner == {"blocked_extensions", "max_count", "raise_on_security_violation",
                  "allow_empty_blocklists"}
    IN [top   |-> [k \in DOMAIN written \ inner |-> written[k]],
        table |-> IF written["attachments"] = "table"
                  THEN [k \in DOMAIN written \cap inner |-> written[k]]
                  ELSE [k \in {} |-> "null"]]

Changed == {AsSection((k :> v) @@ (l :> w) @@ Working) :
               <<k, v, l, w>> \in {x \in (DOMAIN Kinds) \X Kind \X (DOMAIN Kinds) \X Kind :
                                     x[2] \in Kinds[x[1]] /\ x[4] \in Kinds[x[3]]}}

Shipped == AsSection([smtp_hosts |-> "emptylist", from_address |-> "blank",
                      recipients |-> "emptylist", attachments |-> "table"])

\* A key of one table written in the other one.
Misplaced ==
    {[top   |-> (k :> v) @@ Working, table |-> [l \in {} |-> "null"]] :
        <<k, v>> \in {"max_count", "raise_on_security_violation"} \X {"number", "false"}}
    \cup {[top |-> Working, table |-> k :> v] :
        <<k, v>> \in {"recipients", "recipient_max_count", "raise_on_missing_attachments"}
                       \X {"list", "number", "false"}}

Sections == Changed \cup Misplaced \cup {Shipped}
TwoRcpts == <<"r1", "r2">>
=============================================================================
