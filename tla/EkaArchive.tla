----------------------------- MODULE EkaArchive -----------------------------
(***************************************************************************)
(* What the canonical store promises, without tables, transactions,        *)
(* lineage or locks: an archive of payloads that only grows, and for every *)
(* identity form the payload that is current.                              *)
(*                                                                         *)
(* Payloads are committed in sets, all of a set or none of it.  A payload  *)
(* the archive did not hold becomes current; one that it held never does   *)
(* again, unless the form was rewound: what relate and the assignment      *)
(* commands do on purpose.                                                 *)
(***************************************************************************)
CONSTANTS
  Payload,
  Form,
  FormOf,    \* the form a payload carries
  Inherited, \* the payloads of the database at the start
  None       \* the form has no current payload

VARIABLES
  archive,   \* the payloads ever committed
  current,   \* per form: the payload that is current
  rewound    \* the forms that were moved back to an archived payload

archiveVars == <<archive, current, rewound>>

\* What an older version of the program left behind: one payload of a form.
ArchiveInit ==
  /\ archive = Inherited
  /\ current \in [Form -> Inherited \cup {None}]
  /\ \A f \in Form : IF current[f] = None THEN \A h \in Inherited : FormOf[h] # f
                                          ELSE FormOf[current[f]] = f
  /\ rewound = {}

Fresh(P) == P \ archive

\* What may become the current payload of a form when P is committed.
Eligible(P, f) ==
  {h \in P : FormOf[h] = f /\ (h \in Fresh(P) \/ f \in rewound)}

Commit(P) ==
  /\ archive' = archive \cup P
  /\ current' \in [Form -> Payload \cup {None}]
  /\ \A f \in Form : current'[f] = current[f] \/ current'[f] \in Eligible(P, f)
  /\ \A h \in Fresh(P) : FormOf[h] \notin rewound => current'[FormOf[h]] \in Fresh(P)
  /\ UNCHANGED rewound

Rewind(h) ==
  /\ archive' = archive \cup {h}
  /\ current' = [current EXCEPT ![FormOf[h]] = h]
  /\ rewound' = rewound \cup
       {f \in {FormOf[h]} : h \in archive /\ current[f] # h}

ArchiveNext ==
  \/ \E P \in SUBSET Payload : Commit(P)
  \/ \E h \in Payload : Rewind(h)

ArchiveSpec == ArchiveInit /\ [][ArchiveNext]_archiveVars
=============================================================================
