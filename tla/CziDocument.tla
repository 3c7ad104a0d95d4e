---------------------------- MODULE CziDocument ----------------------------
(***************************************************************************)
(* What a CZI writer promises its client, whatever bytes it writes.        *)
(*                                                                         *)
(* A document is opened, gets items (sub-blocks, attachments) and metadata,*)
(* and is closed.  "published" is what a reader who opens the file sees.   *)
(* Until the document is closed a reader sees nothing, or (when a Close    *)
(* has failed half-way) no more than the client put in; when it is closed, *)
(* everything that was accepted.  From then on it does not change.         *)
(***************************************************************************)
CONSTANTS
  Items,
  Metadatas,
  NoMeta,           \* no metadata has been written
  UnknownMeta       \* the last attempt to write metadata failed

VARIABLES
  phase,            \* none, creating, open, closed
  content,          \* items whose add succeeded
  doubtful,         \* items whose add failed, or that did not come whole
  meta,
  published         \* [readable, items, metadata]

docVars == <<phase, content, doubtful, meta, published>>

Nothing == [readable |-> FALSE, items |-> {}, metadata |-> {}]

Partial(doc) ==
  doc = Nothing \/ (doc.readable /\ doc.items \subseteq content \cup doubtful)

Complete(doc) ==
  /\ doc.readable
  /\ content \subseteq doc.items /\ doc.items \subseteq content \cup doubtful
  /\ meta # UnknownMeta => doc.metadata = {meta} \ {NoMeta}

-----------------------------------------------------------------------------

DocInit ==
  /\ phase = "none" /\ content = {} /\ doubtful = {} /\ meta = NoMeta
  /\ published = Nothing

Begin ==
  /\ phase \in {"none", "closed"}
  /\ phase' = "creating"
  /\ content' = {} /\ doubtful' = {} /\ meta' = NoMeta
  /\ published' = Nothing

Opened ==
  /\ phase = "creating" /\ phase' = "open"
  /\ UNCHANGED <<content, doubtful, meta, published>>

Accept(i) ==
  /\ phase = "open"
  /\ content' = content \cup {i}
  /\ UNCHANGED <<phase, doubtful, meta, published>>

Fail(i) ==
  /\ phase = "open"
  /\ doubtful' = doubtful \cup {i}
  /\ UNCHANGED <<phase, content, meta>>
  /\ Partial(published)'

Describe(m) ==
  /\ phase = "open"
  /\ meta' = m
  /\ UNCHANGED <<phase, content, doubtful>>
  /\ Partial(published')

\* The bytes of the file change while the writer works.
Publish ==
  /\ phase = "open"
  /\ UNCHANGED <<phase, content, doubtful, meta>>
  /\ Partial(published')

Finish ==
  /\ phase = "open" /\ phase' = "closed"
  /\ Complete(published)
  /\ UNCHANGED <<content, doubtful, meta, published>>

Abandon ==
  /\ phase \in {"creating", "open"} /\ phase' = "none"
  /\ UNCHANGED <<content, doubtful, meta, published>>

DocNext ==
  \/ Publish \/ Begin \/ Opened \/ Finish \/ Abandon
  \/ \E i \in Items : Accept(i) \/ Fail(i)
  \/ \E m \in Metadatas \cup {UnknownMeta} : Describe(m)

DocSpec == DocInit /\ [][DocNext]_docVars
=============================================================================
