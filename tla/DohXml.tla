--------------------------------- MODULE DohXml --------------------------------
(***************************************************************************)
(* An XML message as libxml2's reader hands it out, node by node, and the  *)
(* function of c/https/do_doh_https_request.c that takes a tag's value     *)
(* from it.                                                                *)
(***************************************************************************)
EXTENDS Integers, Sequences, SequencesExt

Node(tag, part, value) == [tag |-> tag, part |-> part, value |-> value]

\* A field is written <a/>, <a></a>, or with a value.
SelfClosed == -1
Hollow == -2

Field(tag, value) ==
    CASE value = SelfClosed -> <<Node(tag, "empty", 0)>>
      [] value = Hollow     -> <<Node(tag, "start", 0), Node(tag, "end", 0)>>
      [] OTHER -> <<Node(tag, "start", 0), Node("#text", "text", value), Node(tag, "end", 0)>>

\* An element around a sequence of parts; id is its id attribute.
Element(tag, id, parts) ==
    <<Node(tag, "start", id)>> \o FlattenSeq(parts) \o <<Node(tag, "end", id)>>

\* get_tag_value, with the reader at node k: where it leaves the reader, and the
\* value, old when the function does not set it. 0 is the value of a node that
\* is no text. At the end of the message a read does not move the reader.
GetTagValue(doc, k, tag, old) ==
    IF k + 1 > Len(doc)
    THEN [at |-> k, value |-> old, ok |-> FALSE]
    ELSE IF doc[k + 1].tag = tag
    THEN [at |-> k + 1, value |-> old, ok |-> TRUE]
    ELSE [at    |-> IF k + 2 > Len(doc) THEN k + 1 ELSE k + 2,
          value |-> IF doc[k + 1].part = "text" THEN doc[k + 1].value ELSE 0,
          ok    |-> k + 2 <= Len(doc)]

=============================================================================
