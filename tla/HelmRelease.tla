----------------------------- MODULE HelmRelease -----------------------------
(***************************************************************************)
(* The HelmRelease of one environment, as three pieces of code see it: the *)
(* list of workloads and the table of tags (gitops/discover.go), and the   *)
(* patch a deploy makes (gitops/helmrelease_patch.go).  They walk the same *)
(* YAML with code of their own, and what one writes the others must read.  *)
(*                                                                         *)
(* The document is what is on the page: a scalar is a text and the way it  *)
(* is quoted, and only parsing makes a string or a number of it.  Above    *)
(* the workloads the path spec.values either leads to a mapping or does    *)
(* not ("noValues").  Comments, order and indentation are left out.        *)
(***************************************************************************)
EXTENDS FiniteSets

CONSTANTS
    Workload,
    Text,           \* texts of scalars
    Empty,          \* the empty one
    NumberLike,     \* those YAML takes for a number, or a truth value, when not quoted
    OCITag,         \* those isValidOCITag accepts
    TagMissing      \* "N/A", which is not the tag of any workload

ASSUME TextConstants ==
    /\ Empty \in Text /\ Empty \notin NumberLike \cup OCITag
    /\ TagMissing \notin Text
    /\ NumberLike \subseteq Text /\ OCITag \subseteq Text

\* A node: a scalar, or "other" for a mapping, a sequence, an alias or a block
\* scalar; "missing" where there is none.
Scalar == {c \in [style : {"single", "double", "plain"}, text : Text] :
               c.style = "plain" => c.text # Empty}
Cell == Scalar \cup [style : {"missing", "null", "other"}, text : {Empty}]
NoCell == [style |-> "missing", text |-> Empty]

\* A workload's values: not a mapping, without a mapping for its image, or with.
Entry == [kind : {"missing", "scalar", "noImage"}, repository : {NoCell}, tag : {NoCell}]
         \cup [kind : {"image"}, repository : Cell, tag : Cell]
NoEntry == [kind |-> "missing", repository |-> NoCell, tag |-> NoCell]

Document == [top : {"absent", "empty", "garbage", "noValues"}, of : {[w \in Workload |-> NoEntry]}]
            \cup [top : {"values"}, of : [Workload -> Entry]]

VARIABLES
    file,           \* on the branch
    reply           \* of the last deploy

helmVars == <<file, reply>>

HelmReplies == {"none", "202", "422", "500"}

HelmTypeOK == file \in Document /\ reply \in HelmReplies

HelmInit == file \in Document /\ reply = "none"

\* The StringNode a cell parses to, as the set of its value; {} for another node.
StringNode(c) ==
    IF c.style \in {"single", "double"} \/ (c.style = "plain" /\ c.text \notin NumberLike)
    THEN {c.text} ELSE {}

ImageMap(d, w) == d.top = "values" /\ d.of[w].kind = "image"

(***************************************************************************)
(* Reading                                                                 *)
(***************************************************************************)

parseFails(d) == d.top \in {"empty", "garbage"}

\* "" unless the field is there and a string.
imageRepository(d, w) ==
    IF ImageMap(d, w) /\ StringNode(d.of[w].repository) # {}
    THEN d.of[w].repository.text ELSE Empty

imageTag(d, w) ==
    IF ImageMap(d, w) /\ StringNode(d.of[w].tag) # {} THEN d.of[w].tag.text ELSE Empty

DiscoverWorkloads(d) ==
    {<<w, imageRepository(d, w)>> : w \in {v \in Workload : imageRepository(d, v) # Empty}}

ExtractCurrentTags(d) ==
    [w \in {v \in Workload : imageRepository(d, v) # Empty} |->
        IF imageTag(d, w) = Empty THEN TagMissing ELSE imageTag(d, w)]

\* The answers of GET workloads and GET tags: both read the file first.
ReadReply(d) ==
    IF d.top = "absent" THEN "404" ELSE IF parseFails(d) THEN "422" ELSE "200"

\* GET .../workloads/:workload/tags looks the workload up before it asks for
\* the tags of its repository.
TagsReply(d, w) ==
    IF ReadReply(d) # "200" THEN ReadReply(d)
    ELSE IF imageRepository(d, w) = Empty THEN "404" ELSE "200"

(***************************************************************************)
(* Patching                                                                *)
(***************************************************************************)

\* Bug: a plain scalar stays plain.
SameStyle(c, t) == [style |-> c.style, text |-> t]

\* Quotes are kept, and put around a plain value.
patchStringNode(c, t) ==
    [style |-> IF c.style = "plain" THEN "single" ELSE c.style, text |-> t]

\* Bug: only a quoted tag is patched.
walkQuoted(d, w) ==
    ImageMap(d, w) /\ StringNode(d.of[w].tag) # {} /\ d.of[w].tag.style # "plain"

\* The path leads to a tag that is a string.
walkHelmReleasePath(d, w) ==
    ImageMap(d, w) /\ StringNode(d.of[w].tag) # {}

PatchHelmRelease(d, w, t) == [d EXCEPT !.of[w].tag = patchStringNode(@, t)]

\* Patched and pushed, refused, or failed: an unreadable document is an internal
\* error of a deploy, and a 422 of the reading routes.
ApplyReply(d, w, t) ==
    IF d.top = "absent" \/ t \notin OCITag THEN "422"
    ELSE IF parseFails(d) THEN "500"
    ELSE IF walkHelmReleasePath(d, w) THEN "202" ELSE "422"

DeployTag(w, t) ==
    /\ reply' = ApplyReply(file, w, t)
    /\ file' = IF reply' = "202" THEN PatchHelmRelease(file, w, t) ELSE file

HelmNext == \E w \in Workload, t \in Text : DeployTag(w, t)

HelmSpec == HelmInit /\ [][HelmNext]_helmVars

(***************************************************************************)
(* Properties                                                              *)
(***************************************************************************)

\* The rows of the status table are the workloads the deploy dialog lists, in
\* every document.
NamesAgree == {p[1] : p \in DiscoverWorkloads(file)} = DOMAIN ExtractCurrentTags(file)

\* What is shown is listed, and a workload whose tag is shown can be deployed:
\* its tags are found and any valid one is accepted.
\* (Not the other way round: an unquoted number is shown as N/A and refused.)
ShownIsDeployable ==
    /\ NamesAgree
    /\ \A w \in DOMAIN ExtractCurrentTags(file) :
          ExtractCurrentTags(file)[w] # TagMissing =>
              /\ TagsReply(file, w) = "200"
              /\ \A t \in OCITag : ApplyReply(file, w, t) = "202"

\* After a deploy the status shows the tag that was asked for, whatever it looks
\* like, and of every other workload what it showed before; no workload appears
\* or vanishes and no repository changes.
DeployShows ==
    [][\A w \in Workload, t \in Text :
          DeployTag(w, t) /\ reply' = "202" =>
              /\ DiscoverWorkloads(file') = DiscoverWorkloads(file)
              /\ DOMAIN ExtractCurrentTags(file') = DOMAIN ExtractCurrentTags(file)
              /\ \A v \in DOMAIN ExtractCurrentTags(file') :
                    ExtractCurrentTags(file')[v]
                        = IF v = w THEN t ELSE ExtractCurrentTags(file)[v]]_helmVars
=============================================================================
