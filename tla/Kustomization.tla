---------------------------- MODULE Kustomization ----------------------------
(***************************************************************************)
(* The images of a kustomization.yaml and the update of one of them        *)
(* (gitops/patch.go), an algorithm the server does not call yet.  A        *)
(* document is its images entry: absent, null, or a list of entries, in    *)
(* which one name may occur more than once.                                *)
(***************************************************************************)
EXTENDS Naturals, Sequences

CONSTANTS
    Image, Pin,     \* names, and tags or digests
    NoPin,          \* a field that is not there
    MaxImages       \* entries of a document at the start

ASSUME KustConstants == NoPin \notin Pin /\ MaxImages \in Nat

ImageEntry == [name : Image, newTag : Pin \cup {NoPin}, digest : Pin \cup {NoPin}]

VARIABLE images     \* the form of the entry, and the list where it is one

KustInit ==
    \/ images \in [form : {"absent", "null"}, list : {<<>>}]
    \/ \E n \in 0..MaxImages : images \in [form : {"list"}, list : [1..n -> ImageEntry]]

\* findImagesNode: no list is an empty one.
findImagesNode(d) == d.list

Named(list, name) == {i \in DOMAIN list : list[i].name = name}
First(S) == CHOOSE i \in S : \A j \in S : i <= j

\* Bug: a digest stays beside the new tag.
UpdateKeepsDigest(list, name, tag) ==
    IF Named(list, name) # {}
    THEN [list EXCEPT ![First(Named(list, name))].newTag = tag]
    ELSE Append(list, [name |-> name, newTag |-> tag, digest |-> NoPin])

\* The first entry of the name is pinned to the tag, or a new one is added.
applyImageUpdate(list, name, tag) ==
    IF Named(list, name) # {}
    THEN [list EXCEPT ![First(Named(list, name))] = [@ EXCEPT !.newTag = tag, !.digest = NoPin]]
    ELSE Append(list, [name |-> name, newTag |-> tag, digest |-> NoPin])

PatchImage(name, tag) ==
    images' = [form |-> "list", list |-> applyImageUpdate(findImagesNode(images), name, tag)]

KustNext == \E name \in Image, tag \in Pin : PatchImage(name, tag)

KustSpec == KustInit /\ [][KustNext]_images

\* All that a list says of an image.
PinsOf(list, name) == {list[i] : i \in Named(list, name)}

\* What an update does to a list: a name listed at most once is pinned by the tag
\* alone, in the whole list (a tag and a digest exclude each other).  Of a name
\* listed more than once the first entry is so pinned, and the others still say
\* what they said.  No entry is added for a name that has one, no other name is
\* touched, and updating once more changes nothing.
Updated(old, new, name, tag) ==
    LET pin == [name |-> name, newTag |-> tag, digest |-> NoPin] IN
    /\ (\A i, j \in Named(old, name) : i = j) => PinsOf(new, name) = {pin}
    /\ \A i \in Named(old, name) :
          new[i] = IF \E j \in Named(old, name) : j < i THEN old[i] ELSE pin
    /\ Named(old, name) # {} => Named(new, name) = Named(old, name)
    /\ \A other \in Image \ {name} :
          /\ Named(new, other) = Named(old, other)
          /\ \A i \in Named(old, other) : new[i] = old[i]
    /\ applyImageUpdate(new, name, tag) = new

\* Every update of a document does so, whatever its images entry was (absent,
\* null, or a list in which names repeat): patch.go, applyImageUpdate.
PinsOneImage ==
    [][\A name \in Image, tag \in Pin : PatchImage(name, tag) =>
          Updated(images.list, images'.list, name, tag)]_images
=============================================================================
