-------------------------- MODULE HelmReleaseProofs --------------------------
(***************************************************************************)
(* Theorems about HelmRelease and Kustomization, for all workloads, texts, *)
(* images and pins.                                                        *)
(***************************************************************************)
EXTENDS HelmRelease, Kustomization, WellFoundedInduction, TLAPS

(***************************************************************************)
(* HelmRelease: types                                                      *)
(***************************************************************************)

\* Only a document with values has an image to patch, and patching gives a
\* document with the same workloads and another tag in one of them.
LEMMA PatchIsDocument ==
    ASSUME NEW d \in Document, NEW w \in Workload, NEW t \in OCITag,
           walkHelmReleasePath(d, w)
    PROVE  LET p == PatchHelmRelease(d, w, t) IN
           /\ p \in Document
           /\ p.top = "values" /\ d.top = "values"
           /\ d.of[w].kind = "image" /\ p.of[w].kind = "image"
           /\ p.of[w].repository = d.of[w].repository
           /\ p.of[w].tag.style \in {"single", "double"} /\ p.of[w].tag.text = t
           /\ \A v \in Workload \ {w} : p.of[v] = d.of[v]
<1> DEFINE p == PatchHelmRelease(d, w, t)
<1> DEFINE cell == patchStringNode(d.of[w].tag, t)
<1>1. d.top = "values" /\ d.of[w].kind = "image" /\ StringNode(d.of[w].tag) # {}
  BY DEF walkHelmReleasePath, ImageMap
<1>2. d.of \in [Workload -> Entry] /\ d = [top |-> "values", of |-> d.of]
  BY <1>1 DEF Document
<1>3. d.of[w] \in [kind : {"image"}, repository : Cell, tag : Cell]
  BY <1>1, <1>2 DEF Entry
<1>4. d.of[w].tag.style \in {"single", "double", "plain"}
  BY <1>1 DEF StringNode
<1>5. cell.style \in {"single", "double"} /\ cell.text = t /\ cell \in Cell
  BY <1>4, TextConstants DEF patchStringNode, Cell, Scalar
<1>6. p = [top |-> "values", of |-> [d.of EXCEPT ![w] = [@ EXCEPT !.tag = cell]]]
  BY <1>2 DEF PatchHelmRelease
<1>7. p.of[w] = [kind |-> "image", repository |-> d.of[w].repository, tag |-> cell]
  BY <1>2, <1>3, <1>6
<1>8. p.of[w] \in Entry
  BY <1>3, <1>5, <1>7 DEF Entry
<1>9. \A v \in Workload \ {w} : p.of[v] = d.of[v]
  BY <1>2, <1>6
<1>10. p.of \in [Workload -> Entry]
  BY <1>2, <1>6, <1>7, <1>8
<1>11. p \in Document
  BY <1>6, <1>10 DEF Document
<1> QED
  BY <1>1, <1>5, <1>6, <1>7, <1>9, <1>11

\* A deploy that is accepted has found a string under a valid tag.
LEMMA Accepted ==
    ASSUME NEW d \in Document, NEW w \in Workload, NEW t \in Text,
           ApplyReply(d, w, t) = "202"
    PROVE  t \in OCITag /\ walkHelmReleasePath(d, w)
  BY DEF ApplyReply

\* The file stays a document through every deploy.
THEOREM HelmTypes == HelmSpec => []HelmTypeOK
<1>1. HelmInit => HelmTypeOK
  BY DEF HelmInit, HelmTypeOK, HelmReplies
<1>2. HelmTypeOK /\ [HelmNext]_helmVars => HelmTypeOK'
  <2> SUFFICES ASSUME HelmTypeOK, [HelmNext]_helmVars PROVE HelmTypeOK'
    OBVIOUS
  <2>1. ASSUME NEW w \in Workload, NEW t \in Text, DeployTag(w, t) PROVE HelmTypeOK'
    <3>1. reply' \in HelmReplies
      BY <2>1 DEF DeployTag, ApplyReply, HelmReplies
    <3>2. CASE reply' = "202"
      <4>1. ApplyReply(file, w, t) = "202" /\ file' = PatchHelmRelease(file, w, t)
        BY <2>1, <3>2 DEF DeployTag
      <4>2. file \in Document /\ t \in OCITag /\ walkHelmReleasePath(file, w)
        BY <2>1, <4>1, Accepted DEF HelmTypeOK
      <4>3. PatchHelmRelease(file, w, t) \in Document
        BY <2>1, <4>2, PatchIsDocument
      <4> QED
        BY <3>1, <4>1, <4>3 DEF HelmTypeOK
    <3>3. CASE reply' # "202"
      BY <2>1, <3>1, <3>3 DEF DeployTag, HelmTypeOK
    <3> QED
      BY <3>2, <3>3
  <2>2. CASE UNCHANGED helmVars
    BY <2>2 DEF HelmTypeOK, helmVars
  <2> QED
    BY <2>1, <2>2 DEF HelmNext
<1> QED
  BY <1>1, <1>2, PTL DEF HelmSpec

(***************************************************************************)
(* HelmRelease: what the readers say                                       *)
(***************************************************************************)

\* The list of workloads and the table of tags name the same workloads, in
\* every document a deploy can leave (gitops/discover.go).
THEOREM ReadersAgree == HelmSpec => []NamesAgree
<1> DEFINE listed == {w \in Workload : imageRepository(file, w) # Empty}
<1>1. {p[1] : p \in DiscoverWorkloads(file)} = listed
  <2>1. ASSUME NEW p \in DiscoverWorkloads(file) PROVE p[1] \in listed
    BY <2>1 DEF DiscoverWorkloads
  <2>2. ASSUME NEW w \in listed PROVE \E p \in DiscoverWorkloads(file) : p[1] = w
    <3>1. <<w, imageRepository(file, w)>> \in DiscoverWorkloads(file)
      BY DEF DiscoverWorkloads
    <3> QED
      BY <3>1
  <2> QED
    BY <2>1, <2>2
<1>2. DOMAIN ExtractCurrentTags(file) = listed
  BY DEF ExtractCurrentTags
<1>3. NamesAgree
  BY <1>1, <1>2 DEF NamesAgree
<1> QED
  BY <1>3, PTL

\* A string is found where a tag is shown.
LEMMA ShownIsString ==
    ASSUME NEW d \in Document, NEW w \in DOMAIN ExtractCurrentTags(d),
           ExtractCurrentTags(d)[w] # TagMissing
    PROVE  w \in Workload /\ imageRepository(d, w) # Empty /\ walkHelmReleasePath(d, w)
  BY DEF ExtractCurrentTags, imageTag, walkHelmReleasePath

\* What the status page shows a tag of, the deploy handler accepts and the tag
\* list finds (discover.go against helmrelease_patch.go).
THEOREM ShownCanBeDeployed == HelmSpec => []ShownIsDeployable
<1>1. HelmTypeOK /\ NamesAgree => ShownIsDeployable
  <2> SUFFICES ASSUME HelmTypeOK, NamesAgree, NEW w \in DOMAIN ExtractCurrentTags(file),
                      ExtractCurrentTags(file)[w] # TagMissing
               PROVE  /\ TagsReply(file, w) = "200"
                      /\ \A t \in OCITag : ApplyReply(file, w, t) = "202"
    BY DEF ShownIsDeployable
  <2>1. imageRepository(file, w) # Empty /\ walkHelmReleasePath(file, w)
    BY ShownIsString DEF HelmTypeOK
  <2>2. file.top = "values"
    BY <2>1 DEF walkHelmReleasePath, ImageMap
  <2> QED
    BY <2>1, <2>2 DEF TagsReply, ReadReply, parseFails, ApplyReply
<1> QED
  BY <1>1, HelmTypes, ReadersAgree, PTL

\* A deploy changes what is read of one workload, and there only the tag.
LEMMA PatchReads ==
    ASSUME NEW d \in Document, NEW w \in Workload, NEW t \in OCITag,
           walkHelmReleasePath(d, w)
    PROVE  LET p == PatchHelmRelease(d, w, t) IN
           /\ \A v \in Workload : imageRepository(p, v) = imageRepository(d, v)
           /\ \A v \in Workload : imageTag(p, v) = IF v = w THEN t ELSE imageTag(d, v)
<1> DEFINE p == PatchHelmRelease(d, w, t)
<1>1. /\ p.top = "values" /\ d.top = "values"
      /\ d.of[w].kind = "image" /\ p.of[w].kind = "image"
      /\ p.of[w].repository = d.of[w].repository
      /\ p.of[w].tag.style \in {"single", "double"} /\ p.of[w].tag.text = t
      /\ \A v \in Workload \ {w} : p.of[v] = d.of[v]
  BY PatchIsDocument
<1>2. ASSUME NEW v \in Workload \ {w}
      PROVE  imageRepository(p, v) = imageRepository(d, v) /\ imageTag(p, v) = imageTag(d, v)
  BY <1>1, <1>2 DEF imageRepository, imageTag, ImageMap
<1>3. imageRepository(p, w) = imageRepository(d, w)
  BY <1>1 DEF imageRepository, ImageMap
<1>4. imageTag(p, w) = t
  BY <1>1 DEF imageTag, ImageMap, StringNode
<1> QED
  BY <1>2, <1>3, <1>4

\* The status shows what was deployed, quoted or not before, and nothing else
\* moves (helmrelease_patch.go:148).
THEOREM DeploysAreShown == HelmSpec => DeployShows
<1> DEFINE Shows(w, t) ==
      DeployTag(w, t) /\ reply' = "202" =>
          /\ DiscoverWorkloads(file') = DiscoverWorkloads(file)
          /\ DOMAIN ExtractCurrentTags(file') = DOMAIN ExtractCurrentTags(file)
          /\ \A v \in DOMAIN ExtractCurrentTags(file') :
                ExtractCurrentTags(file')[v]
                    = IF v = w THEN t ELSE ExtractCurrentTags(file)[v]
<1>1. HelmTypeOK => \A w \in Workload, t \in Text : Shows(w, t)
  <2> SUFFICES ASSUME HelmTypeOK, NEW w \in Workload, NEW t \in Text,
                      DeployTag(w, t), reply' = "202"
               PROVE  /\ DiscoverWorkloads(file') = DiscoverWorkloads(file)
                      /\ DOMAIN ExtractCurrentTags(file') = DOMAIN ExtractCurrentTags(file)
                      /\ \A v \in DOMAIN ExtractCurrentTags(file') :
                            ExtractCurrentTags(file')[v]
                                = IF v = w THEN t ELSE ExtractCurrentTags(file)[v]
    OBVIOUS
  <2>1. ApplyReply(file, w, t) = "202" /\ file' = PatchHelmRelease(file, w, t)
    BY DEF DeployTag
  <2>2. file \in Document /\ t \in OCITag /\ walkHelmReleasePath(file, w)
    BY <2>1, Accepted DEF HelmTypeOK
  <2>3. /\ \A v \in Workload : imageRepository(file', v) = imageRepository(file, v)
        /\ \A v \in Workload : imageTag(file', v) = IF v = w THEN t ELSE imageTag(file, v)
    BY <2>1, <2>2, PatchReads
  <2>4. t # Empty
    BY <2>2, TextConstants
  <2>5. DiscoverWorkloads(file') = DiscoverWorkloads(file)
    BY <2>3 DEF DiscoverWorkloads
  <2>6. DOMAIN ExtractCurrentTags(file') = DOMAIN ExtractCurrentTags(file)
    BY <2>3 DEF ExtractCurrentTags
  <2>7. ASSUME NEW v \in DOMAIN ExtractCurrentTags(file')
        PROVE  ExtractCurrentTags(file')[v]
                   = IF v = w THEN t ELSE ExtractCurrentTags(file)[v]
    BY <2>3, <2>4 DEF ExtractCurrentTags
  <2> QED
    BY <2>5, <2>6, <2>7
<1>2. HelmTypeOK => [\A w \in Workload, t \in Text : Shows(w, t)]_helmVars
  BY <1>1
<1> QED
  BY <1>2, HelmTypes, PTL DEF DeployShows

(***************************************************************************)
(* Kustomization                                                           *)
(***************************************************************************)

\* A set of numbers has a least one.
LEMMA LeastNumber ==
    ASSUME NEW S \in SUBSET Nat, S # {}
    PROVE  \E i \in S : \A j \in S : i <= j
<1>1. IsWellFoundedOn(OpToRel(<, Nat), Nat)
  BY NatLessThanWellFounded
<1> DEFINE R == OpToRel(<, Nat)
<1>2. \A x, y \in Nat : y < x => <<y, x>> \in R
  BY DEF OpToRel
<1> HIDE DEF R
<1>3. \E x \in S : \A y \in S : ~(<<y, x>> \in R)
  BY <1>1, WFMin DEF R
<1>4. PICK i \in S : \A j \in S : ~(<<j, i>> \in R)
  BY <1>3
<1>5. ASSUME NEW j \in S PROVE i <= j
  <2>1. i \in Nat /\ j \in Nat
    OBVIOUS
  <2>2. ~(j < i)
    BY <2>1, <1>2, <1>4
  <2> QED
    BY <2>1, <2>2
<1> QED
  BY <1>5

\* First finds the least index of a name that is there.
LEMMA FirstIsLeast ==
    ASSUME NEW list \in Seq(ImageEntry), NEW name, Named(list, name) # {}
    PROVE  LET i == First(Named(list, name)) IN
           /\ i \in DOMAIN list /\ list[i].name = name
           /\ \A j \in DOMAIN list : list[j].name = name => i <= j
<1>1. Named(list, name) \in SUBSET Nat
  BY DEF Named
<1>2. \E i \in Named(list, name) : \A j \in Named(list, name) : i <= j
  BY <1>1, LeastNumber
<1>3. LET i == First(Named(list, name)) IN
        i \in Named(list, name) /\ \A j \in Named(list, name) : i <= j
  BY <1>2 DEF First
<1> QED
  BY <1>3 DEF Named

\* No other index is least.
LEMMA FirstIs ==
    ASSUME NEW list \in Seq(ImageEntry), NEW name, NEW i \in DOMAIN list,
           list[i].name = name, \A j \in DOMAIN list : list[j].name = name => i <= j
    PROVE  First(Named(list, name)) = i
<1>1. i \in Named(list, name)
  BY DEF Named
<1>2. LET f == First(Named(list, name)) IN
        f \in DOMAIN list /\ list[f].name = name /\ f <= i
  BY <1>1, FirstIsLeast
<1> QED
  BY <1>2

\* An entry that is pinned is its name and the tag.
LEMMA PinnedEntry ==
    ASSUME NEW e \in ImageEntry, NEW tag
    PROVE  [e EXCEPT !.newTag = tag, !.digest = NoPin]
               = [name |-> e.name, newTag |-> tag, digest |-> NoPin]
<1> DEFINE f == [e EXCEPT !.newTag = tag]
<1> DEFINE Fields == {"name", "newTag", "digest"}
<1>1. f = [x \in Fields |-> IF x = "newTag" THEN tag ELSE e[x]]
  BY DEF ImageEntry
<1>2. [f EXCEPT !.digest = NoPin] = [x \in Fields |-> IF x = "digest" THEN NoPin ELSE f[x]]
  BY <1>1
<1>3. [name |-> e.name, newTag |-> tag, digest |-> NoPin]
          = [x \in Fields |-> IF x = "newTag" THEN tag
                              ELSE IF x = "digest" THEN NoPin ELSE e.name]
  OBVIOUS
<1> QED
  BY <1>1, <1>2, <1>3

\* applyImageUpdate pins the first entry of an image, or a new one (patch.go).
LEMMA UpdatePins ==
    ASSUME NEW list \in Seq(ImageEntry), NEW name \in Image, NEW tag \in Pin
    PROVE  LET new == applyImageUpdate(list, name, tag) IN
           new \in Seq(ImageEntry) /\ Updated(list, new, name, tag)
<1> DEFINE pin == [name |-> name, newTag |-> tag, digest |-> NoPin]
<1> DEFINE new == applyImageUpdate(list, name, tag)
<1>1. pin \in ImageEntry /\ pin.name = name
  BY DEF ImageEntry
<1>2. [pin EXCEPT !.newTag = tag, !.digest = NoPin] = pin
  <2>1. [pin EXCEPT !.newTag = tag, !.digest = NoPin]
            = [name |-> pin.name, newTag |-> tag, digest |-> NoPin]
    BY <1>1, PinnedEntry
  <2> QED
    BY <2>1
<1>3. CASE Named(list, name) # {}
  <2> DEFINE i == First(Named(list, name))
  <2>1. /\ i \in DOMAIN list /\ list[i].name = name
        /\ \A j \in DOMAIN list : list[j].name = name => i <= j
    BY <1>3, FirstIsLeast
  <2>2. list[i] \in ImageEntry
    BY <2>1
  <2>3. [list[i] EXCEPT !.newTag = tag, !.digest = NoPin] = pin
    BY <2>1, <2>2, PinnedEntry
  <2>4. new = [list EXCEPT ![i] = pin]
    BY <1>3, <2>3 DEF applyImageUpdate
  <2> HIDE DEF i, new, pin
  <2>5. /\ new \in Seq(ImageEntry) /\ DOMAIN new = DOMAIN list /\ new[i] = pin
        /\ \A j \in DOMAIN list \ {i} : new[j] = list[j]
    BY <1>1, <2>1, <2>4
  <2>6. \A any : Named(new, any) = Named(list, any)
    BY <1>1, <2>1, <2>5 DEF Named
  <2>7. First(Named(new, name)) = i /\ i \in Named(list, name)
    <3>1. First(Named(list, name)) = i
      BY DEF i
    <3>2. i \in Named(list, name)
      BY <2>1 DEF Named
    <3> QED
      BY <2>6, <3>1, <3>2
  <2>8. [new EXCEPT ![i] = pin] = new
    BY <2>1, <2>5
  <2>9. applyImageUpdate(new, name, tag) = new
    BY <1>2, <2>5, <2>6, <2>7, <2>8 DEF applyImageUpdate
  <2>10. (\A k, j \in Named(list, name) : k = j) => PinsOf(new, name) = {pin}
    BY <2>5, <2>6, <2>7 DEF PinsOf
  <2>11. ASSUME NEW k \in Named(list, name)
         PROVE  new[k] = IF \E j \in Named(list, name) : j < k THEN list[k] ELSE pin
    <3>1. DOMAIN list \subseteq Nat /\ k \in DOMAIN list /\ i <= k /\ i \in DOMAIN list
      BY <2>1, <2>11 DEF Named
    <3>2. \A j \in Named(list, name) : j \in DOMAIN list /\ i <= j
      BY <2>1 DEF Named
    <3>3. CASE k = i
      BY <2>5, <3>1, <3>2, <3>3
    <3>4. CASE k # i
      BY <2>5, <2>7, <3>1, <3>4
    <3> QED
      BY <3>3, <3>4
  <2>12. ASSUME NEW other \in Image \ {name}, NEW k \in Named(list, other)
         PROVE  new[k] = list[k]
    BY <2>1, <2>5, <2>12 DEF Named
  <2> QED
    BY <2>5, <2>6, <2>9, <2>10, <2>11, <2>12 DEF new, pin, Updated
<1>4. CASE Named(list, name) = {}
  <2> DEFINE i == Len(list) + 1
  <2>1. new = Append(list, pin)
    BY <1>4 DEF applyImageUpdate
  <2> HIDE DEF new, pin
  <2>2. /\ new \in Seq(ImageEntry) /\ DOMAIN new = 1..i /\ DOMAIN list = 1..(i - 1)
        /\ i \in Nat \ {0} /\ new[i] = pin /\ \A j \in DOMAIN list : new[j] = list[j]
    BY <1>1, <2>1
  <2> HIDE DEF i
  <2>3. \A j \in DOMAIN list : list[j].name # name
    BY <1>4 DEF Named
  <2>4. Named(new, name) = {i}
    BY <1>1, <2>2, <2>3 DEF Named
  <2>5. PinsOf(new, name) = {pin} /\ First(Named(new, name)) = i
    BY <2>2, <2>4 DEF PinsOf, First
  <2>6. [new EXCEPT ![i] = pin] = new
    BY <2>2
  <2>7. applyImageUpdate(new, name, tag) = new
    BY <1>2, <2>2, <2>4, <2>5, <2>6 DEF applyImageUpdate
  <2>8. ASSUME NEW other \in Image \ {name}
        PROVE  /\ Named(new, other) = Named(list, other)
               /\ \A k \in Named(list, other) : new[k] = list[k]
    BY <1>1, <2>2 DEF Named
  <2> QED
    BY <1>4, <2>2, <2>5, <2>7, <2>8 DEF new, pin, Updated
<1> QED
  BY <1>3, <1>4

\* Every update pins an image that is listed at most once by the tag alone, the
\* first entry of one that is listed more often, and keeps all else; done twice it
\* is done once (patch.go:112), for lists of any length.
THEOREM UpdatesPin == KustSpec => PinsOneImage
<1> DEFINE IsList == images.list \in Seq(ImageEntry)
<1>1. KustInit => IsList
  <2>1. ASSUME images \in [form : {"absent", "null"}, list : {<<>>}] PROVE IsList
    <3>1. images.list = <<>>
      BY <2>1
    <3> QED
      BY <3>1
  <2>2. ASSUME NEW n \in 0..MaxImages, images \in [form : {"list"}, list : [1..n -> ImageEntry]]
        PROVE  IsList
    BY <2>2, KustConstants
  <2> QED
    BY <2>1, <2>2 DEF KustInit
<1>2. ASSUME IsList, NEW name \in Image, NEW tag \in Pin, PatchImage(name, tag)
      PROVE  IsList' /\ Updated(images.list, images'.list, name, tag)
  <2>1. images'.list = applyImageUpdate(images.list, name, tag)
    BY <1>2 DEF PatchImage, findImagesNode
  <2> QED
    BY <1>2, <2>1, UpdatePins
<1>3. IsList /\ [KustNext]_images =>
        IsList' /\ [\A name \in Image, tag \in Pin : PatchImage(name, tag) =>
                        Updated(images.list, images'.list, name, tag)]_images
  BY <1>2 DEF KustNext
<1> QED
  BY <1>1, <1>3, PTL DEF KustSpec, PinsOneImage
=============================================================================
