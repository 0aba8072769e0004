---------------------------- MODULE DriverMerge -----------------------------
(***************************************************************************)
(* The three-way merges of the semantic drivers (suture-driver-...): what  *)
(* each of them makes of one item of a document -- a member, a row, a      *)
(* cell, a page, a section, an element -- that the three versions hold     *)
(* under the same key, index or id.  A conflict on one item is a conflict  *)
(* of the whole document.                                                  *)
(*                                                                         *)
(* An item has two parts.  For a driver that looks into its items, they    *)
(* are two fields; for one that decides on a part of the item only, key is *)
(* that part and rest what it carries along.  Absent stands for no item.   *)
(* The order of the merged document and its text are left out.             *)
(***************************************************************************)
EXTENDS Naturals, Sequences

CONSTANTS Key,      \* first parts, numbers
          Rest,     \* second parts, sets
          Absent

ASSUME KeyAssumption == Key \subseteq Nat

Item == [key : Key, rest : Rest]

ASSUME AbsentAssumption == Absent \notin Item

Yields(items) == [clean |-> TRUE, items |-> items]
Conflict     == [clean |-> FALSE, items |-> <<>>]

\* The item of a side that has one.
There(x) == IF x = Absent THEN <<>> ELSE <<x>>

\* The rule all drivers share: a side that did not change gives way.
Resolvable(b, o, t) == o = t \/ o = b \/ t = b
Resolved(b, o, t) == IF o = b THEN t ELSE o

Whole(b, o, t) == IF Resolvable(b, o, t) THEN Yields(<<Resolved(b, o, t)>>) ELSE Conflict

ByField(b, o, t) ==
    IF \A f \in DOMAIN b : Resolvable(b[f], o[f], t[f])
    THEN Yields(<<[f \in DOMAIN b |-> Resolved(b[f], o[f], t[f])]>>) ELSE Conflict

\* Both sides added the item.
AddedTwice(o, t) == IF o = t THEN Yields(<<o>>) ELSE Conflict
AddedBeside(o, t) == IF o = t THEN Yields(<<o>>) ELSE Yields(<<o, t>>)

\* What most drivers do: an item only one side has is kept, be it new, changed or
\* merely not deleted there.
KeptByOne(Both(_, _, _), Added(_, _), b, o, t) ==
    IF o = Absent \/ t = Absent THEN Yields(There(o) \o There(t))
    ELSE IF b = Absent THEN Added(o, t) ELSE Both(b, o, t)

-----------------------------------------------------------------------------
(* Structured text *)

\* JSON, YAML and TOML documents.
Structured(b, o, t) == KeptByOne(ByField, AddedTwice, b, o, t)

\* Kubernetes sequences by name.
Manifest(b, o, t) == KeptByOne(ByField, AddedTwice, b, o, t)

\* Resources of a Terraform state; key is the serial number, and the higher one wins.
StateResource(b, o, t) ==
    LET Both(x, y, z) == IF Resolvable(x, y, z) THEN Whole(x, y, z)
                         ELSE Yields(<<IF y.key >= z.key THEN y ELSE z>>)
    IN  KeptByOne(Both, AddedTwice, b, o, t)

\* Packages of a Cargo.lock; key is the version.
LockedPackage(b, o, t) ==
    IF o = Absent /\ t = Absent THEN Yields(<<b>>)
    ELSE IF o = Absent \/ t = Absent THEN Yields(There(o) \o There(t))
    ELSE IF o.key = t.key THEN Yields(<<o>>)
    ELSE IF b # Absent /\ o.key = b.key THEN Yields(<<t>>)
    ELSE IF b # Absent /\ t.key = b.key THEN Yields(<<o>>)
    ELSE Conflict

\* Rows of a CSV file: the only driver that carries deletions out.
Row(b, o, t) ==
    IF b # Absent /\ (o = Absent \/ t = Absent)
    THEN IF \E x \in {o, t} : x \notin {b, Absent} THEN Conflict ELSE Yields(<<>>)
    ELSE KeptByOne(ByField, AddedTwice, b, o, t)

\* Properties files; the second is the driver of the examples, the same code.
Property(b, o, t) ==
    IF ~Resolvable(b, o, t) THEN Conflict
    ELSE IF o = Absent THEN Yields(There(t))
    ELSE IF o = b THEN Yields(<<IF t = Absent THEN b ELSE t>>)
    ELSE Yields(<<o>>)

ExampleProperty(b, o, t) == Property(b, o, t)

\* Tables of an SQL schema, column by column, and its indexes, which have no base.
Table(b, o, t) == KeptByOne(LAMBDA x, y, z : IF Resolvable(x, y, z) THEN Whole(x, y, z)
                                         ELSE ByField(x, y, z), AddedTwice, b, o, t)
Index(b, o, t) == KeptByOne(LAMBDA x, y, z : AddedTwice(y, z), AddedTwice, b, o, t)

\* Calendar components, property by property.
Component(b, o, t) == KeptByOne(ByField, AddedTwice, b, o, t)

\* Feed entries: rest is the set of categories, which are never dropped by one side.
Entry(b, o, t) ==
    LET Both(x, y, z) ==
            IF ~Resolvable(x.key, y.key, z.key) THEN Conflict
            ELSE Yields(<<[key |-> Resolved(x.key, y.key, z.key), rest |-> y.rest \cup z.rest]>>)
    IN  KeptByOne(Both, AddedTwice, b, o, t)

-----------------------------------------------------------------------------
(* Markup; key is the tag, or for Markdown anything below a heading *)

\* HTML children, by index.  A tag both sides changed alike decides for ours, one only
\* one side changed for that side.
Element(b, o, t) ==
    LET Both(x, y, z) ==
            IF y.key # z.key
            THEN IF y.key = x.key THEN Yields(<<z>>)
                 ELSE IF z.key = x.key THEN Yields(<<y>>) ELSE Conflict
            ELSE IF y.key # x.key THEN Yields(<<y>>) ELSE ByField(x, y, z)
    IN  KeptByOne(Both, AddedBeside, b, o, t)

\* XML children: the same code.
XmlElement(b, o, t) == Element(b, o, t)

\* SVG children that have an id; the tag of the base plays no part.
Shape(b, o, t) ==
    IF b # Absent /\ (o = Absent \/ t = Absent) THEN Yields(<<>>)
    ELSE KeptByOne(LAMBDA x, y, z : IF y.key # z.key THEN Conflict
                                ELSE ByField([x EXCEPT !.key = y.key], y, z),
               AddedBeside, b, o, t)

\* Markdown blocks below a heading, and the ones before the first: those are never
\* paired, and both sides' are put in.
Section(b, o, t) == KeptByOne(Whole, AddedTwice, b, o, t)
Preamble(b, o, t) == Yields(There(o) \o There(t))

-----------------------------------------------------------------------------
(* Documents and media *)

\* Cells of a workbook; key is the formula, rest the value.
Cell(b, o, t) ==
    LET Both(x, y, z) ==
            IF \/ y.key # x.key /\ z.key # x.key /\ y.key # z.key
               \/ y.key # x.key /\ z.key = x.key /\ z.rest # x.rest
               \/ z.key # x.key /\ y.key = x.key /\ y.rest # x.rest
            THEN Conflict ELSE Whole(x, y, z)
    IN  KeptByOne(Both, AddedTwice, b, o, t)

\* Paragraphs of a document, by index; key is the text, an empty rest means no tracked
\* change is open.  Only the text is compared.
AcceptedBy(b, side) == b.rest # {} /\ side.rest = {}
Paragraph(b, o, t) ==
    LET Both(x, y, z) ==
            IF AcceptedBy(x, y) /\ (AcceptedBy(x, z) \/ z.key = x.key) THEN Yields(<<y>>)
            ELSE IF AcceptedBy(x, z) /\ y.key = x.key THEN Yields(<<z>>)
            ELSE IF y.key = z.key THEN Yields(<<y>>)
            ELSE IF y.key = x.key THEN Yields(<<z>>)
            ELSE IF z.key = x.key THEN Yields(<<y>>) ELSE Conflict
        Added(y, z) == IF y.key = z.key THEN Yields(<<y>>) ELSE Conflict
    IN  KeptByOne(Both, Added, b, o, t)

\* Slides, by id: one that only one side deleted is the base's.
Slide(b, o, t) ==
    IF b # Absent /\ (o = Absent \/ t = Absent)
    THEN Yields(IF o = t THEN <<>> ELSE <<b>>)
    ELSE KeptByOne(Whole, AddedBeside, b, o, t)

\* Pages of a PDF, by index.
Page(b, o, t) == KeptByOne(Whole, AddedTwice, b, o, t)

\* Leaves of a timeline, by fingerprint.
Clip(b, o, t) ==
    IF b # Absent /\ (o = Absent \/ t = Absent) THEN Yields(<<>>)
    ELSE KeptByOne(Whole, AddedTwice, b, o, t)

\* An image; key is what is compared: its size and format.
Image(b, o, t) ==
    IF o.key = b.key THEN Yields(<<t>>)
    ELSE IF t.key = b.key \/ o.key = t.key THEN Yields(<<o>>)
    ELSE Conflict

-----------------------------------------------------------------------------
DriverMerges(driver, b, o, t) ==
    CASE driver = "structured" -> Structured(b, o, t)
      [] driver = "manifest"   -> Manifest(b, o, t)
      [] driver = "state"      -> StateResource(b, o, t)
      [] driver = "lock"       -> LockedPackage(b, o, t)
      [] driver = "row"        -> Row(b, o, t)
      [] driver = "property"   -> Property(b, o, t)
      [] driver = "example"    -> ExampleProperty(b, o, t)
      [] driver = "table"      -> Table(b, o, t)
      [] driver = "index"      -> Index(b, o, t)
      [] driver = "component"  -> Component(b, o, t)
      [] driver = "entry"      -> Entry(b, o, t)
      [] driver = "element"    -> Element(b, o, t)
      [] driver = "xml"        -> XmlElement(b, o, t)
      [] driver = "shape"      -> Shape(b, o, t)
      [] driver = "section"    -> Section(b, o, t)
      [] driver = "preamble"   -> Preamble(b, o, t)
      [] driver = "cell"       -> Cell(b, o, t)
      [] driver = "paragraph"  -> Paragraph(b, o, t)
      [] driver = "slide"      -> Slide(b, o, t)
      [] driver = "page"       -> Page(b, o, t)
      [] driver = "clip"       -> Clip(b, o, t)
      [] driver = "image"      -> Image(b, o, t)

Drivers == {"structured", "manifest", "state", "lock", "row", "property", "example",
            "table", "index", "component", "entry", "element", "xml", "shape", "section",
            "preamble", "cell", "paragraph", "slide", "page", "clip", "image"}

\* Drivers that lose an edit when the other side deleted the item, drivers that look
\* at the key of an item only, and drivers that prefer a side.
DropEdits == {"shape", "slide", "clip"}
KeyOnly   == {"lock", "entry", "paragraph", "image"}
Partial   == {"state", "lock", "element", "xml", "paragraph", "image"}

\* Holds(result, x): the merge has the item, or its key, and no other.
Holds(driver, result, x) ==
    result.clean => \E i \in DOMAIN result.items :
                        IF driver \in KeyOnly THEN result.items[i].key = x.key
                        ELSE result.items[i] = x
=============================================================================
