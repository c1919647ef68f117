--------------------------- MODULE MCIncludeLoader ---------------------------
(* Directories d and e, and f, a link to d.  d holds x, y and z; e holds a *)
(* link y to d's y, and a z of its own.                                    *)
EXTENDS SchemaErrors, TLC

CONSTANTS a, s, d, e, f, x, y, z

MCIdents == {a, s}

At(dir, file) == [dir |-> dir, file |-> file]
MCPath == {At(dir, file) : dir \in {d, e, f}, file \in {x, y, z}}
MCCanonDir == (d :> d) @@ (e :> e) @@ (f :> d)
MCCanon == [p \in MCPath |-> IF p = At(e, y) THEN At(d, y)
                             ELSE At(MCCanonDir[p.dir], p.file)]

Field(name) ==
    [tag |-> "field", name |-> name, ty |-> "U16",
     offset |-> [kind |-> "Absolute", value |-> 0], length |-> None,
     endianness |-> None, repeat |-> None, when |-> None]
Instance ==
    [tag |-> "instance", name |-> <<a>>, struct_name |-> <<s>>,
     offset |-> [kind |-> "Absolute", value |-> 0], repeat |-> None, when |-> None]
Child == [Field(<<a>>) EXCEPT !.offset = [kind |-> "Relative", value |-> 0]]
Struct == [name |-> <<s>>, fields |-> <<Child>>]
IncludeOf(dir, file) == [tag |-> "include", dir |-> dir, file |-> file]

Doc(endianness, structures, items) ==
    [kind |-> "doc", schema_name |-> <<a>>, schema_version |-> 1,
     endianness |-> endianness, structures |-> structures, items |-> items]

Leaves ==
    { Doc(None, << >>, <<Field(<<a>>)>>),
      Doc("Big", <<Struct>>, <<Instance>>),
      Doc(None, << >>, <<Instance>>),
      Doc(None, << >>, <<Field(Blank)>>) }

Inner ==
    { Doc("Big", << >>, <<IncludeOf(None, z), Field(<<a>>)>>),
      Doc(None, <<Struct>>, <<Field(<<s>>), IncludeOf(None, z), Instance>>),
      Doc("Little", << >>, <<IncludeOf(f, x)>>),
      Doc(None, << >>, <<IncludeOf(None, z), IncludeOf(e, z)>>) }

Outer ==
    { Doc(None, << >>, <<IncludeOf(None, y), Field(<<s>>), IncludeOf(None, z)>>),
      Doc("Little", << >>, <<IncludeOf(e, y)>>),
      Doc("Big", <<Struct>>, <<Instance, IncludeOf(None, y)>>) }

ToRoot == Doc(None, << >>, <<Field(<<a>>), IncludeOf(f, x)>>)

MCDocs == Leaves \cup Inner \cup Outer \cup {Missing, Garbled, Malformed, ToRoot}

Disk(dx, dy, dz, ez) ==
    [p \in MCPath |-> CASE p = At(d, x) -> dx
                        [] p = At(d, y) -> dy
                        [] p = At(d, z) -> dz
                        [] p = At(e, z) -> ez
                        [] OTHER -> Missing]

MCDisks ==
    {Disk(dx, dy, dz, ez) :
        dx \in Outer \cup {Missing},
        dy \in Inner \cup {Missing, Garbled},
        dz \in Leaves \cup {Missing, Malformed, ToRoot},
        ez \in {Missing} \cup Leaves}

MCRequests ==
    {[kind |-> "file", path |-> At(d, x)], [kind |-> "file", path |-> At(e, y)]}
    \cup {[kind |-> "text", path |-> At(d, x), text |-> doc] : doc \in Outer}
    \cup {[kind |-> "text", path |-> At(e, y), text |-> doc] : doc \in Inner}
    \cup {[kind |-> "text", path |-> At(f, x), text |-> content] :
             content \in {Garbled, Malformed, Doc("Big", << >>, <<Field(Blank)>>)}}
    \cup {[kind |-> "alone", text |-> content] : content \in MCDocs \ {Missing}}

(* The smaller instance in which files are replaced during the call.       *)
ViaLink == Doc("Little", << >>, <<IncludeOf(e, y), Field(<<a>>)>>)
Chain == Doc(None, << >>, <<Field(<<s>>), IncludeOf(None, z)>>)
EditedDocs == {ViaLink, Chain, ToRoot, Doc(None, << >>, <<Field(<<a>>)>>), Missing}
EditedDisks ==
    {Disk(ViaLink, Chain, dz, Missing) : dz \in {ToRoot, Missing, Doc(None, << >>, <<Field(<<a>>)>>)}}
EditedRequests ==
    {[kind |-> "file", path |-> At(d, x)], [kind |-> "file", path |-> At(e, y)],
     [kind |-> "text", path |-> At(f, x), text |-> ViaLink]}

=============================================================================
