--------------------------- MODULE MCRestoredFiles ---------------------------
(***************************************************************************)
(* Bounds for TLC: a source directory with an ignored file and a sub       *)
(* directory, a file with the text of its digest, and an ignored input;    *)
(* outputs with links to a file, to a directory, to a link, to the root,   *)
(* out of the output, out of the repo and to nothing.                      *)
(***************************************************************************)
EXTENDS RestoredFiles

SRC == <<1>>  OUT == <<2>>  PUB == <<3, 1>>  GEN == <<4>>

MCIgnored == {<<1, 3>>, GEN, OUT}
MCInputs == {SRC, GEN}

Base == (<<>> :> Dir)
MCSources ==
    LET src == Base @@ (SRC :> Dir)
        five == src @@ (<<1, 1>> :> File(<<5>>))
        sub == (<<1, 2>> :> Dir) IN
    {Base, Base @@ (SRC :> File(<<>>)), five, Base @@ (SRC :> File(Digest(<<5>>))),
     five @@ sub @@ (<<1, 3>> :> File(<<8>>)),
     five @@ sub @@ (<<1, 2, 1>> :> File(<<6>>)),
     five @@ sub @@ (<<1, 2, 2>> :> File(<<>>)),
     src @@ sub @@ (<<1, 2, 1>> :> File(<<5>>)) @@ (GEN :> Dir) @@ (<<4, 1>> :> File(<<7>>))}

Shared == (<<3>> :> Dir)
MCLeftovers ==
    {<<>>, Shared @@ (OUT :> Dir) @@ (<<2, 3>> :> File(<<9>>)) @@ (<<2, 4>> :> File(<<9>>)) @@ (PUB :> File(<<9>>))}

MCProducts ==
    LET out == (OUT :> Dir) @@ Shared @@ (PUB :> File(<<4>>))
        file == (<<2, 2>> :> File(<<3>>)) IN
    {out, out @@ (<<2, 1>> :> Link(<<2, 2>>)) @@ file,
     out @@ (<<2, 1>> :> Link(<<2, 3>>)) @@ file @@ (<<2, 3>> :> Link(<<2, 2>>)),
     out @@ (<<2, 2>> :> Dir) @@ (<<2, 2, 1>> :> File(<<3>>)) @@ (<<2, 3>> :> Link(<<2, 2>>)),
     out @@ (<<2, 1>> :> Link(SRC)) @@ (<<2, 2>> :> LinkOut("absolute")) @@ (<<2, 3>> :> Link(<<2, 2>>)),
     Shared @@ (PUB :> File(<<4>>)), out @@ (<<2, 1>> :> LinkOut("outside")) @@ (<<2, 2>> :> LinkOut("dangling")) @@ (<<2, 3>> :> Link(<<>>))}
=============================================================================
