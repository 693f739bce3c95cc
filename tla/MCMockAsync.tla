---------------------------- MODULE MCMockAsync ----------------------------
(* Two requests and an endpoint of response files.                        *)
EXTENDS MockAsync

\* Responses to both requests, one of them again before a truncated TLV,
\* then a file that does not exist.
MCFiles ==
  << [kind |-> "FILE", items |-> << 1 >>],
     [kind |-> "FILE", items |-> << 2, 1, Truncated >>],
     [kind |-> "MISSING", items |-> << >>] >>

\* A response file that ends in a truncated TLV.
MCFilesTruncated ==
  << [kind |-> "FILE", items |-> << Truncated >>] >>

\* A path that names a directory.
MCFilesDir ==
  << [kind |-> "DIR", items |-> << >>] >>
=============================================================================
