---------------------------- MODULE MCOMXClients ----------------------------
(* Small instances of OMXClients.                                          *)
EXTENDS OMXClients, TLC

CONSTANTS a1, a2, a3, a4, pl1, pl2, n1, n2, n3, n4, n5, jpeg, Video, JpegEnc, Lost,
          h263, avc, mpeg2, mpeg4, jpg

Row(n, r, m) == [name |-> n, role |-> r, maxinstances |-> m]

\* A kind with one role more than the array of three has elements and as many instances
\* as it holds, one with a single instance; the table has no room for the third.  Four nodes want the
\* first kind, one the second.
MCNames == << Row(Video, h263, 3), Row(Video, avc, 3), Row(JpegEnc, jpg, 1),
              Row(Video, mpeg2, 3), Row(Video, mpeg4, 3), Row(Lost, NULL, 1) >>
MCPluginOf == [n \in {n1, n2, n3} |-> pl1] @@ [n \in {n4, n5} |-> pl2]
MCNameOf == [n \in {n1, n2, n3, n4} |-> Video] @@ (n5 :> JpegEnc)

\* Two nodes of one plugin and an encoder that want the same kind.
MCSharedNames == << Row(JpegEnc, jpg, 3), Row(Video, h263, 1), Row(Lost, NULL, 1) >>
MCSharedOf == (n1 :> pl1) @@ (n2 :> pl1)
MCSharedNameOf == (n1 :> JpegEnc) @@ (n2 :> JpegEnc) @@ (jpeg :> JpegEnc)

HandleSymmetry == Permutations(Handles)
=============================================================================
