--------------------------- MODULE MCCameraFrames ---------------------------
(* A small instance of CameraFrames: two preview buffers, one of which the *)
(* window keeps.                                                           *)
EXTENDS CameraFrames

OneKept == {1}
=============================================================================
