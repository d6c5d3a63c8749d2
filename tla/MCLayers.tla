------------------------------- MODULE MCLayers -------------------------------
(* Two works, an artist, two tags and a cap of two: every pair of overlays  *)
(* can lie on top of each other, and be opened again during a slide-out.    *)
EXTENDS Layers
=============================================================================
