-------------------------- MODULE MCFirmwareUpdate --------------------------
EXTENDS FirmwareUpdate, TLC

AllKinds == {"cpp", "go", "node", "cs"}

\* No definition names one of the images.
ImageSymmetry == Permutations(Images)

=============================================================================
