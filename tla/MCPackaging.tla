---------------------------- MODULE MCPackaging ----------------------------
EXTENDS Packaging

\* The payload of iPadOS 15, which uses the header's slack twice.
MCVariants == {{"stamp", "optional_devices", "pci_address", "objc_imports", "pvg_reset"}}
=============================================================================
