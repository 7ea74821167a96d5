SPECIFICATION BoundedSpec
SYMMETRY Symmetry
CONSTANTS
    Null = Null
    p1 = p1
    p2 = p2
    m1 = m1
    m2 = m2
    good = good
    other = other
    Sheets = {p1, p2}
    Members = {m1, m2, m3}
    m3 = m3
    Versions = {"A1"}
    Version = "A1"
    Shots = {good, other}
    ScanIds = {s1, s2}
    Printing = {p1, p2}
    Officers = {o1, o2}
    MaxMarks = 1
    Choices = {"absent"}
    Manifest <- MCManifest
    VersionOf <- MCVersionOf
    Shot <- MCShot
    Configs <- MCConfigs
    Default <- MCDefault
INVARIANTS
    NoPageOverlooked
PROPERTIES
    OnlyReadPagesAreCommitted
    UncorrectedMarksAreTheirOwn
