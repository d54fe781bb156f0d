CONSTANTS
    Country = "de"
    Codes <- GermanCodes
    Norm <- GermanNorm
    Invalid = "error"
    CodeRank <- GermanCodeRank
    Streets <- GermanStreets
    Forms <- GermanForms
    FormsOf <- GermanFormsOf
    Cities <- GermanCities
    Names <- GermanNames
    NameOf <- GermanName
    NoName = ""
    CityRank <- GermanCityRank
    Empty = ""
    Tables <- SmallTables
SPECIFICATION IndexSpec
INVARIANT EveryStreetFound
